---------------------------- MODULE HubbleClient ----------------------------
(***************************************************************************)
(* The Hubble client (internal/hubble/client.go): one goroutine,           *)
(* connectionLoop, connects to Hubble Relay, streams dropped flows into a  *)
(* bounded channel and reconnects; Close asks it to stop and waits for it. *)
(*                                                                         *)
(* grpc.NewClient does not connect: it fails only for a malformed address. *)
(* Whether the relay can be reached shows in the stream, whose Recv blocks *)
(* while no flow comes and fails when the relay or the context is gone.    *)
(* stop and ctx are only looked at where the code looks at them.           *)
(***************************************************************************)
EXTENDS Integers, Sequences

CONSTANTS
  Base, Cap,       \* ReconnectInterval, MaxReconnectInterval
  BufferSize,
  MaxFlows,        \* bound on the flows that are observed
  MaxFailures      \* bound on connects that fail and streams the relay ends

ASSUME HubbleAssumption ==
  /\ Base \in Nat \ {0} /\ Cap \in Nat /\ Base <= Cap
  /\ BufferSize \in Nat \ {0} /\ MaxFlows \in Nat /\ MaxFailures \in Nat

States == {"Disconnected", "Connecting", "Connected", "Reconnecting"}
Steps == {"top", "connect", "backoff", "getFlows", "check", "recv", "count", "disconnect", "done"}

VARIABLES
  loop, state, interval,
  drops,           \* the channel, as the numbers of the flows in it
  dropsClosed,
  stopCh,          \* whether stopCh is closed
  ctxDone,
  waiting,         \* whether a caller of Close waits for the goroutine
  relayUp,         \* whether the relay answers
  flowDrops,       \* the counter of the client
  flows, failed,   \* flows observed, connects failed and streams ended
  received         \* history: flows the consumer received

hubbleVars == <<loop, state, interval, drops, dropsClosed, stopCh, ctxDone, waiting, relayUp, flowDrops,
                flows, failed, received>>
callers == <<stopCh, ctxDone, waiting>>

HubbleTypeOK ==
  /\ loop \in Steps /\ state \in States
  /\ interval \in Base..Cap
  /\ drops \in Seq(1..MaxFlows) /\ Len(drops) <= BufferSize
  /\ {dropsClosed, stopCh, ctxDone, waiting, relayUp} \subseteq BOOLEAN
  /\ flowDrops \in 0..MaxFlows /\ flows \in 0..MaxFlows /\ failed \in 0..MaxFailures
  /\ received \in Seq(1..MaxFlows)

HubbleInit ==
  /\ loop = "top" /\ state = "Disconnected" /\ interval = Base
  /\ drops = <<>> /\ dropsClosed = FALSE
  /\ stopCh = FALSE /\ ctxDone = FALSE /\ waiting = FALSE
  /\ relayUp \in BOOLEAN
  /\ flowDrops = 0 /\ flows = 0 /\ failed = 0
  /\ received = <<>>

-----------------------------------------------------------------------------
(* connectionLoop.                                                         *)

Exit == loop' = "done" /\ dropsClosed' = TRUE

Top_NoSelect ==
  /\ loop = "top" /\ loop' = "connect" /\ state' = "Connecting"
  /\ UNCHANGED <<interval, drops, dropsClosed, callers, relayUp, flowDrops, flows, failed, received>>

(* The select at the head of the loop: it goes on when neither is ready.   *)
Top ==
  /\ loop = "top"
  /\ IF ctxDone \/ stopCh
     THEN Exit /\ UNCHANGED state
     ELSE loop' = "connect" /\ state' = "Connecting" /\ UNCHANGED dropsClosed
  /\ UNCHANGED <<interval, drops, callers, relayUp, flowDrops, flows, failed, received>>

ConnectFails ==
  /\ loop = "connect" /\ failed < MaxFailures
  /\ failed' = failed + 1
  /\ loop' = "backoff"
  /\ UNCHANGED <<state, interval, drops, dropsClosed, callers, relayUp, flowDrops, flows, received>>

nextReconnectInterval(current) == IF current * 2 > Cap THEN Cap ELSE current * 2

(* The wait after a failed connect, cut short by stop and by the context.  *)
Backoff ==
  /\ loop = "backoff"
  /\ \/ /\ ctxDone \/ stopCh
        /\ Exit /\ UNCHANGED interval
     \/ /\ loop' = "top"
        /\ interval' = nextReconnectInterval(interval)
        /\ UNCHANGED dropsClosed
  /\ UNCHANGED <<state, drops, callers, relayUp, flowDrops, flows, failed, received>>

Connect ==
  /\ loop = "connect"
  /\ loop' = "getFlows" /\ state' = "Connected" /\ interval' = Base
  /\ UNCHANGED <<drops, dropsClosed, callers, relayUp, flowDrops, flows, failed, received>>

(* streamFlows: GetFlows fails when the relay cannot be reached.           *)
GetFlows ==
  /\ loop = "getFlows"
  /\ loop' = IF relayUp /\ ~ctxDone THEN "check" ELSE "disconnect"
  /\ UNCHANGED <<state, interval, drops, dropsClosed, callers, relayUp, flowDrops, flows, failed, received>>

CheckStop ==
  /\ loop = "check"
  /\ loop' = IF stopCh THEN "disconnect" ELSE "recv"
  /\ UNCHANGED <<state, interval, drops, dropsClosed, callers, relayUp, flowDrops, flows, failed, received>>

(* Recv returns a flow, which recordFlowDrop sends unless the channel is   *)
(* full, and then counts.                                                  *)
BufferHasRoom == Len(drops) < BufferSize

RecvFlow_CountsAll ==
  /\ loop = "recv" /\ relayUp /\ flows < MaxFlows
  /\ flows' = flows + 1
  /\ loop' = "count"
  /\ drops' = IF BufferHasRoom THEN Append(drops, flows') ELSE drops
  /\ UNCHANGED <<state, interval, dropsClosed, callers, relayUp, flowDrops, failed, received>>

RecvFlow ==
  /\ loop = "recv" /\ relayUp /\ flows < MaxFlows
  /\ flows' = flows + 1
  /\ IF BufferHasRoom
     THEN drops' = Append(drops, flows') /\ loop' = "count"
     ELSE loop' = "check" /\ UNCHANGED drops
  /\ UNCHANGED <<state, interval, dropsClosed, callers, relayUp, flowDrops, failed, received>>

Count ==
  /\ loop = "count"
  /\ flowDrops' = flowDrops + 1
  /\ loop' = "check"
  /\ UNCHANGED <<state, interval, drops, dropsClosed, callers, relayUp, flows, failed, received>>

(* A response without a flow, or with one that convertFlow refuses.        *)
RecvOther ==
  /\ loop = "recv" /\ relayUp
  /\ loop' = "check"
  /\ UNCHANGED <<state, interval, drops, dropsClosed, callers, relayUp, flowDrops, flows, failed, received>>

(* A relay that stays up ends the stream.                                  *)
RecvEOF ==
  /\ loop = "recv" /\ relayUp /\ failed < MaxFailures
  /\ failed' = failed + 1
  /\ loop' = "disconnect"
  /\ UNCHANGED <<state, interval, drops, dropsClosed, callers, relayUp, flowDrops, flows, received>>

(* Recv fails.                                                             *)
RecvError ==
  /\ loop = "recv" /\ (~relayUp \/ ctxDone)
  /\ loop' = "disconnect"
  /\ UNCHANGED <<state, interval, drops, dropsClosed, callers, relayUp, flowDrops, flows, failed, received>>

Disconnect_Exits ==
  /\ loop = "disconnect"
  /\ Exit /\ state' = "Disconnected"
  /\ UNCHANGED <<interval, drops, callers, relayUp, flowDrops, flows, failed, received>>

Disconnect ==
  /\ loop = "disconnect"
  /\ loop' = "top" /\ state' = "Reconnecting"
  /\ UNCHANGED <<interval, drops, dropsClosed, callers, relayUp, flowDrops, flows, failed, received>>

-----------------------------------------------------------------------------
(* Close closes stopCh once and waits.                                     *)
Close ==
  /\ ~waiting
  /\ stopCh' = TRUE /\ waiting' = TRUE
  /\ UNCHANGED <<loop, state, interval, drops, dropsClosed, ctxDone, relayUp, flowDrops, flows, failed, received>>

CloseReturns ==
  /\ waiting /\ loop = "done"
  /\ waiting' = FALSE
  /\ UNCHANGED <<loop, state, interval, drops, dropsClosed, stopCh, ctxDone, relayUp, flowDrops, flows, failed, received>>

CancelContext ==
  /\ ~ctxDone /\ ctxDone' = TRUE
  /\ UNCHANGED <<loop, state, interval, drops, dropsClosed, stopCh, waiting, relayUp, flowDrops, flows, failed, received>>

(* The consumer (processFlowDrops) and the relay.                          *)
ConsumerReceives ==
  /\ drops # <<>>
  /\ drops' = Tail(drops) /\ received' = Append(received, Head(drops))
  /\ UNCHANGED <<loop, state, interval, dropsClosed, callers, relayUp, flowDrops, flows, failed>>

Relay ==
  /\ relayUp' = ~relayUp
  /\ UNCHANGED <<loop, state, interval, drops, dropsClosed, callers, flowDrops, flows, failed, received>>

(* What the client does of itself, and what waits for the relay.           *)
Advance == Top \/ ConnectFails \/ Backoff \/ Connect \/ GetFlows \/ CheckStop \/ Count \/ RecvError \/ Disconnect

connectionLoop == Advance \/ RecvFlow \/ RecvOther \/ RecvEOF

HubbleNext == connectionLoop \/ Close \/ CloseReturns \/ CancelContext \/ ConsumerReceives \/ Relay

HubbleSpec == HubbleInit /\ [][HubbleNext]_hubbleVars

(* The goroutine runs, and the waiting caller is woken.  Nothing makes the *)
(* relay send anything: a Recv may wait for ever.                          *)
FairSpec == HubbleSpec /\ WF_hubbleVars(Advance) /\ WF_hubbleVars(CloseReturns)

-----------------------------------------------------------------------------
(* Properties.                                                             *)

(* The consumer receives flows in the order they were observed and none    *)
(* twice.  Stats may see a flow in the channel, or with the consumer, that *)
(* is not counted yet, but only the last one; when the channel is closed   *)
(* the counter is exactly the number of flows that reached it.             *)
DropsInOrder ==
  LET all == received \o drops
  IN  /\ \A i, j \in DOMAIN all : i < j => all[i] < all[j]
      /\ flowDrops <= Len(all) /\ Len(all) <= flowDrops + 1
      /\ dropsClosed => flowDrops = Len(all)

(* Close returns, wherever the loop is when it is called, with one         *)
(* exception: stopCh does not interrupt a Recv, so that a loop which is    *)
(* blocked there on a silent relay ends only with its context.             *)
CloseTerminates == waiting ~> (~waiting \/ [](loop = "recv" /\ ~ctxDone))

(* The client recovers from whatever the relay does: when the relay stays  *)
(* up and nobody stops the client it ends up streaming, however often the  *)
(* stream broke before, and it never waits longer than                     *)
(* MaxReconnectInterval for its next attempt.                              *)
Reconnects ==
  /\ <>[](relayUp /\ ~stopCh /\ ~ctxDone) => <>[](loop \in {"check", "recv", "count"})
  /\ [](interval <= Cap)

=============================================================================
