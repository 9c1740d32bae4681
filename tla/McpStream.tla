----------------------------- MODULE McpStream ------------------------------
(***************************************************************************)
(* The event stream of the MCP server (internal/mcp/server.go).  Every     *)
(* client has a goroutine that runs handleSSE and a buffered channel;      *)
(* BroadcastEvent sends to all channels without blocking.  It holds the    *)
(* read lock while it does, and handleSSE adds, removes and closes a       *)
(* channel under the write lock.                                           *)
(*                                                                         *)
(* BroadcastEvent may be called by any goroutine.  Its one caller in the   *)
(* package is OnIndexChange, which the index callback that                 *)
(* cmd/controller/main.go installs does not call: the deployed server has  *)
(* no changes to stream, and what is shown here is of the component.  As   *)
(* in sync.RWMutex, no reader enters while a writer waits.                 *)
(***************************************************************************)
EXTENDS Common, Integers, Sequences

CONSTANTS
  Clients, Writers,   \* Writers: the goroutines that broadcast
  Capacity,           \* of a client's channel (100 in the code)
  MaxMade             \* bound on the events each writer broadcasts

ASSUME StreamAssumption ==
  Capacity \in Nat \ {0} /\ MaxMade \in Nat

Event == Writers \X (1..MaxMade)
Broadcast == [locked : BOOLEAN, todo : SUBSET Clients]
HandlerSteps == {"away", "connecting", "open", "leaving", "gone"}

VARIABLES
  handler,      \* where the handleSSE of each client is
  sseClients,   \* clients in the map
  clientChan,   \* per client: its channel
  closed,       \* clients whose channel is closed
  written,      \* per client: events taken from its channel to be written
  made,         \* per writer: events it has broadcast
  casting,      \* per writer: its call of BroadcastEvent, or None
  panicked      \* a send found its channel closed

streamVars == <<handler, sseClients, clientChan, closed, written, made, casting, panicked>>

StreamTypeOK ==
  /\ handler \in [Clients -> HandlerSteps]
  /\ sseClients \subseteq Clients /\ closed \subseteq Clients
  /\ clientChan \in [Clients -> Seq(Event)] /\ \A c \in Clients : Len(clientChan[c]) <= Capacity
  /\ written \in [Clients -> Seq(Event)]
  /\ made \in [Writers -> 0..MaxMade]
  /\ casting \in [Writers -> Broadcast \union {None}]
  /\ panicked \in BOOLEAN

StreamInit ==
  /\ handler = [c \in Clients |-> "away"]
  /\ sseClients = {} /\ closed = {}
  /\ clientChan = [c \in Clients |-> <<>>] /\ written = [c \in Clients |-> <<>>]
  /\ made = [w \in Writers |-> 0] /\ casting = [w \in Writers |-> None]
  /\ panicked = FALSE

Current(w) == <<w, made[w]>>
Casts(w) == casting[w] # None /\ casting[w].locked
WriteLockFree == \A w \in Writers : ~Casts(w)
ReadLockFree == \A c \in Clients : handler[c] \notin {"connecting", "leaving"}

-----------------------------------------------------------------------------
(* handleSSE.  Connecting and leaving stand for waiting at the write lock. *)
Connect(c) ==
  /\ handler[c] = "away" /\ handler' = [handler EXCEPT ![c] = "connecting"]
  /\ UNCHANGED <<sseClients, clientChan, closed, written, made, casting, panicked>>

AddClient(c) ==
  /\ handler[c] = "connecting" /\ WriteLockFree
  /\ handler' = [handler EXCEPT ![c] = "open"]
  /\ sseClients' = sseClients \union {c}
  /\ UNCHANGED <<clientChan, closed, written, made, casting, panicked>>

StreamEvent(c) ==
  /\ handler[c] = "open" /\ clientChan[c] # <<>>
  /\ written' = [written EXCEPT ![c] = Append(@, Head(clientChan[c]))]
  /\ clientChan' = [clientChan EXCEPT ![c] = Tail(@)]
  /\ UNCHANGED <<handler, sseClients, closed, made, casting, panicked>>

Disconnect(c) ==
  /\ handler[c] = "open" /\ handler' = [handler EXCEPT ![c] = "leaving"]
  /\ UNCHANGED <<sseClients, clientChan, closed, written, made, casting, panicked>>

RemoveClient_NoLock(c) ==
  /\ handler[c] = "leaving"
  /\ handler' = [handler EXCEPT ![c] = "gone"]
  /\ sseClients' = sseClients \ {c} /\ closed' = closed \union {c}
  /\ UNCHANGED <<clientChan, written, made, casting, panicked>>

RemoveClient(c) ==
  /\ handler[c] = "leaving" /\ WriteLockFree
  /\ handler' = [handler EXCEPT ![c] = "gone"]
  /\ sseClients' = sseClients \ {c} /\ closed' = closed \union {c}
  /\ UNCHANGED <<clientChan, written, made, casting, panicked>>

-----------------------------------------------------------------------------
(* BroadcastEvent.                                                         *)
CallBroadcast(w) ==
  /\ casting[w] = None /\ made[w] < MaxMade
  /\ made' = [made EXCEPT ![w] = @ + 1]
  /\ casting' = [casting EXCEPT ![w] = [locked |-> FALSE, todo |-> {}]]
  /\ UNCHANGED <<handler, sseClients, clientChan, closed, written, panicked>>

RLock(w) ==
  /\ casting[w] # None /\ ~casting[w].locked /\ ReadLockFree
  /\ casting' = [casting EXCEPT ![w] = [locked |-> TRUE, todo |-> sseClients]]
  /\ UNCHANGED <<handler, sseClients, clientChan, closed, written, made, panicked>>

HasRoom(c) == Len(clientChan[c]) < Capacity

Visited(w, c) == casting' = [casting EXCEPT ![w].todo = @ \ {c}]

SendTo_Again(w, c) ==
  /\ Casts(w) /\ c \in casting[w].todo /\ HasRoom(c)
  /\ \E done \in SUBSET {c} : casting' = [casting EXCEPT ![w].todo = @ \ done]
  /\ clientChan' = [clientChan EXCEPT ![c] = Append(@, Current(w))]
  /\ UNCHANGED <<handler, sseClients, closed, written, made, panicked>>

(* A send on a closed channel is a panic, full or not.                     *)
SendTo(w, c) ==
  /\ Casts(w) /\ c \in casting[w].todo /\ (HasRoom(c) \/ c \in closed)
  /\ Visited(w, c)
  /\ IF c \in closed
     THEN panicked' = TRUE /\ UNCHANGED clientChan
     ELSE clientChan' = [clientChan EXCEPT ![c] = Append(@, Current(w))] /\ UNCHANGED panicked
  /\ UNCHANGED <<handler, sseClients, closed, written, made>>

(* A send that waits for room.                                             *)
Drop_Blocks(w, c) ==
  FALSE /\ UNCHANGED streamVars

Drop(w, c) ==
  /\ Casts(w) /\ c \in casting[w].todo /\ ~HasRoom(c) /\ c \notin closed
  /\ Visited(w, c)
  /\ UNCHANGED <<handler, sseClients, clientChan, closed, written, made, panicked>>

RUnlock(w) ==
  /\ Casts(w) /\ casting[w].todo = {}
  /\ casting' = [casting EXCEPT ![w] = None]
  /\ UNCHANGED <<handler, sseClients, clientChan, closed, written, made, panicked>>

BroadcastEvent(w) == RLock(w) \/ RUnlock(w) \/ \E c \in Clients : SendTo(w, c) \/ Drop(w, c)
handleSSE(c) == AddClient(c) \/ RemoveClient(c)

StreamNext ==
  \/ \E c \in Clients : Connect(c) \/ StreamEvent(c) \/ Disconnect(c) \/ handleSSE(c)
  \/ \E w \in Writers : CallBroadcast(w) \/ BroadcastEvent(w)

StreamSpec == StreamInit /\ [][StreamNext]_streamVars

(* Goroutines that can run do run, and the mutex is handed on.  A write to *)
(* a client that does not read may block for ever.                         *)
Fairness ==
  /\ \A c \in Clients : WF_streamVars(handleSSE(c))
  /\ \A w \in Writers : WF_streamVars(BroadcastEvent(w))

-----------------------------------------------------------------------------
(* Properties.                                                             *)

(* BroadcastEvent never sends on a channel that handleSSE has closed.      *)
NoSendOnClosed == ~panicked

(* A client sees the events of one writer in the order they were broadcast *)
(* and none of them twice, whatever was dropped in between.                *)
Stream(c) == written[c] \o clientChan[c]
InOrder ==
  \A c \in Clients : \A i, j \in DOMAIN Stream(c) :
    (i < j /\ Stream(c)[i][1] = Stream(c)[j][1]) => Stream(c)[i][2] < Stream(c)[j][2]

(* A client that disconnects is removed: no broadcast, whatever the other  *)
(* clients do, keeps handleSSE from the write lock for ever.               *)
LeaveCompletes == \A c \in Clients : handler[c] = "leaving" ~> handler[c] = "gone"

(* Whoever broadcasts gets on: no client that does not read, comes or      *)
(* leaves holds a caller of BroadcastEvent up for ever.                    *)
BroadcastReturns == \A w \in Writers : casting[w] # None ~> casting[w] = None

=============================================================================
