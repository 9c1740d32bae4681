----------------------------- MODULE Correlator -----------------------------
(***************************************************************************)
(* The correlator (internal/correlator/correlator.go).  Two goroutines     *)
(* look constraints up for what they observe and send one notification per *)
(* constraint to a bounded channel: "watch" handles the Warning events of  *)
(* the cluster, "flow" the flow drops that Hubble reports.  They share the *)
(* map of pairs already seen, and the first closes both channels when the  *)
(* context is cancelled.                                                   *)
(*                                                                         *)
(* What the index returns for an observation is the constant Matches: a    *)
(* sequence of sets of constraint UIDs, one set per namespace looked up    *)
(* (one for an event, up to two for a flow, none for what is not           *)
(* correlated: a cluster-scoped object, a drop that no policy caused).     *)
(***************************************************************************)
EXTENDS Integers, Sequences, FiniteSets

CONSTANTS
  Warnings,     \* Warning events, by UID
  Flows,        \* flow drops
  Uids,         \* constraint UIDs
  Matches,      \* what the lookups for an observation return
  KeyOf,        \* the observation's part of the dedupe key
  Keys,
  Window,       \* dedupeWindow, in ticks
  Capacity,     \* notificationBuffer
  MaxTime,      \* bound on the clock
  MaxRefused,   \* bound on observations the rate limiter refuses
  CanCancel,    \* whether the context may be cancelled
  Never, None

Goroutines == {"watch", "flow"}
Time == 0..MaxTime
dedupeKey == Keys \X Uids
Notification == [of : Warnings \union Flows, uid : Uids]

(* A handler at work: what it handles, the constraints still to visit, and *)
(* the one it has marked, at which time, and is about to send (or None).   *)
Handling == [of : Warnings \union Flows, visit : Seq(SUBSET Uids), sending : Uids \union {None}, at : Time]

ASSUME ConstantsAssumption ==
  /\ Matches \in [Warnings \union Flows -> Seq(SUBSET Uids)]
  /\ KeyOf \in [Warnings \union Flows -> Keys]
  /\ Window \in Nat \ {0} /\ Capacity \in Nat \ {0}
  /\ MaxTime \in Nat /\ MaxRefused \in Nat /\ CanCancel \in BOOLEAN
  /\ Never \notin Nat /\ None \notin Uids /\ None \notin Handling

VARIABLES
  now,
  existing,     \* cluster: Warning events stored by the API server
  watching,     \* whether a watch is open
  queue,        \* events the watch has yet to deliver
  dropsCh,      \* flow drops in the Hubble client's channel
  todo,         \* per goroutine: what it handles, None between two
  seenPairs,    \* when each pair was marked, or Never
  channel,      \* per goroutine: notifications, flowDrops
  cancelled,    \* the context
  closed,       \* whether Start has closed the channels and returned
  flowExited,   \* whether processFlowDrops has returned
  panicked,     \* whether a goroutine sent on a closed channel
  refused,      \* history: observations that a rate limiter refused
  sent,         \* history: notifications that reached a channel, with the time of their mark
  lost          \* history: notifications marked but not sent

vars == <<now, existing, watching, queue, dropsCh, todo, seenPairs, channel, cancelled, closed,
          flowExited, panicked, refused, sent, lost>>
observed == <<existing, watching, queue, dropsCh>>
ended == <<cancelled, closed, flowExited, panicked>>
history == <<refused, sent, lost>>

TypeOK ==
  /\ now \in Time /\ refused \subseteq Warnings \union Flows
  /\ existing \subseteq Warnings /\ queue \subseteq existing /\ dropsCh \subseteq Flows
  /\ {watching, cancelled, closed, flowExited, panicked} \subseteq BOOLEAN
  /\ todo \in [Goroutines -> Handling \union {None}]
  /\ seenPairs \in [dedupeKey -> Time \union {Never}]
  /\ channel \in [Goroutines -> Seq(Notification)]
  /\ \A g \in Goroutines : Len(channel[g]) <= Capacity
  /\ sent \union lost \subseteq [n : Notification, at : Time]

Init ==
  /\ now = 0
  /\ existing = {} /\ queue = {} /\ dropsCh = {}
  /\ watching = FALSE /\ cancelled = FALSE /\ closed = FALSE /\ flowExited = FALSE /\ panicked = FALSE
  /\ todo = [g \in Goroutines |-> None]
  /\ seenPairs = [k \in dedupeKey |-> Never]
  /\ channel = [g \in Goroutines |-> <<>>]
  /\ refused = {} /\ sent = {} /\ lost = {}

-----------------------------------------------------------------------------
(* The API server and Hubble.  A watch opened without a resource version   *)
(* first delivers every stored event as added.                             *)

Deliver(e) == queue' = IF watching THEN queue \union {e} ELSE queue

CreateWarning(e) ==
  /\ e \notin existing
  /\ existing' = existing \union {e}
  /\ Deliver(e)
  /\ UNCHANGED <<now, watching, dropsCh, todo, seenPairs, channel, ended, history>>

(* The event recurs: its count changes and the watch delivers it again.    *)
ModifyWarning(e) ==
  /\ e \in existing /\ Deliver(e) /\ queue' # queue
  /\ UNCHANGED <<now, existing, watching, dropsCh, todo, seenPairs, channel, ended, history>>

WatchCloses ==
  /\ watching /\ watching' = FALSE /\ queue' = {}
  /\ UNCHANGED <<now, existing, dropsCh, todo, seenPairs, channel, ended, history>>

ObserveDrop(f) ==
  /\ f \notin dropsCh
  /\ dropsCh' = dropsCh \union {f}
  /\ UNCHANGED <<now, existing, watching, queue, todo, seenPairs, channel, ended, history>>

Tick ==
  /\ now < MaxTime /\ now' = now + 1
  /\ UNCHANGED <<observed, todo, seenPairs, channel, ended, history>>

Cancel ==
  /\ CanCancel /\ ~cancelled /\ cancelled' = TRUE
  /\ UNCHANGED <<now, observed, todo, seenPairs, channel, closed, flowExited, panicked, history>>

-----------------------------------------------------------------------------
(* Start and watchEvents.                                                  *)

Running(g) == ~panicked /\ ~(IF g = "watch" THEN closed ELSE flowExited)
Idle(g) == Running(g) /\ todo[g] = None

Watch_SinceNow ==
  /\ Idle("watch") /\ ~watching /\ ~cancelled
  /\ watching' = TRUE /\ queue' = {}
  /\ UNCHANGED <<now, existing, dropsCh, todo, seenPairs, channel, ended, history>>

(* The watch is opened, for the first time or after it closed or failed.   *)
Watch ==
  /\ Idle("watch") /\ ~watching /\ ~cancelled
  /\ watching' = TRUE /\ queue' = existing
  /\ UNCHANGED <<now, existing, dropsCh, todo, seenPairs, channel, ended, history>>

StopWatch_Drains ==
  /\ Idle("watch") /\ cancelled /\ queue = {}
  /\ closed' = TRUE /\ watching' = FALSE /\ queue' = {}
  /\ UNCHANGED <<now, existing, dropsCh, todo, seenPairs, channel, cancelled, flowExited, panicked, history>>

(* The cancelled context ends the loops.                                   *)
StopWatch ==
  /\ Idle("watch") /\ cancelled
  /\ closed' = TRUE /\ watching' = FALSE /\ queue' = {}
  /\ UNCHANGED <<now, existing, dropsCh, todo, seenPairs, channel, cancelled, flowExited, panicked, history>>

StopFlow ==
  /\ Idle("flow") /\ cancelled
  /\ flowExited' = TRUE
  /\ UNCHANGED <<now, observed, todo, seenPairs, channel, cancelled, closed, panicked, history>>

-----------------------------------------------------------------------------
(* handleEvent, handleFlowDrop and correlateFlowDropInNamespace.           *)

Begin(g, x) ==
  \/ /\ todo' = [todo EXCEPT ![g] = [of |-> x, visit |-> Matches[x], sending |-> None, at |-> now]]
     /\ UNCHANGED refused
  \/ /\ Cardinality(refused) < MaxRefused /\ refused' = refused \union {x}
     /\ UNCHANGED todo

TakeEvent(e) ==
  /\ Idle("watch") /\ e \in queue
  /\ queue' = queue \ {e}
  /\ Begin("watch", e)
  /\ UNCHANGED <<now, existing, watching, dropsCh, seenPairs, channel, ended, sent, lost>>

TakeDrop(f) ==
  /\ Idle("flow") /\ f \in dropsCh
  /\ dropsCh' = dropsCh \ {f}
  /\ Begin("flow", f)
  /\ UNCHANGED <<now, existing, watching, queue, seenPairs, channel, ended, sent, lost>>

RecentlySeen_Short(k) == seenPairs[k] # Never /\ now - seenPairs[k] < Window - 1
RecentlySeen(k) == seenPairs[k] # Never /\ now - seenPairs[k] < Window

Visiting(g) == Running(g) /\ todo[g] # None /\ todo[g].sending = None /\ todo[g].visit # <<>>
Rest(g, u) == <<Head(todo[g].visit) \ {u}>> \o Tail(todo[g].visit)

Visit_Refreshes(g, u) ==
  /\ Visiting(g) /\ u \in Head(todo[g].visit)
  /\ LET k == <<KeyOf[todo[g].of], u>>
     IN  /\ todo' = [todo EXCEPT ![g].visit = Rest(g, u), ![g].at = now,
                                 ![g].sending = IF RecentlySeen(k) THEN None ELSE u]
         /\ seenPairs' = [seenPairs EXCEPT ![k] = now]
  /\ UNCHANGED <<now, observed, channel, ended, history>>

(* One turn of the loop over the constraints, up to tryMarkSeen.           *)
Visit(g, u) ==
  /\ Visiting(g) /\ u \in Head(todo[g].visit)
  /\ LET k == <<KeyOf[todo[g].of], u>>
     IN  IF RecentlySeen(k)
         THEN /\ todo' = [todo EXCEPT ![g].visit = Rest(g, u)]
              /\ UNCHANGED seenPairs
         ELSE /\ todo' = [todo EXCEPT ![g].visit = Rest(g, u), ![g].sending = u, ![g].at = now]
              /\ seenPairs' = [seenPairs EXCEPT ![k] = now]
  /\ UNCHANGED <<now, observed, channel, ended, history>>

NextNamespace(g) ==
  /\ Visiting(g) /\ Head(todo[g].visit) = {}
  /\ todo' = [todo EXCEPT ![g].visit = Tail(@)]
  /\ UNCHANGED <<now, observed, seenPairs, channel, ended, history>>

Return(g) ==
  /\ Running(g) /\ todo[g] # None /\ todo[g].sending = None /\ todo[g].visit = <<>>
  /\ todo' = [todo EXCEPT ![g] = None]
  /\ UNCHANGED <<now, observed, seenPairs, channel, ended, history>>

Sending(g) == Running(g) /\ todo[g] # None /\ todo[g].sending # None
HasRoom(g) == ~closed /\ Len(channel[g]) < Capacity

Marked(g) == [n |-> [of |-> todo[g].of, uid |-> todo[g].sending], at |-> todo[g].at]

(* The select around the send: any of the ready cases, else the default.   *)
Send(g) ==
  /\ Sending(g) /\ HasRoom(g)
  /\ channel' = [channel EXCEPT ![g] = Append(@, Marked(g).n)]
  /\ sent' = sent \union {Marked(g)}
  /\ todo' = [todo EXCEPT ![g].sending = None]
  /\ UNCHANGED <<now, observed, seenPairs, ended, refused, lost>>

(* The cancelled context ends the loop over this namespace's constraints.  *)
SendCancelled(g) ==
  /\ Sending(g) /\ cancelled
  /\ lost' = lost \union {Marked(g)}
  /\ todo' = [todo EXCEPT ![g].sending = None, ![g].visit = Tail(@)]
  /\ UNCHANGED <<now, observed, seenPairs, channel, ended, refused, sent>>

(* A full channel: the notification is dropped and its mark stays.         *)
SendDefault(g) ==
  /\ Sending(g) /\ ~HasRoom(g) /\ ~cancelled
  /\ lost' = lost \union {Marked(g)}
  /\ todo' = [todo EXCEPT ![g].sending = None]
  /\ UNCHANGED <<now, observed, seenPairs, channel, ended, refused, sent>>

(* A send on a closed channel is a ready case, and panics, which ends the  *)
(* process.                                                                *)
SendPanics(g) ==
  /\ Sending(g) /\ closed
  /\ panicked' = TRUE
  /\ UNCHANGED <<now, observed, todo, seenPairs, channel, cancelled, closed, flowExited, history>>

-----------------------------------------------------------------------------
(* The consumers of the two channels (cmd/controller/main.go).             *)
Receive(g) ==
  /\ channel[g] # <<>> /\ ~panicked
  /\ channel' = [channel EXCEPT ![g] = Tail(@)]
  /\ UNCHANGED <<now, observed, todo, seenPairs, ended, history>>

Expired(k) == seenPairs[k] # Never /\ seenPairs[k] < now - Window

(* One run of cleanupDedupeCache.                                          *)
Cleanup ==
  /\ \E k \in dedupeKey : Expired(k)
  /\ ~panicked
  /\ seenPairs' = [k \in dedupeKey |-> IF Expired(k) THEN Never ELSE seenPairs[k]]
  /\ UNCHANGED <<now, observed, todo, channel, ended, history>>

-----------------------------------------------------------------------------
Handle(g) ==
  \/ \E u \in Uids : Visit(g, u)
  \/ NextNamespace(g) \/ Return(g)
  \/ Send(g) \/ SendCancelled(g) \/ SendDefault(g) \/ SendPanics(g)

WatchLoop == Watch \/ StopWatch \/ (\E e \in Warnings : TakeEvent(e)) \/ Handle("watch")
FlowLoop == StopFlow \/ (\E f \in Flows : TakeDrop(f)) \/ Handle("flow")

Environment ==
  \/ \E e \in Warnings : CreateWarning(e) \/ ModifyWarning(e)
  \/ \E f \in Flows : ObserveDrop(f)
  \/ WatchCloses \/ Tick \/ Cancel

Next ==
  \/ Environment \/ WatchLoop \/ FlowLoop \/ Cleanup
  \/ \E g \in Goroutines : Receive(g)

Spec == Init /\ [][Next]_vars

-----------------------------------------------------------------------------
(* Properties.                                                             *)

(* Two notifications of one pair are marked at least dedupeWindow apart,   *)
(* whatever is delivered again and whenever the cleanup runs.              *)
OncePerWindow ==
  \A a, b \in sent :
    a # b /\ a.n.uid = b.n.uid /\ KeyOf[a.n.of] = KeyOf[b.n.of] =>
      a.at - b.at >= Window \/ b.at - a.at >= Window

(* A pair is skipped as seen only for a reason: the mark of it is that of  *)
(* a notification of the same key that was sent, is about to be sent, or   *)
(* was lost to a full channel or to the cancelled context.                 *)
SeenExplained ==
  \A k \in dedupeKey : seenPairs[k] # Never =>
    LET Explains(m) == <<KeyOf[m.n.of], m.n.uid>> = k /\ m.at = seenPairs[k]
    IN  \/ \E m \in sent \union lost : Explains(m)
        \/ \E g \in Goroutines : todo[g] # None /\ todo[g].sending # None /\ Explains(Marked(g))

(* Why an observation x may never be correlated with constraint u: the     *)
(* rate limiter refused it, the channel was full, or the correlator was    *)
(* told to stop.                                                           *)
Excused(x, u) ==
  x \in refused \/ cancelled \/ \E m \in lost : KeyOf[m.n.of] = KeyOf[x] /\ m.n.uid = u

(* Only the flow goroutine may send on a channel that Start has closed,    *)
(* and the process ends there: the goroutine that closes the channels      *)
(* never sends to them afterwards.                                         *)
PanicsInFlow ==
  panicked => todo["watch"] = None /\ todo["flow"] # None /\ todo["flow"].sending # None

(* After the context is cancelled Start returns and the flow goroutine     *)
(* ends, unless that goroutine was about to send when Start closed the     *)
(* channels: then its send ends the process.                               *)
StartReturns ==
  /\ cancelled ~> closed /\ (flowExited \/ panicked)
  /\ []PanicsInFlow

=============================================================================
