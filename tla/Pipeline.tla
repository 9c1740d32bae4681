------------------------------ MODULE Pipeline ------------------------------
(***************************************************************************)
(* From a Warning event to the Events Nightjar creates: the correlator and *)
(* the dispatcher joined by the loop of cmd/controller/main.go, closed     *)
(* through the API server.  The Event that the dispatcher creates for a    *)
(* critical or warning constraint is a Warning event on the same workload, *)
(* so the correlator's watch delivers it and it is correlated in its turn. *)
(***************************************************************************)
EXTENDS Correlator

CONSTANTS
  External,         \* Warning events that others create
  Places,           \* namespace/name of a workload
  PlaceOf,          \* the workload of each event
  Loud,             \* constraints of severity critical or warning
  SuppressWindow,   \* SuppressDuplicateMinutes, in ticks
  MaxOwn,           \* bound on the Warning events Nightjar creates for a workload
  MaxThrottled      \* bound on the notifications the namespace's limiter refuses

(* The Warning events Nightjar creates, numbered per workload.             *)
Own == Places \X (1..MaxOwn)

ASSUME PipelineAssumption ==
  /\ Warnings = External \union Own /\ External \intersect Own = {}
  /\ PlaceOf \in [Warnings -> Places] /\ \A i \in Own : PlaceOf[i] = i[1]
  /\ Loud \subseteq Uids /\ IsFiniteSet(Loud)
  /\ SuppressWindow \in Nat \ {0} /\ MaxOwn \in Nat /\ MaxThrottled \in Nat

VARIABLES
  dedupeCache, pc, request, markedAt, events, failures,   \* the dispatcher
  throttled     \* history: notifications that the namespace's limiter refused

dispatch == <<dedupeCache, pc, request, markedAt, events, failures>>
allVars == <<vars, dispatch, throttled>>

(* The loop calls Dispatch from one goroutine.                             *)
Loop == "loop"
D == INSTANCE Dispatcher WITH Callers <- {Loop}, Window <- SuppressWindow

InitPipeline == Init /\ D!Init /\ throttled = {}

(* A step of the correlator alone; what it sends about flows is logged.    *)
CorrelatorStep ==
  /\ \/ \E e \in External : CreateWarning(e) \/ ModifyWarning(e)
     \/ \E f \in Flows : ObserveDrop(f)
     \/ WatchCloses \/ Cancel \/ WatchLoop \/ FlowLoop \/ Cleanup \/ Receive("flow")
  /\ UNCHANGED <<dispatch, throttled>>

Correlated(n) == [uid |-> n.uid, place |-> PlaceOf[n.of]]

(* The loop receives a notification and Dispatch starts, which returns at  *)
(* once when the namespace's limiter refuses it.                           *)
ReceiveNotification ==
  /\ channel["watch"] # <<>>
  /\ LET n == Correlated(Head(channel["watch"]))
     IN  \/ D!Accept(Loop, n) /\ UNCHANGED throttled
         \/ /\ pc[Loop] = "idle" /\ Cardinality(throttled) < MaxThrottled
            /\ throttled' = throttled \union {n} /\ UNCHANGED dispatch
  /\ Receive("watch")

DispatcherStep ==
  /\ ~panicked
  /\ D!MarkSeen(Loop) \/ D!Suppress(Loop) \/ D!CreateFails(Loop)
  /\ UNCHANGED <<vars, throttled>>

CleanupDispatcher == ~panicked /\ D!Cleanup /\ UNCHANGED <<vars, throttled>>

OwnOf(p) == {i \in existing \intersect Own : PlaceOf[i] = p}

eventType(u) == IF u \in Loud THEN "Warning" ELSE "Normal"

(* createEvent: a Warning event joins those the watch delivers.            *)
CreateEvent ==
  /\ ~panicked
  /\ D!CreateEvent(Loop)
  /\ LET p == request[Loop].place
     IN  IF eventType(request[Loop].uid) = "Warning"
         THEN /\ Cardinality(OwnOf(p)) < MaxOwn
              /\ CreateWarning(<<p, Cardinality(OwnOf(p)) + 1>>)
         ELSE UNCHANGED vars
  /\ UNCHANGED throttled

PipelineTick == D!Tick /\ Tick /\ UNCHANGED throttled

NextPipeline ==
  \/ CorrelatorStep \/ ReceiveNotification \/ DispatcherStep \/ CleanupDispatcher
  \/ CreateEvent \/ PipelineTick

SpecPipeline == InitPipeline /\ [][NextPipeline]_allVars

(* The goroutines run, a select does not neglect the cancelled context for *)
(* ever (it picks among the ready cases at random), a watch does not close *)
(* for ever before an event is taken, and the dispatcher's loop runs.      *)
Alone(A) == A /\ UNCHANGED <<dispatch, throttled>>
Fairness ==
  /\ WF_allVars(Alone(WatchLoop)) /\ WF_allVars(Alone(FlowLoop))
  /\ SF_allVars(Alone(StopWatch)) /\ SF_allVars(Alone(StopFlow))
  /\ \A e \in External : SF_allVars(Alone(TakeEvent(e)))
  /\ WF_allVars(Alone(Receive("flow"))) /\ WF_allVars(ReceiveNotification)
  /\ WF_allVars(DispatcherStep \/ CreateEvent)

-----------------------------------------------------------------------------
(* However often the pipeline is fed the Events it creates itself, it      *)
(* creates at most one Warning event per loud constraint and workload in   *)
(* every suppression window.                                               *)
EchoBounded ==
  \A p \in Places :
    Cardinality(OwnOf(p)) <= Cardinality(Loud) * (MaxTime \div SuppressWindow + 1)

(* Every Warning event of the cluster leads to an Event on its workload    *)
(* for every constraint that the index returns for its namespace, unless   *)
(* the correlator is excused, the namespace's limiter refused the          *)
(* notification or the API server the Event.                               *)
Announced ==
  \A e \in External : \A u \in Uids :
    (e \in existing /\ \E i \in DOMAIN Matches[e] : u \in Matches[e][i]) ~>
      LET n == [uid |-> u, place |-> PlaceOf[e]]
      IN  \/ \E f \in events : f.n = n
          \/ n \in throttled \/ \E t \in Time : <<D!Key(n), t>> \in failures
          \/ Excused(e, u)

=============================================================================
