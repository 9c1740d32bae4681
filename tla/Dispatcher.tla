----------------------------- MODULE Dispatcher -----------------------------
(***************************************************************************)
(* The notification dispatcher (internal/notifier/dispatcher.go): Dispatch *)
(* and DispatchDirect, called from any goroutine, suppress notifications   *)
(* of a constraint-workload pair announced within the suppression window   *)
(* and create a Kubernetes Event for the others.                           *)
(*                                                                         *)
(* A call is a caller's walk through three steps that other callers, the   *)
(* cleanup routine and the clock interleave with: the rate limit (Accept;  *)
(* its arithmetic is module NsRateLimiter, here it may let any call pass), *)
(* the check-and-mark under the mutex, and the create request to the API   *)
(* server, which may fail.                                                 *)
(*                                                                         *)
(* The namespace and name of a workload are one value, its place: this is  *)
(* what the code's key holds ("ns/name", no kind and no UID).              *)
(***************************************************************************)
EXTENDS Clock

CONSTANTS
  Callers,      \* goroutines that call Dispatch or DispatchDirect
  Uids,         \* constraint UIDs
  Places,       \* namespace/name of the involved workload
  Window,       \* SuppressDuplicateMinutes, in ticks
  Never         \* a key that is not in the dedupe cache

ASSUME DispatcherAssumption ==
  Window \in Nat \ {0} /\ MaxTime \in Nat /\ Never \notin Nat

dedupeKey == Uids \X Places

CorrelatedNotification == [uid : Uids, place : Places]

(* An Event of the cluster, with the caller that made it and the time of   *)
(* the check-and-mark that let it through.                                 *)
Event == [n : CorrelatedNotification, by : Callers, markedAt : Time]

VARIABLES
  dedupeCache,  \* when each pair was marked, or Never
  pc,           \* step of each caller: "idle", "dedupe" or "create"
  request,      \* the notification a caller works on
  markedAt,     \* when a caller in "create" marked its pair
  events,       \* the Events created in the cluster
  failures      \* history: pairs whose Event was refused, with the time of their mark

vars == <<now, dedupeCache, pc, request, markedAt, events, failures>>

TypeOK ==
  /\ now \in Time
  /\ dedupeCache \in [dedupeKey -> Time \union {Never}]
  /\ pc \in [Callers -> {"idle", "dedupe", "create"}]
  /\ request \in [Callers -> CorrelatedNotification]
  /\ markedAt \in [Callers -> Time]
  /\ events \subseteq Event
  /\ failures \subseteq dedupeKey \X Time

Init ==
  /\ now = 0
  /\ dedupeCache = [k \in dedupeKey |-> Never]
  /\ pc = [c \in Callers |-> "idle"]
  /\ \E n \in CorrelatedNotification : request = [c \in Callers |-> n]
  /\ markedAt = [c \in Callers |-> 0]
  /\ events = {} /\ failures = {}

Key(n) == <<n.uid, n.place>>

(* Dispatch or DispatchDirect is called and the namespace's rate limiter   *)
(* lets the call pass.  A refused call returns at once and changes nothing *)
(* here.                                                                   *)
Accept(c, n) ==
  /\ pc[c] = "idle"
  /\ pc' = [pc EXCEPT ![c] = "dedupe"]
  /\ request' = [request EXCEPT ![c] = n]
  /\ UNCHANGED <<now, dedupeCache, markedAt, events, failures>>

(* A check that gives up one tick before the window is over.               *)
RecentlySeen_Short(k) == dedupeCache[k] # Never /\ now - dedupeCache[k] < Window - 1

RecentlySeen(k) == dedupeCache[k] # Never /\ now - dedupeCache[k] < Window

(* tryMarkSeen returns true.                                               *)
MarkSeen(c) ==
  /\ pc[c] = "dedupe"
  /\ ~RecentlySeen(Key(request[c]))
  /\ dedupeCache' = [dedupeCache EXCEPT ![Key(request[c])] = now]
  /\ markedAt' = [markedAt EXCEPT ![c] = now]
  /\ pc' = [pc EXCEPT ![c] = "create"]
  /\ UNCHANGED <<now, request, events, failures>>

(* A check that marks the pair whatever it finds.                          *)
Suppress_Marks(c) ==
  /\ pc[c] = "dedupe"
  /\ RecentlySeen(Key(request[c]))
  /\ dedupeCache' = [dedupeCache EXCEPT ![Key(request[c])] = now]
  /\ pc' = [pc EXCEPT ![c] = "idle"]
  /\ UNCHANGED <<now, request, markedAt, events, failures>>

(* tryMarkSeen returns false: the notification is a duplicate.             *)
Suppress(c) ==
  /\ pc[c] = "dedupe"
  /\ RecentlySeen(Key(request[c]))
  /\ pc' = [pc EXCEPT ![c] = "idle"]
  /\ UNCHANGED <<now, dedupeCache, request, markedAt, events, failures>>

CreateEvent(c) ==
  /\ pc[c] = "create"
  /\ events' = events \union {[n |-> request[c], by |-> c, markedAt |-> markedAt[c]]}
  /\ pc' = [pc EXCEPT ![c] = "idle"]
  /\ UNCHANGED <<now, dedupeCache, request, markedAt, failures>>

(* The API server refuses the Event: Dispatch returns the error, its       *)
(* caller logs it, and the pair stays marked.                              *)
CreateFails(c) ==
  /\ pc[c] = "create"
  /\ failures' = failures \union {<<Key(request[c]), markedAt[c]>>}
  /\ pc' = [pc EXCEPT ![c] = "idle"]
  /\ UNCHANGED <<now, dedupeCache, request, markedAt, events>>

Expired(k) == dedupeCache[k] # Never /\ dedupeCache[k] < now - Window

(* The first half of a tick of cleanupDedupeCache (Notifier adds the       *)
(* second), whose ticker may fire at any time.                             *)
Cleanup ==
  /\ dedupeCache' = [k \in dedupeKey |-> IF Expired(k) THEN Never ELSE dedupeCache[k]]
  /\ UNCHANGED <<now, pc, request, markedAt, events, failures>>

Tick ==
  /\ Advance
  /\ UNCHANGED <<dedupeCache, pc, request, markedAt, events, failures>>

DispatchStep(c) == MarkSeen(c) \/ Suppress(c) \/ CreateEvent(c) \/ CreateFails(c)

Next ==
  \/ \E c \in Callers :
       DispatchStep(c) \/ \E n \in CorrelatedNotification : Accept(c, n)
  \/ Cleanup
  \/ Tick

Spec == Init /\ [][Next]_vars

-----------------------------------------------------------------------------
(* Two Events of one constraint-workload pair were let through at least a  *)
(* suppression window apart, whatever callers race in tryMarkSeen and      *)
(* whenever the cleanup routine removes entries.                           *)
OncePerWindow ==
  \A e, f \in events :
    e # f /\ Key(e.n) = Key(f.n) =>
      e.markedAt - f.markedAt >= Window \/ f.markedAt - e.markedAt >= Window

(* A pair is silenced for a reason: the mark in the dedupe cache is that   *)
(* of an Event in the cluster, of a call that is about to create one, or   *)
(* of one whose create request failed (after which Dispatch stays silent   *)
(* for the rest of the window without any Event).  Suppressed calls never  *)
(* extend the silence.                                                     *)
MarksExplained ==
  \A k \in dedupeKey : dedupeCache[k] # Never =>
    \/ \E e \in events : Key(e.n) = k /\ e.markedAt = dedupeCache[k]
    \/ \E c \in Callers : pc[c] = "create" /\ Key(request[c]) = k /\ markedAt[c] = dedupeCache[k]
    \/ <<k, dedupeCache[k]>> \in failures

=============================================================================
