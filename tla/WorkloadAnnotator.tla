------------------------- MODULE WorkloadAnnotator -------------------------
(***************************************************************************)
(* The workload annotator (internal/notifier/workload_annotator.go).       *)
(*                                                                         *)
(* Writers are the informer goroutines whose index changes call            *)
(* OnIndexChange; workers drain the bounded channel "pending".  An update  *)
(* in the channel is for the whole cluster, for a namespace or for one     *)
(* workload, and a worker resolves the first two into further updates that *)
(* it sends to the same channel.  No send blocks: an update that finds the *)
(* channel full is dropped.  A cancelled context makes Start close the     *)
(* channel and wait for the workers; a send to the closed channel is a     *)
(* panic, which ends the process.                                          *)
(*                                                                         *)
(* What ByNamespace returns for a namespace is a version number; the       *)
(* annotations of a workload are the version they were built from.  It     *)
(* moves wherever the changed constraint applies, or did before, which is  *)
(* not always where the callback queues an update.  The debounce clock of  *)
(* a workload and the age of a cached list are flags that a later step     *)
(* clears.                                                                 *)
(***************************************************************************)
EXTENDS Integers, Sequences, FiniteSets

CONSTANTS
  Namespaces, Workloads,
  nsOf,          \* the namespace of each workload
  Writers,       \* goroutines that change the index
  Workers,       \* WorkloadAnnotatorOptions.Workers
  Capacity,      \* capacity of the channel pending (1000 in the code)
  MaxChanges,    \* bound on changes of the index
  MaxFailures,   \* bound on API calls that fail
  Sentinel,   \* clusterWideSentinel
  None

(* workloadKey: the sentinel, a namespace, or a workload.                  *)
workloadKey == {Sentinel} \union Namespaces \union Workloads

(* What a worker has read for a workload, and whether it has written it.   *)
Snapshot == [workload : Workloads, version : 0..MaxChanges, patched : BOOLEAN]

(* Constraint.Namespace, None when it is "", and AffectedNamespaces.       *)
Scope == [namespace : Namespaces \union {None}, affected : SUBSET Namespaces]

(* The three kinds of update, and an update and what it is turned into,    *)
(* can be told apart; goroutines are informers or workers, not both.       *)
ASSUME ConstantsAssumption ==
  /\ nsOf \in [Workloads -> Namespaces]
  /\ Capacity \in Nat \ {0} /\ MaxChanges \in Nat /\ MaxFailures \in Nat
  /\ Sentinel \notin Namespaces \union Workloads /\ Namespaces \intersect Workloads = {}
  /\ workloadKey \intersect Snapshot = {} /\ None \notin workloadKey \union Snapshot
  /\ Writers \intersect Workers = {} /\ IsFiniteSet(Workers)

VARIABLES
  version,     \* per namespace: what the index holds for it
  pending,     \* the channel
  outbox,      \* per goroutine: updates it is about to send
  work,        \* per worker: the update it processes, or what it is about to patch
  lastPatch,   \* per workload: how many PATCHes since the debounce duration was last over
  nsCache,     \* per namespace: the cached workload list, None when absent or old
  annotation,  \* cluster: version the annotations of a workload show
  life,        \* Start: "running", "cancelled", "closed" or "returned"; or "panicked"
  gone,        \* workers that have returned
  missed,      \* history: workloads whose last change was not queued, was dropped or overtaken
  changes, failures

stop == <<life, gone>>
vars == <<version, pending, outbox, work, lastPatch, nsCache, annotation, stop, missed, changes, failures>>

TypeOK ==
  /\ version \in [Namespaces -> 0..MaxChanges]
  /\ pending \in Seq(workloadKey) /\ Len(pending) <= Capacity
  /\ outbox \in [Writers \union Workers -> SUBSET workloadKey]
  /\ work \in [Workers -> workloadKey \union Snapshot \union {None}]
  /\ lastPatch \in [Workloads -> Nat] /\ missed \subseteq Workloads
  /\ nsCache \in [Namespaces -> (SUBSET Workloads) \union {None}]
  /\ annotation \in [Workloads -> 0..MaxChanges]
  /\ life \in {"running", "cancelled", "closed", "returned", "panicked"} /\ gone \subseteq Workers
  /\ changes \in 0..MaxChanges /\ failures \in 0..MaxFailures

Init ==
  /\ version = [n \in Namespaces |-> 0]
  /\ pending = <<>>
  /\ outbox = [a \in Writers \union Workers |-> {}]
  /\ work = [k \in Workers |-> None]
  /\ lastPatch = [x \in Workloads |-> 0] /\ missed = {}
  /\ nsCache = [n \in Namespaces |-> None]
  /\ annotation = [x \in Workloads |-> 0]
  /\ life = "running" /\ gone = {}
  /\ changes = 0 /\ failures = 0

(* Patched less than the debounce duration ago.                            *)
recent == {x \in Workloads : lastPatch[x] > 0}

In(n) == {x \in Workloads : nsOf[x] = n}

(* A panic ends the process.                                               *)
Up == life # "panicked"

(* An API call fails, as it may at any time and does when the context is   *)
(* cancelled before it was answered.                                       *)
CallFails ==
  IF life = "running" THEN failures < MaxFailures /\ failures' = failures + 1 ELSE UNCHANGED failures

(* The workloads an update is for.                                         *)
Covers(key) ==
  CASE key = Sentinel -> Workloads
    [] key \in Namespaces -> In(key)
    [] key \in Workloads -> {key}

-----------------------------------------------------------------------------
(* matchesNamespace: the namespaces a constraint of this scope applies to. *)
Matched(scope) == IF scope.namespace = None THEN Namespaces ELSE {scope.namespace} \union scope.affected

(* OnIndexChange: one update per namespace the constraint names, or one    *)
(* for the whole cluster when it names none.                               *)
Named(scope) == scope.affected \union ({scope.namespace} \ {None})
Queued_NamespacesOnly(scope) == Named(scope)
Queued(scope) == IF Named(scope) = {} THEN {Sentinel} ELSE Named(scope)

(* The index changes and calls the callback with the new constraint, or    *)
(* with the one that went.  Where it applied until then is before, and     *)
(* where it applies without being named nothing is queued.                 *)
OnIndexChange(w, scope, before) ==
  /\ Up /\ changes < MaxChanges /\ outbox[w] = {}
  /\ changes' = changes + 1
  /\ LET touched == before \union Matched(scope)
     IN  /\ version' = [n \in Namespaces |-> IF n \in touched THEN version[n] + 1 ELSE version[n]]
         /\ missed' = IF Named(scope) = {} THEN missed
                      ELSE missed \union {x \in Workloads : nsOf[x] \in touched \ Named(scope)}
  /\ outbox' = [outbox EXCEPT ![w] = Queued(scope)]
  /\ UNCHANGED <<pending, work, lastPatch, nsCache, annotation, stop, failures>>

(* queueNamespaceUpdate, queueClusterWideUpdate and QueueWorkloadUpdate:   *)
(* an update of a workload that was just patched is dropped, and so is any *)
(* update that finds the channel full.  Once the channel is closed what    *)
(* would have been offered to it is a panic.                               *)
Accepts(key) == key \notin recent /\ Len(pending) < Capacity

Send_Blocks(a, key) ==
  /\ key \in outbox[a]
  /\ Accepts(key)
  /\ outbox' = [outbox EXCEPT ![a] = @ \ {key}]
  /\ pending' = Append(pending, key)
  /\ UNCHANGED <<version, work, lastPatch, nsCache, annotation, stop, missed, changes, failures>>

Send(a, key) ==
  /\ Up /\ key \in outbox[a]
  /\ outbox' = [outbox EXCEPT ![a] = @ \ {key}]
  /\ IF life \in {"closed", "returned"} /\ key \notin recent
     THEN life' = "panicked" /\ missed' = missed \union Covers(key) /\ UNCHANGED pending
     ELSE /\ UNCHANGED life
          /\ IF Accepts(key)
             THEN pending' = Append(pending, key) /\ UNCHANGED missed
             ELSE missed' = missed \union Covers(key) /\ UNCHANGED pending
  /\ UNCHANGED <<version, work, lastPatch, nsCache, annotation, gone, changes, failures>>

-----------------------------------------------------------------------------
(* processUpdate.                                                          *)

Take(k) ==
  /\ work[k] = None /\ outbox[k] = {} /\ pending # <<>>
  /\ work' = [work EXCEPT ![k] = Head(pending)]
  /\ pending' = Tail(pending)
  /\ UNCHANGED <<version, outbox, lastPatch, nsCache, annotation, stop, missed, changes, failures>>

(* The sentinel: list all namespaces and queue an update for each.         *)
ResolveCluster(k) ==
  /\ work[k] = Sentinel
  /\ work' = [work EXCEPT ![k] = None]
  /\ \/ /\ outbox' = [outbox EXCEPT ![k] = Namespaces]
        /\ UNCHANGED <<missed, failures>>
     \/ /\ CallFails
        /\ missed' = Workloads
        /\ UNCHANGED outbox
  /\ UNCHANGED <<version, pending, lastPatch, nsCache, annotation, stop, changes>>

(* A namespace: its cached workload list, or a fresh one.  A list call     *)
(* that fails for one kind is skipped, and the partial list is cached.     *)
ResolveNamespace(k) ==
  /\ work[k] \in Namespaces
  /\ LET n == work[k]
         resolved(found) ==
           /\ outbox' = [outbox EXCEPT ![k] = found]
           /\ missed' = missed \union (In(n) \ found)
     IN  \/ /\ nsCache[n] # None
            /\ resolved(nsCache[n])
            /\ UNCHANGED <<nsCache, failures>>
         \/ /\ nsCache[n] = None
            /\ \E found \in SUBSET In(n) :
                 /\ IF found = In(n) THEN UNCHANGED failures
                    ELSE CallFails
                 /\ nsCache' = [nsCache EXCEPT ![n] = found]
                 /\ resolved(found)
  /\ work' = [work EXCEPT ![k] = None]
  /\ UNCHANGED <<version, pending, lastPatch, annotation, stop, changes>>

(* A workload: check the debounce again, then read the index.              *)
Debounced_Never(x) == FALSE
Debounced(x) == x \in recent

ReadConstraints(k) ==
  /\ work[k] \in Workloads
  /\ LET x == work[k]
     IN  IF Debounced(x)
         THEN /\ work' = [work EXCEPT ![k] = None]
              /\ missed' = missed \union {x}
         ELSE /\ work' = [work EXCEPT ![k] = [workload |-> x, version |-> version[nsOf[x]], patched |-> FALSE]]
              /\ missed' = missed \ {x}
  /\ UNCHANGED <<version, pending, outbox, lastPatch, nsCache, annotation, stop, changes, failures>>

Holds(k) == work[k] \in Snapshot

(* applyPatch.  A worker that read the index earlier may write later.      *)
Patch(k) ==
  /\ Holds(k) /\ ~work[k].patched
  /\ LET x == work[k].workload
     IN  /\ annotation' = [annotation EXCEPT ![x] = work[k].version]
         /\ missed' = IF work[k].version < annotation[x] THEN missed \union {x} ELSE missed
  /\ work' = [work EXCEPT ![k].patched = TRUE]
  /\ UNCHANGED <<version, pending, outbox, lastPatch, nsCache, stop, changes, failures>>

PatchFails(k) ==
  /\ Holds(k) /\ ~work[k].patched
  /\ CallFails
  /\ missed' = missed \union {work[k].workload}
  /\ work' = [work EXCEPT ![k] = None]
  /\ UNCHANGED <<version, pending, outbox, lastPatch, nsCache, annotation, stop, changes>>

(* The debounce of the workload starts once the PATCH was answered.        *)
RecordPatch(k) ==
  /\ Holds(k) /\ work[k].patched
  /\ lastPatch' = [lastPatch EXCEPT ![work[k].workload] = @ + 1]
  /\ work' = [work EXCEPT ![k] = None]
  /\ UNCHANGED <<version, pending, outbox, nsCache, annotation, stop, missed, changes, failures>>

-----------------------------------------------------------------------------
(* Start, when the context is cancelled.  A worker that is between two     *)
(* updates may see it or take another update; it leaves in any case when   *)
(* the channel is closed and empty.  The informers are stopped only when   *)
(* Start has returned.                                                     *)
Cancel ==
  /\ life = "running"
  /\ life' = "cancelled"
  /\ UNCHANGED <<version, pending, outbox, work, lastPatch, nsCache, annotation, gone, missed, changes, failures>>

ClosePending ==
  /\ life = "cancelled"
  /\ life' = "closed"
  /\ UNCHANGED <<version, pending, outbox, work, lastPatch, nsCache, annotation, gone, missed, changes, failures>>

Leave(k) ==
  /\ life # "running" /\ work[k] = None /\ outbox[k] = {}
  /\ gone' = gone \union {k}
  /\ UNCHANGED <<version, pending, outbox, work, lastPatch, nsCache, annotation, life, missed, changes, failures>>

(* wg.Wait.                                                                *)
Return_NoWait ==
  /\ life = "closed"
  /\ life' = "returned"
  /\ UNCHANGED <<version, pending, outbox, work, lastPatch, nsCache, annotation, gone, missed, changes, failures>>

Return ==
  /\ life = "closed" /\ gone = Workers
  /\ life' = "returned"
  /\ UNCHANGED <<version, pending, outbox, work, lastPatch, nsCache, annotation, gone, missed, changes, failures>>

Start == ClosePending \/ Return

-----------------------------------------------------------------------------
(* Time: the debounce duration of x, the life time of a cached list.       *)
DebounceOver(x) ==
  /\ Up /\ x \in recent
  /\ lastPatch' = [lastPatch EXCEPT ![x] = 0]
  /\ UNCHANGED <<version, pending, outbox, work, nsCache, annotation, stop, missed, changes, failures>>

CacheExpires(n) ==
  /\ Up /\ nsCache[n] # None
  /\ nsCache' = [nsCache EXCEPT ![n] = None]
  /\ UNCHANGED <<version, pending, outbox, work, lastPatch, annotation, stop, missed, changes, failures>>

Worker(k) ==
  /\ Up /\ k \notin gone
  /\ \/ Take(k) \/ ResolveCluster(k) \/ ResolveNamespace(k) \/ ReadConstraints(k) \/ Patch(k) \/ PatchFails(k)
     \/ RecordPatch(k) \/ Leave(k)

Sends(a) == \E key \in outbox[a] : Send(a, key)

Next ==
  \/ \E w \in Writers, scope \in Scope, before \in SUBSET Namespaces : OnIndexChange(w, scope, before)
  \/ \E a \in Writers \union Workers : Sends(a)
  \/ \E k \in Workers : Worker(k)
  \/ \E x \in Workloads : DebounceOver(x)
  \/ \E n \in Namespaces : CacheExpires(n)
  \/ Cancel \/ Start

Spec == Init /\ [][Next]_vars

(* The goroutines keep running and time passes.                            *)
Fairness ==
  /\ \A a \in Writers \union Workers : WF_vars(Sends(a))
  /\ \A k \in Workers : WF_vars(Worker(k))
  /\ \A x \in Workloads : WF_vars(DebounceOver(x))
  /\ WF_vars(Start)

-----------------------------------------------------------------------------
(* Properties.                                                             *)

UpdateUnderWay(x) ==
  \/ \E a \in Writers \union Workers : \E key \in outbox[a] : x \in Covers(key)
  \/ \E i \in DOMAIN pending : x \in Covers(pending[i])
  \/ \E k \in Workers : work[k] \in workloadKey /\ x \in Covers(work[k])

AboutToWrite(k, x) == Holds(k) /\ ~work[k].patched /\ work[k].workload = x

(* An annotation is only ever out of date because an update is under way,  *)
(* a worker is about to write what the index holds, or the last change was *)
(* missed: OnIndexChange did not name the namespace although the           *)
(* constraint applies to it, or did until then; or the update was dropped  *)
(* (debounced, full channel, failed call) or overtaken by the PATCH of a   *)
(* worker that had read the index before it.                               *)
StaleExplained ==
  \A x \in Workloads :
    LET current == version[nsOf[x]]
    IN  \/ annotation[x] = current
        \/ UpdateUnderWay(x) \/ x \in missed
        \/ \E k \in Workers : AboutToWrite(k, x) /\ work[k].version = current

(* The debounce duration is the "minimum time between PATCHes": workers    *)
(* that passed the check together may write within it, but never more than *)
(* one PATCH each.                                                         *)
PatchBurst ==
  \A x \in Workloads :
    lastPatch[x] + Cardinality({k \in Workers : Holds(k) /\ work[k].workload = x}) <= Cardinality(Workers)

(* The annotations of every workload become and stay what the index says,  *)
(* unless its last change was missed or Start was told to stop: the        *)
(* workers, which send to the channel they drain, do not come to a halt.   *)
AnnotationsConverge ==
  <>[](life # "running" \/ \A x \in Workloads : annotation[x] = version[nsOf[x]] \/ x \in missed)

(* Once Start has returned no worker is left that would still write an     *)
(* annotation.                                                             *)
NoLatePatch == [][life = "returned" => UNCHANGED annotation]_vars

(* Start, "Blocks until context is cancelled", returns then unless a send  *)
(* to the closed channel ends the process first, however many updates are  *)
(* queued or being resolved, and then nothing is written any more.         *)
ShutdownCompletes ==
  /\ life = "cancelled" ~> life \in {"returned", "panicked"}
  /\ NoLatePatch

=============================================================================
