-------------------------- MODULE AnnotatorProofs ---------------------------
(***************************************************************************)
(* The workload annotator, for any number of namespaces, workloads,        *)
(* informer goroutines and workers and any capacity of its channel: a      *)
(* stale annotation has its reason, workers do not patch a workload more   *)
(* often than there are workers within a debounce duration, and nothing is *)
(* written once Start has returned.                                        *)
(***************************************************************************)
EXTENDS WorkloadAnnotator, FiniteSetTheorems, TLAPS

(* What a worker has read of the index, and what it has written, is never  *)
(* newer than the index.                                                   *)
NotAhead ==
  /\ \A n \in Namespaces : version[n] <= changes
  /\ \A x \in Workloads : annotation[x] <= version[nsOf[x]]
  /\ \A k \in Workers : Holds(k) => work[k].version <= version[nsOf[work[k].workload]]

(* A worker sends what it resolved before it takes another update.         *)
SendsFirst == \A k \in Workers : work[k] # None => outbox[k] = {}

(* Start returns when all workers have.                                    *)
Waited == life = "returned" => gone = Workers

Explained(x) ==
  \/ annotation[x] = version[nsOf[x]]
  \/ UpdateUnderWay(x) \/ x \in missed
  \/ \E k \in Workers : AboutToWrite(k, x) /\ work[k].version = version[nsOf[x]]

(* Workers that have read the constraints of x and not yet recorded the    *)
(* PATCH they make of them.                                                *)
Holders(x) == {k \in Workers : Holds(k) /\ work[k].workload = x}
Burst == \A x \in Workloads : lastPatch[x] + Cardinality(Holders(x)) <= Cardinality(Workers)

WellFormed == TypeOK /\ NotAhead /\ SendsFirst /\ Waited
IInv == WellFormed /\ (\A x \in Workloads : Explained(x)) /\ Burst

LEMMA WorkersFinite ==
  IsFiniteSet(Workers) /\ Cardinality(Workers) \in Nat
<1>1. IsFiniteSet(Workers)
  BY ConstantsAssumption, Zenon
<1>2. QED
  BY <1>1, FS_CardinalityType, Zenon

LEMMA HoldersCounted ==
  ASSUME NEW x
  PROVE  /\ IsFiniteSet(Holders(x)) /\ Cardinality(Holders(x)) \in Nat
         /\ Cardinality(Holders(x)) <= Cardinality(Workers)
<1>1. Holders(x) \subseteq Workers
  BY Zenon DEF Holders
<1>2. QED
  BY <1>1, WorkersFinite, FS_Subset, FS_CardinalityType, Zenon

(* The workloads an update of each kind is for.                            *)
LEMMA CoversEach ==
  /\ Covers(Sentinel) = Workloads
  /\ \A n \in Namespaces : Covers(n) = {x \in Workloads : nsOf[x] = n}
  /\ \A x \in Workloads : Covers(x) = {x}
  /\ \A key \in workloadKey : Covers(key) \subseteq Workloads
<1>1. Covers(Sentinel) = Workloads
  BY ConstantsAssumption, Zenon DEF Covers
<1>2. ASSUME NEW n \in Namespaces PROVE Covers(n) = {x \in Workloads : nsOf[x] = n}
  BY ConstantsAssumption, Zenon DEF Covers, In
<1>3. ASSUME NEW x \in Workloads PROVE Covers(x) = {x}
  BY ConstantsAssumption, Zenon DEF Covers
<1>4. QED
  BY <1>1, <1>2, <1>3, Zenon DEF workloadKey

LEMMA WorkKinds ==
  ASSUME TypeOK, NEW k \in Workers
  PROVE  /\ work[k] \in workloadKey => ~Holds(k) /\ work[k] # None
         /\ work[k] = None => ~Holds(k) /\ work[k] \notin workloadKey
BY ConstantsAssumption, Zenon DEF TypeOK, Holds

LEMMA InitHolds ==
  ASSUME Init
  PROVE  IInv
<1>1. TypeOK
  BY ConstantsAssumption DEF Init, TypeOK
<1>2. \A k \in Workers : ~Holds(k)
  BY <1>1, WorkKinds, Zenon DEF Init
<1>3. NotAhead /\ SendsFirst /\ Waited
  BY <1>2, ConstantsAssumption DEF Init, NotAhead, SendsFirst, Waited
<1>4. \A x \in Workloads : Explained(x)
  BY ConstantsAssumption, Zenon DEF Init, Explained
<1>5. Burst
  <2>1. ASSUME NEW x \in Workloads PROVE lastPatch[x] + Cardinality(Holders(x)) <= Cardinality(Workers)
    BY WorkersFinite, HoldersCounted DEF Init
  <2>2. QED
    BY <2>1, Zenon DEF Burst
<1>6. QED
  BY <1>1, <1>3, <1>4, <1>5, Zenon DEF IInv, WellFormed

-----------------------------------------------------------------------------
(* Types, and what is not ahead of what.                                   *)

LEMMA QueuedKeys ==
  ASSUME NEW scope \in Scope
  PROVE  Named(scope) \subseteq Namespaces /\ Queued(scope) \subseteq workloadKey
<1>1. Named(scope) \subseteq Namespaces
  BY Zenon DEF Scope, Named
<1>2. QED
  BY <1>1, Zenon DEF Queued, workloadKey

LEMMA ChangeTyped ==
  ASSUME WellFormed, NEW w \in Writers, NEW scope \in Scope, NEW before \in SUBSET Namespaces,
         OnIndexChange(w, scope, before)
  PROVE  WellFormed'
<1> DEFINE keys == Queued(scope)
<1>1. version' \in [Namespaces -> 0..MaxChanges] /\ changes' \in 0..MaxChanges
      /\ (\A n \in Namespaces : version[n] <= version'[n] /\ version'[n] <= changes')
  <2> DEFINE touched == before \union Matched(scope)
  <2>1. version' = [n \in Namespaces |-> IF n \in touched THEN version[n] + 1 ELSE version[n]]
        /\ changes' = changes + 1 /\ changes < MaxChanges
    BY Zenon DEF OnIndexChange
  <2> HIDE DEF touched
  <2>2. QED
    BY <2>1, ConstantsAssumption DEF WellFormed, TypeOK, NotAhead
<1>2. keys \subseteq workloadKey
  BY QueuedKeys, Zenon
<1>3. UNCHANGED <<pending, work, lastPatch, nsCache, annotation, life, gone, failures>>
      /\ outbox' = [outbox EXCEPT ![w] = keys] /\ missed' \subseteq Workloads
  BY Zenon DEF OnIndexChange, stop, WellFormed, TypeOK
<1> HIDE DEF keys
<1>4. TypeOK'
  BY <1>1, <1>2, <1>3, Zenon DEF WellFormed, TypeOK
<1>5. NotAhead'
  <2>1. ASSUME NEW x \in Workloads PROVE annotation[x] <= version'[nsOf[x]]
    BY <1>1, ConstantsAssumption DEF WellFormed, TypeOK, NotAhead
  <2>2. ASSUME NEW k \in Workers, Holds(k) PROVE work[k].version <= version'[nsOf[work[k].workload]]
    <3>1. work[k].workload \in Workloads /\ work[k].version \in 0..MaxChanges
      BY <2>2, Zenon DEF Holds, Snapshot
    <3>2. nsOf[work[k].workload] \in Namespaces
      BY <3>1, ConstantsAssumption, Zenon
    <3>3. QED
      BY <1>1, <2>2, <3>1, <3>2, ConstantsAssumption DEF WellFormed, TypeOK, NotAhead
  <2>3. QED
    BY <1>1, <1>3, <2>1, <2>2, Zenon DEF NotAhead, Holds
<1>6. SendsFirst' /\ Waited'
  BY <1>3, ConstantsAssumption, Zenon DEF WellFormed, TypeOK, SendsFirst, Waited
<1>7. QED
  BY <1>4, <1>5, <1>6, Zenon DEF WellFormed

LEMMA SendTyped ==
  ASSUME WellFormed, NEW a \in Writers \union Workers,
         NEW key \in outbox[a], Send(a, key)
  PROVE  WellFormed'
<1>1. key \in workloadKey
  BY Zenon DEF WellFormed, TypeOK
<1>2. UNCHANGED <<version, work, lastPatch, nsCache, annotation, gone, changes, failures>>
      /\ outbox' = [outbox EXCEPT ![a] = @ \ {key}]
  BY Zenon DEF Send
<1>3. missed' \subseteq Workloads
  BY <1>1, CoversEach, Zenon DEF WellFormed, TypeOK, Send
<1>4. pending' \in Seq(workloadKey) /\ Len(pending') <= Capacity
  <2>1. CASE pending' = pending
    BY <2>1, Zenon DEF WellFormed, TypeOK
  <2>2. CASE pending' = Append(pending, key) /\ Len(pending) < Capacity
    <3>1. Len(pending') = Len(pending) + 1 /\ pending' \in Seq(workloadKey) /\ Len(pending) \in Nat
      BY <1>1, <2>2 DEF WellFormed, TypeOK
    <3>2. QED
      BY <2>2, <3>1, ConstantsAssumption
  <2>3. QED
    BY <2>1, <2>2, Zenon DEF Send, Accepts
<1>5. life' \in {"running", "cancelled", "closed", "returned", "panicked"} /\ Waited'
  BY <1>2, Zenon DEF WellFormed, TypeOK, Send, Waited
<1>6. TypeOK'
  BY <1>1, <1>2, <1>3, <1>4, <1>5, Zenon DEF WellFormed, TypeOK
<1>7. NotAhead' /\ SendsFirst'
  BY <1>2, Zenon DEF WellFormed, TypeOK, NotAhead, SendsFirst, Holds
<1>8. QED
  BY <1>5, <1>6, <1>7, Zenon DEF WellFormed

(* Where a worker goes from one update to the next.                        *)
LEMMA WorkTyped ==
  ASSUME WellFormed, NEW k \in Workers,
         NEW new \in workloadKey \union Snapshot \union {None},
         work' = [work EXCEPT ![k] = new],
         new \in Snapshot => new.version <= version[nsOf[new.workload]],
         new # None => outbox'[k] = {},
         outbox' \in [Writers \union Workers -> SUBSET workloadKey],
         \A j \in Workers : j # k => outbox'[j] = outbox[j],
         pending' \in Seq(workloadKey), Len(pending') <= Len(pending),
         missed' \subseteq Workloads,
         nsCache' \in [Namespaces -> (SUBSET Workloads) \union {None}],
         failures' \in 0..MaxFailures,
         UNCHANGED <<version, lastPatch, annotation, life, gone, changes>>
  PROVE  WellFormed'
<1>1. Len(pending') <= Capacity
  <2>1. Len(pending) \in Nat /\ Len(pending') \in Nat /\ Len(pending) <= Capacity
    BY DEF WellFormed, TypeOK
  <2>2. QED
    BY <2>1, ConstantsAssumption
<1>2. TypeOK'
  BY <1>1, Zenon DEF WellFormed, TypeOK
<1>3. work'[k] = new /\ \A j \in Workers : j # k => work'[j] = work[j]
  BY Zenon DEF WellFormed, TypeOK
<1>4. NotAhead'
  BY <1>3 DEF WellFormed, NotAhead, Holds
<1>5. SendsFirst' /\ Waited'
  BY <1>3, Zenon DEF WellFormed, SendsFirst, Waited
<1>6. QED
  BY <1>2, <1>4, <1>5, Zenon DEF WellFormed

LEMMA CallFailsTyped ==
  ASSUME WellFormed, CallFails
  PROVE  failures' \in 0..MaxFailures
BY ConstantsAssumption DEF WellFormed, TypeOK, CallFails

LEMMA TakeTyped ==
  ASSUME WellFormed, NEW k \in Workers, Take(k)
  PROVE  /\ WellFormed' /\ Head(pending) \in workloadKey
<1>1. /\ Head(pending) \in workloadKey /\ Tail(pending) \in Seq(workloadKey)
      /\ Len(Tail(pending)) <= Len(pending)
  BY DEF WellFormed, TypeOK, Take
<1>2. Head(pending) \notin Snapshot
  BY <1>1, ConstantsAssumption, Zenon
<1>3. QED
  BY <1>1, <1>2, WorkTyped, Zenon DEF WellFormed, TypeOK, Take, stop

LEMMA ResolveTyped ==
  ASSUME WellFormed, NEW k \in Workers,
         ResolveCluster(k) \/ ResolveNamespace(k)
  PROVE  WellFormed'
<1>1. failures' \in 0..MaxFailures
  BY CallFailsTyped, Zenon DEF WellFormed, TypeOK, ResolveCluster, ResolveNamespace
<1>2. missed' \subseteq Workloads /\ nsCache' \in [Namespaces -> (SUBSET Workloads) \union {None}]
      /\ \E keys \in SUBSET workloadKey : outbox' = [outbox EXCEPT ![k] = keys]
  <2>1. CASE ResolveCluster(k)
    <3>1. outbox = [outbox EXCEPT ![k] = outbox[k]] /\ outbox[k] \in SUBSET workloadKey
      BY Zenon DEF WellFormed, TypeOK
    <3>2. Namespaces \in SUBSET workloadKey
      BY Zenon DEF workloadKey
    <3>3. QED
      BY <2>1, <3>1, <3>2, Zenon DEF WellFormed, TypeOK, ResolveCluster
  <2>2. CASE ResolveNamespace(k)
    <3>1. PICK found \in SUBSET Workloads :
            /\ outbox' = [outbox EXCEPT ![k] = found] /\ missed' = missed \union (In(work[k]) \ found)
            /\ nsCache' = nsCache \/ nsCache' = [nsCache EXCEPT ![work[k]] = found]
      BY <2>2, Zenon DEF WellFormed, TypeOK, ResolveNamespace, In
    <3>2. found \in SUBSET workloadKey
      BY Zenon DEF workloadKey
    <3>3. QED
      BY <3>1, <3>2, Zenon DEF WellFormed, TypeOK, In
  <2>3. QED
    BY <2>1, <2>2, Zenon
<1>3. outbox' \in [Writers \union Workers -> SUBSET workloadKey]
      /\ \A j \in Workers : j # k => outbox'[j] = outbox[j]
  BY <1>2, Zenon DEF WellFormed, TypeOK
<1>4. work' = [work EXCEPT ![k] = None]
      /\ UNCHANGED <<version, pending, lastPatch, annotation, life, gone, changes>>
  BY Zenon DEF ResolveCluster, ResolveNamespace, stop
<1>5. None \notin Snapshot /\ pending' \in Seq(workloadKey) /\ Len(pending') <= Len(pending)
  BY <1>4, ConstantsAssumption DEF WellFormed, TypeOK
<1>6. QED
  BY <1>1, <1>2, <1>3, <1>4, <1>5, WorkTyped, Zenon

LEMMA ReadTyped ==
  ASSUME WellFormed, NEW k \in Workers, ReadConstraints(k)
  PROVE  WellFormed'
<1> DEFINE x == work[k]
           snap == [workload |-> x, version |-> version[nsOf[x]], patched |-> FALSE]
<1>1. x \in Workloads /\ x # None /\ None \notin Snapshot
  BY WorkKinds, ConstantsAssumption, Zenon DEF WellFormed, ReadConstraints, workloadKey
<1>2. snap \in Snapshot
  BY <1>1, ConstantsAssumption, Zenon DEF WellFormed, TypeOK, Snapshot
<1>3. UNCHANGED <<version, pending, outbox, lastPatch, nsCache, annotation, life, gone, changes, failures>>
      /\ missed' \subseteq Workloads /\ outbox[k] = {}
  BY <1>1, Zenon DEF WellFormed, TypeOK, SendsFirst, ReadConstraints, stop
<1>4. PICK new \in {None, snap} : work' = [work EXCEPT ![k] = new]
  BY Zenon DEF ReadConstraints
<1>5. snap.version <= version[nsOf[snap.workload]]
  BY <1>1, ConstantsAssumption DEF WellFormed, TypeOK
<1>6. /\ new \in workloadKey \union Snapshot \union {None}
      /\ new \in Snapshot => new.version <= version[nsOf[new.workload]]
  BY <1>1, <1>2, <1>4, <1>5, Zenon
<1>7. /\ pending' \in Seq(workloadKey) /\ Len(pending') <= Len(pending)
      /\ outbox' \in [Writers \union Workers -> SUBSET workloadKey]
      /\ nsCache' \in [Namespaces -> (SUBSET Workloads) \union {None}] /\ failures' \in 0..MaxFailures
  BY <1>3 DEF WellFormed, TypeOK
<1> HIDE DEF snap, x
<1>8. QED
  BY <1>3, <1>4, <1>6, <1>7, WorkTyped, Zenon

LEMMA HeldTyped ==
  ASSUME TypeOK, NEW k \in Workers, Holds(k)
  PROVE  work[k] \in Snapshot /\ work[k].workload \in Workloads /\ work[k].version \in 0..MaxChanges
BY Zenon DEF Holds, Snapshot

LEMMA SnapshotPatched ==
  ASSUME NEW read \in Snapshot, NEW new, new = [read EXCEPT !.patched = TRUE]
  PROVE  new \in Snapshot /\ new.patched /\ new.workload = read.workload /\ new.version = read.version
BY Zenon DEF Snapshot

(* A worker that has made its PATCH still holds what it read.              *)
LEMMA PatchHolds ==
  ASSUME TypeOK, NEW k \in Workers, Patch(k)
  PROVE  /\ Holds(k) /\ Holds(k)' /\ ~work[k].patched /\ work'[k].patched
         /\ work'[k].workload = work[k].workload /\ work'[k].version = work[k].version
         /\ work' = [work EXCEPT ![k] = work'[k]]
         /\ \A j \in Workers : j # k => work'[j] = work[j]
<1>1. Holds(k) /\ ~work[k].patched /\ work' = [work EXCEPT ![k].patched = TRUE]
  BY Zenon DEF Patch
<1>2. work'[k] = [work[k] EXCEPT !.patched = TRUE] /\ work' = [work EXCEPT ![k] = work'[k]]
      /\ \A j \in Workers : j # k => work'[j] = work[j]
  BY <1>1, Zenon DEF TypeOK
<1>3. work'[k] \in Snapshot /\ work'[k].patched
      /\ work'[k].workload = work[k].workload /\ work'[k].version = work[k].version
  BY <1>1, <1>2, SnapshotPatched, Zenon DEF Holds
<1>4. QED
  BY <1>1, <1>2, <1>3, Zenon DEF Holds

LEMMA PatchTyped ==
  ASSUME WellFormed, NEW k \in Workers, Patch(k)
  PROVE  WellFormed'
<1> DEFINE x == work[k].workload
<1>1. x \in Workloads /\ work[k].version \in 0..MaxChanges /\ Holds(k)
  BY HeldTyped, Zenon DEF WellFormed, Patch
<1>2. annotation' = [annotation EXCEPT ![x] = work[k].version]
      /\ UNCHANGED <<version, pending, outbox, lastPatch, nsCache, life, gone, changes, failures>>
  BY Zenon DEF Patch, stop
<1>3. missed' \subseteq Workloads
  BY <1>1, Zenon DEF WellFormed, TypeOK, Patch
<1>4. TypeOK'
  <2>1. work' \in [Workers -> workloadKey \union Snapshot \union {None}]
    BY PatchHolds, Zenon DEF WellFormed, TypeOK, Holds
  <2>2. QED
    BY <1>1, <1>2, <1>3, <2>1, Zenon DEF WellFormed, TypeOK
<1>5. NotAhead'
  <2>1. work[k].version <= version[nsOf[x]]
    BY <1>1, Zenon DEF WellFormed, NotAhead
  <2>2. \A y \in Workloads : annotation'[y] <= version[nsOf[y]]
    BY <1>1, <1>2, <2>1, Zenon DEF WellFormed, TypeOK, NotAhead
  <2>3. \A j \in Workers : Holds(j)' => Holds(j) /\ work'[j].version = work[j].version
                                      /\ work'[j].workload = work[j].workload
    BY PatchHolds, Zenon DEF WellFormed, Holds
  <2>4. QED
    BY <1>2, <2>2, <2>3, Zenon DEF WellFormed, NotAhead
<1>6. SendsFirst' /\ Waited'
  <2>1. work[k] # None
    BY <1>1, WorkKinds, Zenon DEF WellFormed
  <2>2. QED
    BY <1>2, <2>1, PatchHolds, Zenon DEF WellFormed, SendsFirst, Waited
<1>7. QED
  BY <1>4, <1>5, <1>6, Zenon DEF WellFormed

LEMMA RecordTyped ==
  ASSUME WellFormed, NEW k \in Workers, RecordPatch(k)
  PROVE  WellFormed'
<1>1. work[k].workload \in Workloads /\ None \notin Snapshot
  BY HeldTyped, ConstantsAssumption, Zenon DEF WellFormed, RecordPatch
<1>2. work' = [work EXCEPT ![k] = None] /\ lastPatch' = [lastPatch EXCEPT ![work[k].workload] = @ + 1]
      /\ UNCHANGED <<version, pending, outbox, nsCache, annotation, life, gone, missed, changes, failures>>
  BY Zenon DEF RecordPatch, stop
<1>3. lastPatch' \in [Workloads -> Nat]
  BY <1>1, <1>2 DEF WellFormed, TypeOK
<1>4. TypeOK'
  BY <1>2, <1>3, Zenon DEF WellFormed, TypeOK
<1>5. \A j \in Workers : (work'[j] = work[j] \/ work'[j] = None) /\ (Holds(j)' => work'[j] = work[j] /\ Holds(j))
  BY <1>1, <1>2, Zenon DEF WellFormed, TypeOK, Holds
<1>6. NotAhead' /\ SendsFirst' /\ Waited'
  BY <1>2, <1>5, Zenon DEF WellFormed, NotAhead, SendsFirst, Waited
<1>7. QED
  BY <1>4, <1>6, Zenon DEF WellFormed

LEMMA PatchFailsTyped ==
  ASSUME WellFormed, NEW k \in Workers, PatchFails(k)
  PROVE  WellFormed'
<1>1. failures' \in 0..MaxFailures
  BY CallFailsTyped, Zenon DEF PatchFails
<1>2. missed' \subseteq Workloads
  BY HeldTyped, Zenon DEF WellFormed, TypeOK, PatchFails
<1>3. work' = [work EXCEPT ![k] = None]
      /\ UNCHANGED <<version, pending, outbox, lastPatch, nsCache, annotation, life, gone, changes>>
  BY Zenon DEF PatchFails, stop
<1>4. /\ pending' \in Seq(workloadKey) /\ Len(pending') <= Len(pending)
      /\ outbox' \in [Writers \union Workers -> SUBSET workloadKey]
      /\ nsCache' \in [Namespaces -> (SUBSET Workloads) \union {None}] /\ None \notin Snapshot
  BY <1>3, ConstantsAssumption DEF WellFormed, TypeOK
<1>5. QED
  BY <1>1, <1>2, <1>3, <1>4, WorkTyped, Zenon

(* The life of Start and the passing of time.                              *)
LEMMA LifeTyped ==
  ASSUME WellFormed,
         \/ Cancel \/ Start \/ \E k \in Workers : Leave(k)
         \/ \E x \in Workloads : DebounceOver(x)
         \/ \E n \in Namespaces : CacheExpires(n)
  PROVE  WellFormed'
<1>1. UNCHANGED <<version, pending, outbox, work, annotation, missed, changes, failures>>
  BY Zenon DEF Cancel, Start, ClosePending, Return, Leave, DebounceOver, CacheExpires
<1>2. CASE Cancel \/ Start
  BY <1>2, Zenon DEF WellFormed, TypeOK, NotAhead, SendsFirst, Waited, Holds, Cancel, Start,
              ClosePending, Return
<1>3. ASSUME NEW k \in Workers, Leave(k) PROVE WellFormed'
  BY <1>3, Zenon DEF WellFormed, TypeOK, NotAhead, SendsFirst, Waited, Holds, Leave
<1>4. ASSUME NEW x \in Workloads, DebounceOver(x) PROVE WellFormed'
  <2>1. lastPatch' \in [Workloads -> Nat]
    BY <1>4, Zenon DEF WellFormed, TypeOK, DebounceOver
  <2>2. QED
    BY <1>1, <1>4, <2>1, Zenon DEF WellFormed, TypeOK, NotAhead, SendsFirst, Waited, Holds, DebounceOver,
                            stop
<1>5. ASSUME NEW n \in Namespaces, CacheExpires(n) PROVE WellFormed'
  <2>1. nsCache' \in [Namespaces -> (SUBSET Workloads) \union {None}]
    BY <1>5, Zenon DEF WellFormed, TypeOK, CacheExpires
  <2>2. QED
    BY <1>1, <1>5, <2>1 DEF WellFormed, TypeOK, NotAhead, SendsFirst, Waited, Holds, CacheExpires,
                            stop
<1>6. QED
  BY <1>2, <1>3, <1>4, <1>5, Zenon

-----------------------------------------------------------------------------
(* Every annotation that is out of date has its reason.                    *)

(* An update of a workload keeps its reason while it moves on.             *)
LEMMA ReasonKept ==
  ASSUME NEW x \in Workloads, Explained(x),
         annotation'[x] = annotation[x], version'[nsOf[x]] = version[nsOf[x]],
         UpdateUnderWay(x) => UpdateUnderWay(x)' \/ x \in missed',
         x \in missed => x \in missed',
         \A k \in Workers : Holds(k) => Holds(k)' /\ work'[k] = work[k]
  PROVE  Explained(x)'
BY Zenon DEF Explained, AboutToWrite

(* A change that touches the workload queues an update for it or is missed. *)
LEMMA ChangeExplained ==
  ASSUME WellFormed, NEW x \in Workloads, Explained(x), NEW w \in Writers,
         NEW scope \in Scope, NEW before \in SUBSET Namespaces, OnIndexChange(w, scope, before)
  PROVE  Explained(x)'
<1> DEFINE keys == Queued(scope)
           touched == before \union Matched(scope)
<1>1. outbox[w] = {} /\ outbox' = [outbox EXCEPT ![w] = keys]
      /\ UNCHANGED <<pending, work, annotation>> /\ missed \subseteq missed'
  BY Zenon DEF OnIndexChange
<1>2. outbox'[w] = keys /\ \A a \in Writers \union Workers : a # w => outbox'[a] = outbox[a]
  BY <1>1, Zenon DEF WellFormed, TypeOK
<1>3. nsOf[x] \in Namespaces
  BY ConstantsAssumption, Zenon
<1>4. CASE nsOf[x] \in keys \/ Sentinel \in keys
  <2>1. \E key \in keys : x \in Covers(key)
    BY <1>3, <1>4, CoversEach, Zenon
  <2>2. UpdateUnderWay(x)'
    BY <1>2, <2>1, Zenon DEF UpdateUnderWay
  <2>3. QED
    BY <2>2, Zenon DEF Explained
<1>5. CASE ~(nsOf[x] \in keys \/ Sentinel \in keys) /\ nsOf[x] \in touched
  <2>1. Named(scope) # {} /\ nsOf[x] \notin Named(scope)
    BY <1>5, Zenon DEF Queued
  <2>2. x \in missed'
    BY <1>5, <2>1, Zenon DEF OnIndexChange
  <2>3. QED
    BY <2>2, Zenon DEF Explained
<1>6. CASE nsOf[x] \notin touched
  <2>1. version'[nsOf[x]] = version[nsOf[x]]
    BY <1>3, <1>6, Zenon DEF OnIndexChange
  <2>2. UpdateUnderWay(x) => UpdateUnderWay(x)'
    BY <1>1, <1>2, Zenon DEF UpdateUnderWay
  <2>3. QED
    BY <1>1, <2>1, <2>2, ReasonKept, Zenon DEF Holds
<1>7. QED
  BY <1>4, <1>5, <1>6, Zenon

LEMMA SendExplained ==
  ASSUME WellFormed, NEW x \in Workloads, Explained(x),
         NEW a \in Writers \union Workers, NEW key \in outbox[a], Send(a, key)
  PROVE  Explained(x)'
<1>1. outbox' = [outbox EXCEPT ![a] = @ \ {key}] /\ UNCHANGED <<version, work, annotation>>
  BY Zenon DEF Send
<1>2. outbox'[a] = outbox[a] \ {key} /\ \A b \in Writers \union Workers : b # a => outbox'[b] = outbox[b]
  BY <1>1, Zenon DEF WellFormed, TypeOK
<1>3. \/ pending' = Append(pending, key) /\ missed' = missed
      \/ pending' = pending /\ missed' = missed \union Covers(key)
  BY Zenon DEF Send
<1>4. ASSUME UpdateUnderWay(x) PROVE UpdateUnderWay(x)' \/ x \in missed'
  <2>1. CASE \E i \in DOMAIN pending : x \in Covers(pending[i])
    <3>1. \A i \in DOMAIN pending : i \in DOMAIN pending' /\ pending'[i] = pending[i]
      <4>1. CASE pending' = Append(pending, key)
        BY <4>1 DEF WellFormed, TypeOK
      <4>2. QED
        BY <1>3, <4>1, Zenon
    <3>2. QED
      BY <2>1, <3>1, Zenon DEF UpdateUnderWay
  <2>2. CASE x \in Covers(key)
    <3>1. CASE pending' = Append(pending, key)
      <4>1. Len(pending) + 1 \in DOMAIN pending' /\ pending'[Len(pending) + 1] = key
        BY <3>1 DEF WellFormed, TypeOK
      <4>2. QED
        BY <2>2, <4>1, Zenon DEF UpdateUnderWay
    <3>2. QED
      BY <1>3, <2>2, <3>1, Zenon
  <2>3. CASE \E k \in Workers : work[k] \in workloadKey /\ x \in Covers(work[k])
    BY <1>1, <2>3, Zenon DEF UpdateUnderWay
  <2>4. ASSUME NEW b \in Writers \union Workers, NEW other \in outbox[b], x \in Covers(other),
               ~(b = a /\ other = key)
        PROVE  UpdateUnderWay(x)'
    <3>1. other \in outbox'[b]
      BY <1>2, <2>4, Zenon
    <3>2. QED
      BY <2>4, <3>1, Zenon DEF UpdateUnderWay
  <2>5. QED
    BY <1>4, <2>1, <2>2, <2>3, <2>4, Zenon DEF UpdateUnderWay
<1>5. QED
  BY <1>1, <1>3, <1>4, ReasonKept, Zenon DEF Holds

LEMMA TakeExplained ==
  ASSUME WellFormed, NEW x \in Workloads, Explained(x),
         NEW k \in Workers, Take(k)
  PROVE  Explained(x)'
<1>1. /\ work[k] = None /\ work'[k] = Head(pending) /\ pending' = Tail(pending) /\ pending # <<>>
      /\ \A j \in Workers : j # k => work'[j] = work[j]
      /\ UNCHANGED <<version, outbox, annotation, missed>>
  BY Zenon DEF WellFormed, TypeOK, Take
<1>2. Head(pending) \in workloadKey
  BY TakeTyped, Zenon
<1>3. ~Holds(k) /\ work[k] \notin workloadKey
  BY <1>1, WorkKinds, Zenon DEF WellFormed
<1>4. ASSUME NEW i \in DOMAIN pending, x \in Covers(pending[i]) PROVE UpdateUnderWay(x)'
  <2>1. CASE i = 1
    BY <1>1, <1>2, <1>4, <2>1 DEF WellFormed, TypeOK, UpdateUnderWay
  <2>2. CASE i # 1
    <3>1. i - 1 \in DOMAIN pending' /\ pending'[i - 1] = pending[i]
      BY <1>1, <2>2 DEF WellFormed, TypeOK
    <3>2. QED
      BY <1>4, <3>1, Zenon DEF UpdateUnderWay
  <2>3. QED
    BY <2>1, <2>2, Zenon
<1>5. UpdateUnderWay(x) => UpdateUnderWay(x)'
  BY <1>1, <1>3, <1>4, Zenon DEF UpdateUnderWay
<1>6. \A j \in Workers : Holds(j) => Holds(j)' /\ work'[j] = work[j]
  BY <1>1, <1>3, Zenon DEF Holds
<1>7. QED
  BY <1>1, <1>5, <1>6, ReasonKept, Zenon

(* An update of the cluster becomes one for each namespace, and one of a   *)
(* namespace one for each workload that was found there.                   *)
LEMMA ResolveExplained ==
  ASSUME WellFormed, NEW x \in Workloads, Explained(x),
         NEW k \in Workers, ResolveCluster(k) \/ ResolveNamespace(k)
  PROVE  Explained(x)'
<1>1. /\ work' = [work EXCEPT ![k] = None] /\ UNCHANGED <<version, pending, annotation>>
      /\ work[k] \in workloadKey
  BY Zenon DEF ResolveCluster, ResolveNamespace, workloadKey
<1>2. work'[k] = None /\ \A j \in Workers : j # k => work'[j] = work[j]
  BY <1>1, Zenon DEF WellFormed, TypeOK
<1>3. ~Holds(k) /\ outbox[k] = {}
  BY <1>1, WorkKinds, Zenon DEF WellFormed, SendsFirst
<1>4. \A a \in Writers \union Workers : a # k => outbox'[a] = outbox[a]
  BY Zenon DEF WellFormed, TypeOK, ResolveCluster, ResolveNamespace
<1>5. x \in missed => x \in missed'
  BY Zenon DEF ResolveCluster, ResolveNamespace
<1>6. ASSUME x \in Covers(work[k]) PROVE UpdateUnderWay(x)' \/ x \in missed'
  <2>1. CASE ResolveCluster(k)
    <3>1. nsOf[x] \in Namespaces /\ x \in Covers(nsOf[x])
      BY CoversEach, ConstantsAssumption
    <3>2. CASE outbox' = [outbox EXCEPT ![k] = Namespaces]
      <4>1. nsOf[x] \in outbox'[k]
        BY <3>1, <3>2, Zenon DEF WellFormed, TypeOK
      <4>2. QED
        BY <3>1, <4>1, Zenon DEF UpdateUnderWay
    <3>3. QED
      BY <2>1, <3>2, Zenon DEF ResolveCluster
  <2>2. CASE ResolveNamespace(k)
    <3>1. x \in In(work[k]) /\ x \in Covers(x)
      BY <1>6, <2>2, CoversEach, Zenon DEF ResolveNamespace, In
    <3>2. PICK found \in SUBSET Workloads :
            outbox' = [outbox EXCEPT ![k] = found] /\ missed' = missed \union (In(work[k]) \ found)
      BY <2>2, Zenon DEF WellFormed, TypeOK, ResolveNamespace, In
    <3>3. CASE x \in found
      <4>1. x \in outbox'[k]
        BY <3>2, <3>3, Zenon DEF WellFormed, TypeOK
      <4>2. QED
        BY <3>1, <4>1, Zenon DEF UpdateUnderWay
    <3>4. QED
      BY <3>1, <3>2, <3>3, Zenon
  <2>3. QED
    BY <2>1, <2>2, Zenon
<1>7. UpdateUnderWay(x) => UpdateUnderWay(x)' \/ x \in missed'
  BY <1>1, <1>2, <1>3, <1>4, <1>6, Zenon DEF UpdateUnderWay
<1>8. \A j \in Workers : Holds(j) => Holds(j)' /\ work'[j] = work[j]
  BY <1>2, <1>3, Zenon DEF Holds
<1>9. QED
  BY <1>1, <1>5, <1>7, <1>8, ReasonKept, Zenon

(* A worker that reads the constraints of a workload takes the current     *)
(* ones, or leaves the workload out of date because it was just patched.   *)
LEMMA ReadExplained ==
  ASSUME WellFormed, NEW x \in Workloads, Explained(x),
         NEW k \in Workers, ReadConstraints(k)
  PROVE  Explained(x)'
<1> DEFINE y == work[k]
           snap == [workload |-> y, version |-> version[nsOf[y]], patched |-> FALSE]
<1>1. y \in Workloads /\ y \in workloadKey /\ Covers(y) = {y} /\ ~Holds(k)
  BY CoversEach, WorkKinds, Zenon DEF WellFormed, ReadConstraints, workloadKey
<1>2. UNCHANGED <<version, pending, outbox, annotation>> /\ \A j \in Workers : j # k => work'[j] = work[j]
  BY Zenon DEF WellFormed, TypeOK, ReadConstraints
<1>3. \/ missed' = missed \union {y}
      \/ work'[k] = snap /\ missed' = missed \ {y}
  BY Zenon DEF WellFormed, TypeOK, ReadConstraints
<1>4. snap \in Snapshot
  BY <1>1, ConstantsAssumption, Zenon DEF WellFormed, TypeOK, Snapshot
<1>5. CASE x = y
  <2>1. CASE work'[k] = snap
    <3>1. AboutToWrite(k, x)' /\ work'[k].version = version'[nsOf[x]]
      BY <1>2, <1>4, <1>5, <2>1 DEF Holds, AboutToWrite
    <3>2. QED
      BY <3>1, Zenon DEF Explained
  <2>2. QED
    BY <1>3, <1>5, <2>1, Zenon DEF Explained
<1>6. CASE x # y
  <2>1. UpdateUnderWay(x) => UpdateUnderWay(x)'
    BY <1>1, <1>2, <1>6, Zenon DEF UpdateUnderWay
  <2>2. x \in missed => x \in missed'
    BY <1>3, <1>6, Zenon
  <2>3. \A j \in Workers : Holds(j) => Holds(j)' /\ work'[j] = work[j]
    BY <1>1, <1>2, Zenon DEF Holds
  <2>4. QED
    BY <1>2, <2>1, <2>2, <2>3, ReasonKept, Zenon
<1>7. QED
  BY <1>5, <1>6, Zenon

(* A PATCH that is not current finds another reason: what it overwrites    *)
(* was not current either, or was newer and is recorded as overtaken.      *)
LEMMA PatchExplained ==
  ASSUME WellFormed, NEW x \in Workloads, Explained(x),
         NEW k \in Workers, Patch(k) \/ PatchFails(k)
  PROVE  Explained(x)'
<1> DEFINE y == work[k].workload
           v == work[k].version
<1>1. Holds(k) /\ y \in Workloads /\ v \in 0..MaxChanges /\ work[k] \notin workloadKey
  BY HeldTyped, ConstantsAssumption, Zenon DEF WellFormed, Patch, PatchFails
<1>2. UNCHANGED <<version, pending, outbox>> /\ \A j \in Workers : j # k => work'[j] = work[j]
  BY PatchHolds, Zenon DEF WellFormed, TypeOK, Patch, PatchFails
<1>3. UpdateUnderWay(x) => UpdateUnderWay(x)'
  BY <1>1, <1>2, Zenon DEF UpdateUnderWay
<1>4. missed \subseteq missed'
  BY Zenon DEF Patch, PatchFails
<1>5. \A j \in Workers : j # k /\ AboutToWrite(j, x) => AboutToWrite(j, x)' /\ work'[j] = work[j]
  BY <1>2, Zenon DEF Holds, AboutToWrite
<1>6. nsOf[x] \in Namespaces /\ version[nsOf[x]] \in Nat /\ annotation[x] \in Nat
  BY ConstantsAssumption DEF WellFormed, TypeOK
<1>7. CASE Patch(k) /\ x = y
  <2>1. annotation'[x] = v
    BY <1>1, <1>7, Zenon DEF WellFormed, TypeOK, Patch
  <2>2. v <= version[nsOf[x]] /\ annotation[x] <= version[nsOf[x]]
    BY <1>1, <1>7, Zenon DEF WellFormed, NotAhead
  <2>3. CASE v < annotation[x]
    BY <1>7, <2>3, Zenon DEF Patch, Explained
  <2>4. CASE v = version[nsOf[x]]
    BY <1>2, <2>1, <2>4, Zenon DEF Explained
  <2>5. CASE v >= annotation[x] /\ v # version[nsOf[x]]
    <3>1. annotation[x] # version[nsOf[x]]
      BY <1>1, <1>6, <2>2, <2>5
    <3>2. QED
      BY <1>2, <1>3, <1>4, <1>5, <2>5, <3>1, Zenon DEF Explained
  <2>6. QED
    BY <1>1, <1>6, <2>3, <2>4, <2>5
<1>8. CASE PatchFails(k) /\ x = y
  BY <1>8, Zenon DEF PatchFails, Explained
<1>9. CASE x # y
  <2>1. annotation'[x] = annotation[x]
    BY <1>1, <1>9, Zenon DEF WellFormed, TypeOK, Patch, PatchFails
  <2>2. QED
    BY <1>2, <1>3, <1>4, <1>5, <1>9, <2>1, Zenon DEF Explained, AboutToWrite
<1>10. QED
  BY <1>7, <1>8, <1>9, Zenon

(* What was already written is no reason for an annotation to be stale.    *)
LEMMA RecordExplained ==
  ASSUME WellFormed, NEW x \in Workloads, Explained(x), NEW k \in Workers, RecordPatch(k)
  PROVE  Explained(x)'
<1>1. UNCHANGED <<version, pending, outbox, annotation, missed>> /\ Holds(k) /\ work[k].patched
      /\ \A j \in Workers : j # k => work'[j] = work[j]
  BY Zenon DEF WellFormed, TypeOK, RecordPatch
<1>2. work[k] \notin workloadKey
  BY <1>1, ConstantsAssumption, Zenon DEF Holds
<1>3. UpdateUnderWay(x) => UpdateUnderWay(x)'
  BY <1>1, <1>2, Zenon DEF UpdateUnderWay
<1>4. \A j \in Workers : AboutToWrite(j, x) => AboutToWrite(j, x)' /\ work'[j] = work[j]
  BY <1>1, Zenon DEF AboutToWrite, Holds
<1>5. QED
  BY <1>1, <1>3, <1>4, Zenon DEF Explained

-----------------------------------------------------------------------------
(* PATCHes within a debounce duration.                                     *)

LEMMA BurstKept ==
  ASSUME TypeOK, Burst,
         \A x \in Workloads : lastPatch'[x] <= lastPatch[x] /\ lastPatch'[x] \in Nat,
         \A k \in Workers : Holds(k)' => Holds(k) /\ work'[k].workload = work[k].workload
  PROVE  Burst'
<1> SUFFICES ASSUME NEW x \in Workloads
             PROVE  lastPatch'[x] + Cardinality(Holders(x)') <= Cardinality(Workers)
  BY Zenon DEF Burst
<1>1. Holders(x)' \subseteq Holders(x)
  BY Zenon DEF Holders
<1>2. Cardinality(Holders(x)') <= Cardinality(Holders(x)) /\ Cardinality(Holders(x)') \in Nat
  BY <1>1, HoldersCounted, FS_Subset, FS_CardinalityType, Zenon
<1>3. /\ lastPatch[x] + Cardinality(Holders(x)) <= Cardinality(Workers)
      /\ lastPatch[x] \in Nat /\ Cardinality(Holders(x)) \in Nat /\ Cardinality(Workers) \in Nat
  BY HoldersCounted, WorkersFinite, Zenon DEF Burst, TypeOK
<1>4. lastPatch'[x] <= lastPatch[x] /\ lastPatch'[x] \in Nat
  BY Zenon
<1>5. QED
  BY <1>2, <1>3, <1>4

(* A worker reads the constraints of a workload only when no PATCH of the  *)
(* debounce duration is counted.                                           *)
LEMMA ReadBurst ==
  ASSUME WellFormed, Burst, NEW k \in Workers, ReadConstraints(k)
  PROVE  Burst'
<1>1. lastPatch' = lastPatch
  BY Zenon DEF ReadConstraints
<1>2. CASE Debounced(work[k])
  <2>1. \A j \in Workers : Holds(j)' => Holds(j) /\ work'[j] = work[j]
    BY <1>2, ConstantsAssumption, Zenon DEF WellFormed, TypeOK, ReadConstraints, Holds
  <2>2. QED
    BY <1>1, <2>1, BurstKept DEF WellFormed, TypeOK
<1>3. CASE ~Debounced(work[k])
  <2> DEFINE y == work[k]
  <2>1. /\ y \in Workloads /\ lastPatch[y] = 0
        /\ work' = [work EXCEPT ![k] = [workload |-> y, version |-> version[nsOf[y]], patched |-> FALSE]]
    BY <1>3 DEF WellFormed, TypeOK, ReadConstraints, Debounced, recent
  <2>2. work'[k].workload = y /\ (\A j \in Workers : j # k => work'[j] = work[j])
    BY <2>1, Zenon DEF WellFormed, TypeOK
  <2>3. ASSUME NEW x \in Workloads PROVE lastPatch'[x] + Cardinality(Holders(x)') <= Cardinality(Workers)
    <3>1. CASE x = y
      <4>1. Holders(x)' \subseteq Workers
        BY Zenon DEF Holders
      <4>2. Cardinality(Holders(x)') <= Cardinality(Workers) /\ Cardinality(Holders(x)') \in Nat
        BY <4>1, WorkersFinite, FS_Subset, FS_CardinalityType, Zenon
      <4>3. QED
        BY <1>1, <2>1, <3>1, <4>2
    <3>2. CASE x # y
      <4>1. Holders(x)' \subseteq Holders(x)
        BY <2>2, <3>2, Zenon DEF Holders, Holds
      <4>2. Cardinality(Holders(x)') <= Cardinality(Holders(x)) /\ Cardinality(Holders(x)') \in Nat
        BY <4>1, HoldersCounted, FS_Subset, FS_CardinalityType, Zenon
      <4>3. /\ lastPatch[x] + Cardinality(Holders(x)) <= Cardinality(Workers)
            /\ lastPatch[x] \in Nat /\ Cardinality(Holders(x)) \in Nat /\ Cardinality(Workers) \in Nat
        BY HoldersCounted, WorkersFinite, Zenon DEF WellFormed, Burst, TypeOK
      <4>4. QED
        BY <1>1, <4>2, <4>3
    <3>3. QED
      BY <3>1, <3>2, Zenon
  <2>4. QED
    BY <2>3, Zenon DEF Burst
<1>4. QED
  BY <1>2, <1>3, Zenon

(* The PATCH counts once it is recorded, and the worker is done with it.   *)
LEMMA RecordBurst ==
  ASSUME WellFormed, Burst, NEW k \in Workers, RecordPatch(k)
  PROVE  Burst'
<1> DEFINE y == work[k].workload
<1>1. Holds(k) /\ y \in Workloads
  BY HeldTyped, Zenon DEF WellFormed, RecordPatch
<1>2. /\ work'[k] = None /\ \A j \in Workers : j # k => work'[j] = work[j]
      /\ lastPatch' = [lastPatch EXCEPT ![y] = @ + 1] /\ None \notin Snapshot
  BY ConstantsAssumption, Zenon DEF WellFormed, TypeOK, RecordPatch
<1>3. ASSUME NEW x \in Workloads PROVE lastPatch'[x] + Cardinality(Holders(x)') <= Cardinality(Workers)
  <2>1. Holders(x)' = Holders(x) \ {k}
    BY <1>2, Zenon DEF Holders, Holds
  <2>2. k \in Holders(x) <=> x = y
    BY <1>1, Zenon DEF Holders
  <2>3. /\ IsFiniteSet(Holders(x)) /\ Cardinality(Holders(x)) \in Nat /\ Cardinality(Workers) \in Nat
        /\ lastPatch[x] \in Nat /\ lastPatch[x] + Cardinality(Holders(x)) <= Cardinality(Workers)
    BY HoldersCounted, WorkersFinite, Zenon DEF WellFormed, Burst, TypeOK
  <2>4. CASE x = y
    <3>1. Cardinality(Holders(x)') = Cardinality(Holders(x)) - 1
      <4>1. Cardinality(Holders(x) \ {k}) = Cardinality(Holders(x)) - 1
        BY <2>2, <2>3, <2>4, FS_RemoveElement, Zenon
      <4>2. QED
        BY <2>1, <4>1, Zenon
    <3>2. lastPatch'[x] = lastPatch[x] + 1
      BY <1>2, <2>4, Zenon DEF WellFormed, TypeOK
    <3>3. QED
      BY <2>3, <3>1, <3>2
  <2>5. CASE x # y
    <3>1. Holders(x)' = Holders(x)
      BY <2>1, <2>2, <2>5, Zenon
    <3>2. lastPatch'[x] = lastPatch[x]
      BY <1>1, <1>2, <2>5, Zenon DEF WellFormed, TypeOK
    <3>3. QED
      BY <2>3, <3>1, <3>2, Zenon
  <2>6. QED
    BY <2>4, <2>5, Zenon
<1>4. QED
  BY <1>3, Zenon DEF Burst

-----------------------------------------------------------------------------
LEMMA WorkerPreserves ==
  ASSUME IInv, NEW k \in Workers, Worker(k)
  PROVE  IInv'
<1> USE DEF IInv
<1>1. CASE Take(k)
  <2>1. \A j \in Workers : Holds(j)' => Holds(j) /\ work'[j] = work[j]
    <3>1. Head(pending) \notin Snapshot
      BY <1>1, TakeTyped, ConstantsAssumption, Zenon
    <3>2. QED
      BY <1>1, <3>1, Zenon DEF WellFormed, TypeOK, Take, Holds
  <2>2. Burst'
    BY <1>1, <2>1, BurstKept DEF WellFormed, TypeOK, Take
  <2>3. QED
    BY <1>1, <2>2, TakeTyped, TakeExplained, Zenon
<1>2. CASE ResolveCluster(k) \/ ResolveNamespace(k)
  <2>1. \A j \in Workers : Holds(j)' => Holds(j) /\ work'[j] = work[j]
    BY <1>2, ConstantsAssumption, Zenon DEF WellFormed, TypeOK, ResolveCluster, ResolveNamespace,
                Holds
  <2>2. lastPatch' = lastPatch
    BY <1>2, Zenon DEF ResolveCluster, ResolveNamespace
  <2>3. Burst'
    BY <2>1, <2>2, BurstKept DEF WellFormed, TypeOK
  <2>4. QED
    BY <1>2, <2>3, ResolveTyped, ResolveExplained, Zenon
<1>3. CASE ReadConstraints(k)
  BY <1>3, ReadTyped, ReadExplained, ReadBurst, Zenon
<1>4. CASE Patch(k)
  <2>1. \A j \in Workers : Holds(j)' => Holds(j) /\ work'[j].workload = work[j].workload
    BY <1>4, PatchHolds, Zenon DEF WellFormed, Holds
  <2>2. Burst'
    BY <1>4, <2>1, BurstKept DEF WellFormed, TypeOK, Patch
  <2>3. QED
    BY <1>4, <2>2, PatchTyped, PatchExplained, Zenon
<1>5. CASE PatchFails(k)
  <2>1. \A j \in Workers : Holds(j)' => Holds(j) /\ work'[j] = work[j]
    BY <1>5, ConstantsAssumption, Zenon DEF WellFormed, TypeOK, PatchFails, Holds
  <2>2. Burst'
    BY <1>5, <2>1, BurstKept DEF WellFormed, TypeOK, PatchFails
  <2>3. QED
    BY <1>5, <2>2, PatchFailsTyped, PatchExplained, Zenon
<1>6. CASE Leave(k)
  <2>1. UNCHANGED <<version, pending, outbox, work, lastPatch, annotation, missed>>
    BY <1>6, Zenon DEF Leave
  <2>2. (\A x \in Workloads : Explained(x)') /\ Burst'
    BY <2>1, Zenon DEF Explained, UpdateUnderWay, AboutToWrite, Holds, Burst, Holders
  <2>3. QED
    BY <1>6, <2>2, LifeTyped, Zenon
<1>7. CASE RecordPatch(k)
  BY <1>7, RecordTyped, RecordExplained, RecordBurst, Zenon
<1>8. QED
  BY <1>1, <1>2, <1>3, <1>4, <1>5, <1>6, <1>7, Zenon DEF Worker

LEMMA NextPreserves ==
  ASSUME IInv, [Next]_vars
  PROVE  IInv'
<1>1. ASSUME NEW w \in Writers, NEW scope \in Scope, NEW before \in SUBSET Namespaces,
             OnIndexChange(w, scope, before)
      PROVE  IInv'
  <2>1. UNCHANGED <<work, lastPatch>>
    BY <1>1, Zenon DEF OnIndexChange
  <2>2. Burst'
    BY <2>1, Zenon DEF IInv, Burst, Holders, Holds
  <2>3. QED
    BY <1>1, <2>2, ChangeTyped, ChangeExplained, Zenon DEF IInv
<1>2. ASSUME NEW a \in Writers \union Workers, NEW key \in outbox[a], Send(a, key) PROVE IInv'
  <2>1. UNCHANGED <<work, lastPatch>>
    BY <1>2, Zenon DEF Send
  <2>2. Burst'
    BY <2>1, Zenon DEF IInv, Burst, Holders, Holds
  <2>3. QED
    BY <1>2, <2>2, SendTyped, SendExplained, Zenon DEF IInv
<1>3. ASSUME NEW k \in Workers, Worker(k) PROVE IInv'
  BY <1>3, WorkerPreserves, Zenon
<1>4. CASE \/ Cancel \/ Start
           \/ \E x \in Workloads : DebounceOver(x)
           \/ \E n \in Namespaces : CacheExpires(n)
  <2>1. UNCHANGED <<version, pending, outbox, work, annotation, missed>>
    BY <1>4, Zenon DEF Cancel, Start, ClosePending, Return, DebounceOver, CacheExpires
  <2>2. \A x \in Workloads : Explained(x)'
    BY <2>1, Zenon DEF IInv, Explained, UpdateUnderWay, AboutToWrite, Holds
  <2>3. \A x \in Workloads : lastPatch'[x] <= lastPatch[x] /\ lastPatch'[x] \in Nat
    <3>1. CASE \E y \in Workloads : DebounceOver(y)
      BY <3>1 DEF IInv, WellFormed, TypeOK, DebounceOver
    <3>2. CASE lastPatch' = lastPatch
      BY <3>2 DEF IInv, WellFormed, TypeOK
    <3>3. QED
      BY <1>4, <3>1, <3>2, Zenon DEF Cancel, Start, ClosePending, Return, CacheExpires
  <2>4. Burst'
    BY <2>1, <2>3, BurstKept, Zenon DEF IInv, WellFormed, Holds
  <2>5. QED
    BY <1>4, <2>2, <2>4, LifeTyped, Zenon DEF IInv
<1>5. CASE UNCHANGED vars
  BY <1>5, Zenon DEF vars, stop, IInv, WellFormed, TypeOK, NotAhead, SendsFirst, Waited, Explained,
              UpdateUnderWay, AboutToWrite, Holds, Burst, Holders
<1>6. QED
  BY <1>1, <1>2, <1>3, <1>4, <1>5, Zenon DEF Next, Sends

LEMMA InvHolds == Spec => []IInv
<1>1. Init => IInv
  BY InitHolds, Zenon
<1>2. IInv /\ [Next]_vars => IInv'
  BY NextPreserves, Zenon
<1>3. QED
  BY <1>1, <1>2, PTL DEF Spec

(* Whatever informers, workers, the debounce, the full channel, failing    *)
(* calls and a shutdown do to each other, an annotation differs from the   *)
(* index only for a reason that is on record                               *)
(* (internal/notifier/workload_annotator.go, OnIndexChange to applyPatch). *)
THEOREM AnnotationsExplained == Spec => []StaleExplained
<1>1. IInv => StaleExplained
  BY Zenon DEF IInv, Explained, StaleExplained
<1>2. QED
  BY <1>1, InvHolds, PTL

(* Between two ends of its debounce duration a workload gets at most one   *)
(* PATCH per worker (processUpdate and lastPatch of the same file), for    *)
(* any number of workers and workloads.                                    *)
THEOREM PatchesBounded == Spec => []PatchBurst
<1>1. Burst <=> PatchBurst
  BY Zenon DEF Burst, Holders, PatchBurst
<1>2. IInv => PatchBurst
  BY <1>1, Zenon DEF IInv
<1>3. QED
  BY <1>2, InvHolds, PTL

(* Once Start has returned, no worker is left to write an annotation       *)
(* (Start and its WaitGroup).                                              *)
THEOREM NothingAfterReturn == Spec => NoLatePatch
<1>1. IInv /\ [Next]_vars => [life = "returned" => UNCHANGED annotation]_vars
  <2> SUFFICES ASSUME IInv, Next, life = "returned" PROVE annotation' = annotation
    BY Zenon
  <2>1. gone = Workers
    BY Zenon DEF IInv, WellFormed, Waited
  <2>2. QED
    BY <2>1, Zenon DEF Next, Worker, Sends, Send, OnIndexChange, DebounceOver,
                CacheExpires, Cancel, Start, ClosePending, Return
<1>2. QED
  BY <1>1, InvHolds, PTL DEF Spec, NoLatePatch

=============================================================================
