--------------------------- MODULE NotifierProofs ---------------------------
(***************************************************************************)
(* Proofs about the reports: no update of a ConstraintReport is lost       *)
(* unaccounted for, for any namespaces, constraints and informer           *)
(* goroutines, and any scopes the constraints may have and change to.      *)
(*                                                                         *)
(* Proofs about the namespaces' rate limiters, for every rate, burst,      *)
(* eviction age and set of namespaces that satisfy the module's            *)
(* assumptions, and about the notifier, which joins them to the            *)
(* dispatcher.                                                             *)
(*                                                                         *)
(* WindowBound is not inductive: it says nothing of the tokens a bucket    *)
(* still holds.  The invariant that is balances the two: what was admitted *)
(* since the window opened plus what the bucket could admit right now is   *)
(* covered by the burst and the accrual of the window.  A fresh bucket     *)
(* keeps the balance only because an evicted one was full, which follows   *)
(* from the bucket's last grant being no later than its last access.       *)
(*                                                                         *)
(* The notifier implements both of its parts: a step of it is a step of    *)
(* the dispatcher or leaves it alone, and the same for the rate limiter,   *)
(* so it inherits what is proved of them.                                  *)
(***************************************************************************)
EXTENDS Notifier, ReportReconciler, DispatcherProofs

-----------------------------------------------------------------------------
(* The reports.                                                            *)

ReportIInv == ReportTypeOK /\ NoLostUpdate

(* What is to be shown of one namespace.                                   *)
Busy(ns) == current # None /\ current.ns = ns
Covered(ns) ==
  /\ Busy(ns) /\ current.cs # ByNamespace(byUID, ns) => Announced(ns) \/ ns \in missed
  /\ ~Busy(ns) /\ ~UpToDate(ns) => Announced(ns) \/ ns \in missed

LEMMA NoLostUpdateIsCovered ==
  NoLostUpdate <=> \A ns \in exists : Covered(ns)
BY Zenon DEF NoLostUpdate, Covered, Busy

LEMMA ConstraintsType ==
  ASSUME NEW u \in UIDs, NEW c \in Constraints(u)
  PROVE  /\ c \in Constraint /\ c.uid = u
<1>1. PICK s \in Scopes[u], r \in 0..MaxRev :
        c = [uid |-> u, namespace |-> s.namespace, affected |-> s.affected, rev |-> r]
  BY DEF Constraints
<1>2. s \in Scope
  BY ReportAssumption, Zenon
<1>3. s.namespace \in AllNamespaces \union {ClusterScope} /\ s.affected \in SUBSET AllNamespaces
  BY <1>2, Zenon DEF Scope
<1>4. QED
  BY <1>1, <1>3, Zenon DEF Constraint

(* Replacing or removing the constraint of one UID changes nothing for a   *)
(* namespace that neither the old nor the new one applies to.              *)
LEMMA EntryDoesNotMatter ==
  ASSUME ReportTypeOK, NEW u \in UIDs, NEW d \in Constraint \union {NoConstraint}, NEW ns,
         byUID[u] = NoConstraint \/ ~matchesNamespace(byUID[u], ns),
         d = NoConstraint \/ ~matchesNamespace(d, ns)
  PROVE  ByNamespace([byUID EXCEPT ![u] = d], ns) = ByNamespace(byUID, ns)
<1> DEFINE new == [byUID EXCEPT ![u] = d]
<1>1. DOMAIN new = UIDs /\ DOMAIN byUID = UIDs /\ new[u] = d
  BY Zenon DEF ReportTypeOK
<1>2. \A v \in UIDs : v # u => new[v] = byUID[v]
  BY Zenon DEF ReportTypeOK
<1>3. ASSUME NEW x PROVE x \in ByNamespace(new, ns) <=> x \in ByNamespace(byUID, ns)
  <2> HIDE DEF new
  <2>1. x \in ByNamespace(new, ns) <=>
          (\E v \in UIDs : x = new[v]) /\ x # NoConstraint /\ matchesNamespace(x, ns)
    BY <1>1, Zenon DEF ByNamespace, All
  <2>2. x \in ByNamespace(byUID, ns) <=>
          (\E v \in UIDs : x = byUID[v]) /\ x # NoConstraint /\ matchesNamespace(x, ns)
    BY <1>1, Zenon DEF ByNamespace, All
  <2>3. QED
    BY <1>1, <1>2, <2>1, <2>2, Zenon
<1>4. QED
  BY <1>3, Zenon

LEMMA ByNamespaceType ==
  ASSUME ReportTypeOK, NEW ns
  PROVE  ByNamespace(byUID, ns) \in SUBSET Constraint
<1>1. All(byUID) \subseteq Constraint
  BY Zenon DEF All, ReportTypeOK
<1>2. QED
  BY <1>1, Zenon DEF ByNamespace

(* A step that changes neither the index, a report nor what is being       *)
(* written keeps every namespace covered if it keeps it announced.         *)
LEMMA CoveredKept ==
  ASSUME NEW ns, Covered(ns), byUID' = byUID, report' = report, current' = current,
         Announced(ns) => Announced(ns)' \/ ns \in missed',
         ns \in missed => ns \in missed' \/ Announced(ns)'
  PROVE  Covered(ns)'
BY Zenon DEF Covered, Busy, UpToDate

(* A change of the index: every namespace it concerns is triggered by the  *)
(* callback that will report it, or is recorded as unheard.                *)
LEMMA IndexChangeCovers ==
  ASSUME ReportIInv, NEW w \in Writers, NEW u \in UIDs, NEW c \in Constraint,
         NEW d \in Constraint \union {NoConstraint}, callback[w] = None,
         byUID' = [byUID EXCEPT ![u] = d], callback' = [callback EXCEPT ![w] = c],
         missed' = missed \union Unheard(byUID[u], d, c),
         UNCHANGED <<queues, reported, report, exists>>
  PROVE  NoLostUpdate'
<1> SUFFICES ASSUME NEW ns \in exists PROVE Covered(ns)'
  BY Zenon DEF NoLostUpdate, Covered, Busy
<1>1. ns \in AllNamespaces /\ byUID[u] \in Constraint \union {NoConstraint}
  BY Zenon DEF ReportIInv, ReportTypeOK
<1>2. callback'[w] = c /\ \A x \in Writers : x # w => callback'[x] = callback[x]
  BY Zenon DEF ReportIInv, ReportTypeOK
<1>3. Covered(ns)
  BY NoLostUpdateIsCovered, Zenon DEF ReportIInv
<1>4. CASE Triggers(c, ns)
  <2>1. Announced(ns)'
    BY <1>2, <1>4, ReportAssumption, Zenon DEF Announced, Triggers, ClusterWide, triggered
  <2>2. QED
    BY <2>1, Zenon DEF Covered
<1>5. CASE ns \in missed'
  BY <1>5, Zenon DEF Covered
<1>6. CASE ~Triggers(c, ns) /\ ns \notin missed'
  <2>1. ~Concerns(byUID[u], ns) /\ ~Concerns(d, ns)
    BY <1>1, <1>6, Zenon DEF Unheard
  <2>2. ByNamespace(byUID', ns) = ByNamespace(byUID, ns)
    BY <2>1, EntryDoesNotMatter, Zenon DEF ReportIInv, Concerns
  <2>3. Announced(ns) => Announced(ns)'
    BY <1>2, Zenon DEF Announced, queues, Triggers, ClusterWide, triggered
  <2>4. QED
    BY <1>3, <1>6, <2>2, <2>3, Zenon DEF Covered, Busy, UpToDate, queues
<1>7. QED
  BY <1>4, <1>5, <1>6, Zenon

LEMMA UpsertPreserves ==
  ASSUME ReportIInv, NEW w \in Writers, NEW u \in UIDs, NEW c \in Constraints(u), UpsertConstraint(w, c)
  PROVE  ReportIInv'
<1>1. c \in Constraint /\ c.uid = u
  BY ConstraintsType, Zenon
<1>2. byUID' = [byUID EXCEPT ![u] = c] /\ callback' = [callback EXCEPT ![w] = c]
  BY <1>1, Zenon DEF UpsertConstraint, Upsert
<1>3. missed' = missed \union Unheard(byUID[u], c, c)
  BY <1>1, Zenon DEF UpsertConstraint
<1>4. ReportTypeOK'
  BY <1>1, <1>2, <1>3, ReportAssumption DEF ReportIInv, ReportTypeOK, UpsertConstraint, queues, Unheard
<1>5. NoLostUpdate'
  <2>1. callback[w] = None /\ UNCHANGED <<queues, reported, report, exists>>
    BY Zenon DEF UpsertConstraint
  <2>2. QED
    BY <1>1, <1>2, <1>3, <2>1, IndexChangeCovers, Zenon
<1>6. QED
  BY <1>4, <1>5, Zenon DEF ReportIInv

LEMMA DeletePreserves ==
  ASSUME ReportIInv, NEW w \in Writers, NEW u \in UIDs, DeleteConstraint(w, u)
  PROVE  ReportIInv'
<1> DEFINE c == byUID[u]
<1>1. c \in Constraint
  BY Zenon DEF ReportIInv, ReportTypeOK, DeleteConstraint
<1>2. byUID' = [byUID EXCEPT ![u] = NoConstraint] /\ callback' = [callback EXCEPT ![w] = c]
  BY Zenon DEF DeleteConstraint, Delete
<1>3. missed' = missed \union Unheard(byUID[u], NoConstraint, c)
  BY Zenon DEF DeleteConstraint
<1>4. ReportTypeOK'
  BY <1>1, <1>2, <1>3, ReportAssumption DEF ReportIInv, ReportTypeOK, DeleteConstraint, queues, Unheard
<1>5. NoLostUpdate'
  <2>1. callback[w] = None /\ UNCHANGED <<queues, reported, report, exists>>
    BY Zenon DEF DeleteConstraint
  <2>2. QED
    BY <1>1, <1>2, <1>3, <2>1, IndexChangeCovers, Zenon
<1>6. QED
  BY <1>4, <1>5, Zenon DEF ReportIInv

(* A namespace that comes into being is recorded as missed.                *)
LEMMA CreateNamespacePreserves ==
  ASSUME ReportIInv, NEW n \in AllNamespaces, CreateNamespace(n)
  PROVE  ReportIInv'
<1>1. ReportTypeOK'
  BY Zenon DEF ReportIInv, ReportTypeOK, CreateNamespace, queues
<1>2. ASSUME NEW ns \in exists' PROVE Covered(ns)'
  <2>1. CASE ns = n
    BY <2>1, Zenon DEF Covered, CreateNamespace
  <2>2. CASE ns \in exists
    <3>1. Covered(ns)
      BY <2>2, NoLostUpdateIsCovered, Zenon DEF ReportIInv
    <3>2. QED
      BY <3>1, CoveredKept, Zenon DEF CreateNamespace, queues, Announced
  <2>3. QED
    BY <2>1, <2>2, Zenon DEF CreateNamespace
<1>3. NoLostUpdate'
  BY <1>2, Zenon DEF NoLostUpdate, Covered, Busy
<1>4. QED
  BY <1>1, <1>3, Zenon DEF ReportIInv

(* A callback hands its namespaces over to the pending triggers.           *)
LEMMA OnIndexChangePreserves ==
  ASSUME ReportIInv, NEW w \in Writers, OnIndexChange(w)
  PROVE  ReportIInv'
<1> DEFINE c == callback[w]
<1>1. c \in Constraint
  BY Zenon DEF ReportIInv, ReportTypeOK, OnIndexChange
<1>2. triggered(c) \subseteq AllNamespaces
  BY <1>1, Zenon DEF triggered, Constraint
<1>3. ReportTypeOK'
  BY <1>2, Zenon DEF ReportIInv, ReportTypeOK, OnIndexChange
<1>4. ASSUME NEW ns \in exists PROVE Covered(ns)'
  <2>1. Triggers(c, ns) => Announced(ns)'
    BY Zenon DEF OnIndexChange, Triggers, Announced
  <2>2. \A x \in Writers : x # w => callback'[x] = callback[x]
    BY Zenon DEF OnIndexChange, ReportIInv, ReportTypeOK
  <2>3. Announced(ns) => Announced(ns)'
    BY <2>1, <2>2, Zenon DEF Announced, OnIndexChange, Triggers, ClusterWide, triggered
  <2>4. Covered(ns)
    BY NoLostUpdateIsCovered, Zenon DEF ReportIInv
  <2>5. QED
    BY <2>3, <2>4, CoveredKept, Zenon DEF OnIndexChange
<1>5. NoLostUpdate'
  BY <1>4, Zenon DEF OnIndexChange, NoLostUpdate, Covered, Busy
<1>6. QED
  BY <1>3, <1>5, Zenon DEF ReportIInv

LEMMA SwapPreserves ==
  ASSUME ReportIInv, SwapTriggers
  PROVE  ReportIInv'
<1>1. ReportTypeOK'
  BY Zenon DEF ReportIInv, ReportTypeOK, SwapTriggers
<1>2. ASSUME NEW ns \in exists PROVE Covered(ns)'
  <2>1. Announced(ns) => Announced(ns)'
    <3>1. clusterWideTriggered => listing'
      BY Zenon DEF SwapTriggers
    <3>2. ~listing /\ triggers = {} /\ triggers' = pendingTriggers /\ callback' = callback
      BY Zenon DEF SwapTriggers, Idle
    <3>3. QED
      BY <3>1, <3>2, Zenon DEF Announced, Triggers, ClusterWide, triggered
  <2>2. Covered(ns)
    BY NoLostUpdateIsCovered, Zenon DEF ReportIInv
  <2>3. QED
    BY <2>1, <2>2, CoveredKept, Zenon DEF SwapTriggers
<1>3. NoLostUpdate'
  BY <1>2, Zenon DEF SwapTriggers, NoLostUpdate, Covered, Busy
<1>4. QED
  BY <1>1, <1>3, Zenon DEF ReportIInv

(* Listing the namespaces queues every one of them.                        *)
LEMMA ListPreserves ==
  ASSUME ReportIInv, ListNamespaces
  PROVE  ReportIInv'
<1>1. ReportTypeOK'
  BY Zenon DEF ReportIInv, ReportTypeOK, ListNamespaces
<1>2. ASSUME NEW ns \in exists PROVE Covered(ns)'
  <2>1. Announced(ns)'
    BY Zenon DEF Announced, ListNamespaces
  <2>2. QED
    BY <2>1, Zenon DEF Covered
<1>3. NoLostUpdate'
  BY <1>2, Zenon DEF ListNamespaces, NoLostUpdate, Covered, Busy
<1>4. QED
  BY <1>1, <1>3, Zenon DEF ReportIInv

LEMMA ListFailsPreserves ==
  ASSUME ReportIInv, ListFails
  PROVE  ReportIInv'
<1>1. ReportTypeOK'
  <2>1. failedCalls' \in 0..MaxFailures
    BY ReportAssumption DEF ReportIInv, ReportTypeOK, ListFails
  <2>2. missed' \subseteq AllNamespaces
    BY Zenon DEF ReportIInv, ReportTypeOK, ListFails
  <2>3. QED
    BY <2>1, <2>2, Zenon DEF ReportIInv, ReportTypeOK, ListFails
<1>2. ASSUME NEW ns \in exists PROVE Covered(ns)'
  BY Zenon DEF Covered, ListFails
<1>3. NoLostUpdate'
  BY <1>2, Zenon DEF ListFails, NoLostUpdate, Covered, Busy
<1>4. QED
  BY <1>1, <1>3, Zenon DEF ReportIInv

LEMMA RequeuePreserves ==
  ASSUME ReportIInv, NEW n \in AllNamespaces, Requeue(n)
  PROVE  ReportIInv'
<1>1. ReportTypeOK'
  BY Zenon DEF ReportIInv, ReportTypeOK, Requeue
<1>2. ASSUME NEW ns \in exists PROVE Covered(ns)'
  <2>1. Announced(ns) => Announced(ns)'
    BY Zenon DEF Announced, Requeue
  <2>2. Covered(ns)
    BY NoLostUpdateIsCovered, Zenon DEF ReportIInv
  <2>3. QED
    BY <2>1, <2>2, CoveredKept, Zenon DEF Requeue
<1>3. NoLostUpdate'
  BY <1>2, Zenon DEF Requeue, NoLostUpdate, Covered, Busy
<1>4. QED
  BY <1>1, <1>3, Zenon DEF ReportIInv

(* Reading the index makes the namespace busy with what the index says.    *)
LEMMA ReadPreserves ==
  ASSUME ReportIInv, NEW n \in AllNamespaces, ReadIndex(n)
  PROVE  ReportIInv'
<1> DEFINE read == [ns |-> n, cs |-> ByNamespace(byUID, n)]
<1>1. current' = read /\ current = None
  BY Zenon DEF ReadIndex
<1>2. read \in [ns : AllNamespaces, cs : SUBSET Constraint]
  BY ByNamespaceType, Zenon DEF ReportIInv
<1>3. ReportTypeOK'
  BY <1>1, <1>2, Zenon DEF ReportIInv, ReportTypeOK, ReadIndex
<1>4. ASSUME NEW ns \in exists PROVE Covered(ns)'
  <2>1. CASE ns = n
    BY <1>1, <1>2, <2>1, ReportAssumption DEF Covered, Busy, ReadIndex
  <2>2. CASE ns # n
    <3>1. Announced(ns) => Announced(ns)'
      BY <2>2, Zenon DEF Announced, ReadIndex
    <3>2. ns \in missed => ns \in missed'
      BY <2>2, Zenon DEF ReadIndex
    <3>3. ~Busy(ns) /\ ~Busy(ns)'
      BY <1>1, <2>2, Zenon DEF Busy
    <3>4. Covered(ns)
      BY NoLostUpdateIsCovered, Zenon DEF ReportIInv
    <3>5. QED
      BY <3>1, <3>2, <3>3, <3>4, Zenon DEF Covered, UpToDate, ReadIndex
  <2>3. QED
    BY <2>1, <2>2, Zenon
<1>5. NoLostUpdate'
  BY <1>4, Zenon DEF ReadIndex, NoLostUpdate, Covered, Busy
<1>6. QED
  BY <1>3, <1>5, Zenon DEF ReportIInv

(* A report is written: what was read is now what the report says, or the  *)
(* report is a new one and the namespace is recorded as missed.            *)
LEMMA WritePreserves ==
  ASSUME ReportIInv, WriteReport
  PROVE  ReportIInv'
<1> DEFINE n == current.ns
<1>1. current \in [ns : AllNamespaces, cs : SUBSET Constraint]
  BY Zenon DEF ReportIInv, ReportTypeOK, WriteReport
<1>2. n \in AllNamespaces /\ current.cs \in SUBSET Constraint
  BY <1>1, Zenon
<1>3. \/ report' = [report EXCEPT ![n] = current.cs] /\ reported' = reported /\ missed' = missed
      \/ report' = report /\ reported' = reported \union {n} /\ missed' = missed \union {n}
  BY Zenon DEF WriteReport
<1>4. /\ report'[n] = current.cs \/ n \in missed'
      /\ \A ns \in AllNamespaces : ns # n => report'[ns] = report[ns]
      /\ missed \subseteq missed'
  BY <1>2, <1>3, Zenon DEF ReportIInv, ReportTypeOK
<1>5. ReportTypeOK'
  BY <1>2, <1>3, Zenon DEF ReportIInv, ReportTypeOK, WriteReport
<1>6. ASSUME NEW ns \in exists PROVE Covered(ns)'
  <2>1. Announced(ns)' <=> Announced(ns)
    BY Zenon DEF Announced, WriteReport
  <2>2. Covered(ns) /\ ns \in AllNamespaces
    BY NoLostUpdateIsCovered, Zenon DEF ReportIInv, ReportTypeOK
  <2>3. ~Busy(ns)'
    BY Zenon DEF Busy, WriteReport
  <2>4. CASE ns = n
    BY <1>4, <2>1, <2>2, <2>3, <2>4, Zenon DEF Covered, Busy, UpToDate, WriteReport
  <2>5. CASE ns # n
    BY <1>4, <2>1, <2>2, <2>3, <2>5, Zenon DEF Covered, Busy, UpToDate, WriteReport
  <2>6. QED
    BY <2>4, <2>5, Zenon
<1>7. NoLostUpdate'
  BY <1>6, Zenon DEF WriteReport, NoLostUpdate, Covered, Busy
<1>8. QED
  BY <1>5, <1>7, Zenon DEF ReportIInv

LEMMA WriteFailsPreserves ==
  ASSUME ReportIInv, WriteFails
  PROVE  ReportIInv'
<1>1. current \in [ns : AllNamespaces, cs : SUBSET Constraint]
  BY Zenon DEF ReportIInv, ReportTypeOK, WriteFails
<1>2. ReportTypeOK'
  BY <1>1, ReportAssumption DEF ReportIInv, ReportTypeOK, WriteFails
<1>3. ASSUME NEW ns \in exists PROVE Covered(ns)'
  <2>1. Announced(ns)' <=> Announced(ns)
    BY Zenon DEF Announced, WriteFails
  <2>2. Covered(ns)
    BY NoLostUpdateIsCovered, Zenon DEF ReportIInv
  <2>3. CASE Busy(ns)
    BY <2>3, Zenon DEF Covered, Busy, WriteFails
  <2>4. CASE ~Busy(ns)
    BY <2>1, <2>2, <2>4, Zenon DEF Covered, Busy, UpToDate, WriteFails
  <2>5. QED
    BY <2>3, <2>4, Zenon
<1>4. NoLostUpdate'
  BY <1>3, Zenon DEF WriteFails, NoLostUpdate, Covered, Busy
<1>5. QED
  BY <1>2, <1>4, Zenon DEF ReportIInv

LEMMA DebounceOverPreserves ==
  ASSUME ReportIInv, NEW n \in AllNamespaces, DebounceOver(n)
  PROVE  ReportIInv'
<1>1. ReportTypeOK'
  BY Zenon DEF ReportIInv, ReportTypeOK, DebounceOver
<1>2. NoLostUpdate'
  BY Zenon DEF ReportIInv, NoLostUpdate, Announced, UpToDate, DebounceOver
<1>3. QED
  BY <1>1, <1>2, Zenon DEF ReportIInv

LEMMA InitHolds ==
  ASSUME ReportInit
  PROVE  ReportIInv
<1>1. ReportTypeOK
  <2>1. report \in [AllNamespaces -> SUBSET Constraint]
    BY ReportAssumption, Zenon DEF ReportInit
  <2>2. 0 \in 0..MaxChanges /\ 0 \in 0..MaxFailures
    BY ReportAssumption
  <2>3. exists \subseteq AllNamespaces /\ reported \subseteq AllNamespaces /\ missed \subseteq AllNamespaces
    BY Zenon DEF ReportInit
  <2>4. QED
    BY <2>1, <2>2, <2>3, Zenon DEF ReportInit, ReportTypeOK
<1>2. \A ns \in AllNamespaces : ByNamespace(byUID, ns) = {}
  BY Zenon DEF ReportInit, ByNamespace, All
<1>3. NoLostUpdate
  BY <1>2, Zenon DEF ReportInit, NoLostUpdate, UpToDate
<1>4. QED
  BY <1>1, <1>3, Zenon DEF ReportIInv

LEMMA NextPreserves == ReportIInv /\ [ReportNext]_reportVars => ReportIInv'
<1> SUFFICES ASSUME ReportIInv, [ReportNext]_reportVars PROVE ReportIInv'
  BY Zenon
<1>1. CASE IndexChange
  BY <1>1, UpsertPreserves, DeletePreserves, Zenon DEF IndexChange
<1>2. ASSUME NEW ns \in AllNamespaces, CreateNamespace(ns) PROVE ReportIInv'
  BY <1>2, CreateNamespacePreserves, Zenon
<1>3. ASSUME NEW ns \in AllNamespaces, Visit(ns) PROVE ReportIInv'
  BY <1>3, RequeuePreserves, ReadPreserves, Zenon DEF Visit
<1>4. ASSUME NEW ns \in AllNamespaces, DebounceOver(ns) PROVE ReportIInv'
  BY <1>4, DebounceOverPreserves, Zenon
<1>5. ASSUME NEW w \in Writers, OnIndexChange(w) PROVE ReportIInv'
  BY <1>5, OnIndexChangePreserves, Zenon
<1>6. CASE SwapTriggers \/ ListNamespaces \/ ListFails
  BY <1>6, SwapPreserves, ListPreserves, ListFailsPreserves, Zenon
<1>7. CASE WriteReport \/ WriteFails
  BY <1>7, WritePreserves, WriteFailsPreserves, Zenon
<1>8. CASE UNCHANGED reportVars
  BY <1>8, Zenon DEF reportVars, ReportIInv, ReportTypeOK, NoLostUpdate, Announced, UpToDate
<1>9. QED
  BY <1>1, <1>2, <1>3, <1>4, <1>5, <1>6, <1>7, <1>8, Zenon DEF ReportNext

(* Whatever the interleaving of index changes, callbacks, ticks, new       *)
(* namespaces and failing API calls, a report that differs from the index  *)
(* has a pending trigger or one of the gaps NoLostUpdate names explains    *)
(* it.                                                                     *)
THEOREM UpdatesNotLost == ReportSpec => [](ReportTypeOK /\ NoLostUpdate)
<1>1. ReportInit => ReportIInv
  BY InitHolds, Zenon
<1>2. ReportIInv => ReportTypeOK /\ NoLostUpdate
  BY Zenon DEF ReportIInv
<1>3. QED
  BY <1>1, <1>2, NextPreserves, PTL DEF ReportSpec

-----------------------------------------------------------------------------
(* The rate limiters.                                                      *)

(* The limiter in the map was never granted after it was last accessed.    *)
GrantBeforeAccess ==
  \A ns \in Namespaces :
    limiters[ns] # NoLimiter => limiters[ns].last <= lastAccess[ns]

ClockAhead ==
  \A ns \in Namespaces :
    /\ windowStart[ns] <= now
    /\ lastAccess[ns] <= now

Balance ==
  \A ns \in Namespaces :
    admitted[ns] * Cost + Available(LimiterOf(ns))
      <= Cap + (now - windowStart[ns]) * Rate

LimiterIInv == LimiterTypeOK /\ GrantBeforeAccess /\ ClockAhead /\ Balance

LEMMA CapFacts == Burst \in Nat /\ Cap \in Nat /\ Cap >= Cost
<1>1. PerMinute \div 10 \in Int
  BY LimiterAssumption
<1>2. Burst \in Nat /\ Burst >= 1
  BY <1>1, SMT DEF Burst, Max2
<1>3. Burst * Cost >= Cost /\ Burst * Cost \in Nat
  BY <1>2, LimiterAssumption, SMT
<1> QED
  BY <1>2, <1>3, Zenon DEF Cap

(* Accrual over one tick more.                                             *)
LEMMA OneTickMore ==
  ASSUME NEW a \in Int
  PROVE  (a + 1) * Rate = a * Rate + Rate /\ a * Rate \in Int
BY LimiterAssumption, SMT

(* Accrual is monotone in time, and never negative.                        *)
LEMMA AccrualMonotone ==
  ASSUME NEW a \in Nat, NEW b \in Nat, a <= b
  PROVE  a * Rate <= b * Rate /\ a * Rate \in Nat
<1>1. b * Rate = a * Rate + (b - a) * Rate
  BY LimiterAssumption, SMT
<1>2. (b - a) * Rate >= 0 /\ a * Rate \in Nat
  BY LimiterAssumption, SMT
<1> QED
  BY <1>1, <1>2, LimiterAssumption, SMT

(* What a bucket holds is a number of units between nothing and the burst. *)
LEMMA AvailableType ==
  ASSUME now \in Nat, NEW lim \in Limiter, lim.last <= now
  PROVE  /\ Available(lim) \in 0..Cap
         /\ Available(lim) >= lim.tokens
<1>1. lim.tokens \in 0..Cap /\ lim.last \in Nat
  BY DEF Limiter
<1>2. (now - lim.last) * Rate \in Nat
  BY <1>1, AccrualMonotone
<1> QED
  BY <1>1, <1>2, CapFacts, SMT DEF Available, Min2

(* A new bucket is full.                                                   *)
LEMMA NewLimiterFull ==
  ASSUME now \in 0..MaxTime
  PROVE  NewLimiter \in Limiter /\ Available(NewLimiter) = Cap
<1>1. NewLimiter \in Limiter
  BY CapFacts DEF NewLimiter, Limiter
<1>2. (now - now) * Rate = 0
  BY LimiterAssumption, SMT
<1> QED
  BY <1>1, <1>2, CapFacts, SMT DEF NewLimiter, Available, Min2

(* Under the invariant the bucket of a namespace is well formed.           *)
LEMMA LimiterOfType ==
  ASSUME LimiterIInv, NEW ns \in Namespaces
  PROVE  /\ LimiterOf(ns) \in Limiter
         /\ LimiterOf(ns).last <= now
         /\ Available(LimiterOf(ns)) \in 0..Cap
<1>1. CASE limiters[ns] = NoLimiter
  BY <1>1, NewLimiterFull, CapFacts DEF LimiterOf, LimiterIInv, LimiterTypeOK, NewLimiter
<1>2. CASE limiters[ns] # NoLimiter
  <2>1. limiters[ns] \in Limiter /\ limiters[ns].last <= now
    BY <1>2, LimiterAssumption DEF LimiterIInv, LimiterTypeOK, GrantBeforeAccess, ClockAhead, Limiter
  <2> QED
    BY <1>2, <2>1, AvailableType DEF LimiterOf, LimiterIInv, LimiterTypeOK
<1> QED
  BY <1>1, <1>2, Zenon

(* Allow keeps the balance: a grant moves Cost units from the bucket to    *)
(* the count, a refusal moves nothing.                                     *)
LEMMA AllowPreserves ==
  ASSUME LimiterIInv, NEW ns \in Namespaces, AllowGranted(ns) \/ AllowRefused(ns)
  PROVE  LimiterIInv'
<1> DEFINE lim == LimiterOf(ns)
<1>1. lim \in Limiter /\ lim.last <= now /\ Available(lim) \in 0..Cap
  BY LimiterOfType, Zenon
<1>2. now' = now /\ windowStart' = windowStart
  BY Zenon DEF AllowGranted, AllowRefused
<1>3. \A other \in Namespaces \ {ns} :
        /\ limiters'[other] = limiters[other]
        /\ lastAccess'[other] = lastAccess[other]
        /\ admitted'[other] = admitted[other]
  BY Zenon DEF AllowGranted, AllowRefused, LimiterIInv, LimiterTypeOK
<1>4. lastAccess'[ns] = now
  BY Zenon DEF AllowGranted, AllowRefused, LimiterIInv, LimiterTypeOK
<1>5. CASE AllowGranted(ns)
  <2> DEFINE left == Available(lim) - Cost
             granted == [tokens |-> left, last |-> now]
  <2>1. left \in 0..Cap /\ limiters'[ns] = granted
    BY <1>1, <1>5, LimiterAssumption, CapFacts DEF AllowGranted, LimiterIInv, LimiterTypeOK
  <2>2. granted \in Limiter
    BY <2>1, Zenon DEF Limiter, LimiterIInv, LimiterTypeOK
  <2>3. LimiterTypeOK'
    BY <1>5, <2>1, <2>2 DEF AllowGranted, LimiterIInv, LimiterTypeOK
  <2>4. GrantBeforeAccess' /\ ClockAhead'
    <3>1. now \in Nat /\ limiters'[ns].last = now
      BY <2>1 DEF LimiterIInv, LimiterTypeOK
    <3>2. GrantBeforeAccess /\ ClockAhead
      BY Zenon DEF LimiterIInv
    <3> HIDE DEF left, granted
    <3>3. GrantBeforeAccess'
      BY <1>3, <1>4, <3>1, <3>2 DEF GrantBeforeAccess
    <3>4. ClockAhead'
      BY <1>2, <1>3, <1>4, <3>1, <3>2 DEF ClockAhead
    <3> QED
      BY <3>3, <3>4, Zenon
  <2>5. LimiterOf(ns)' = granted
    BY <2>1, <2>2, NoLimiterAssumption, Zenon DEF LimiterOf
  <2>6. (now - now) * Rate = 0
    BY LimiterAssumption, SMT DEF LimiterIInv, LimiterTypeOK
  <2>7. Available(LimiterOf(ns))' = left
    <3>1. Available(LimiterOf(ns))' = Min2(Cap, left + (now - now) * Rate)
      BY <1>2, <2>5 DEF Available
    <3> HIDE DEF left, granted
    <3>2. left + 0 = left /\ left <= Cap /\ Cap \in Nat
      BY <2>1, CapFacts
    <3>3. Min2(Cap, left) = left
      BY <2>1, <3>2 DEF Min2
    <3> QED
      BY <2>6, <3>1, <3>2, <3>3, Zenon
  <2>8. admitted'[ns] = admitted[ns] + 1 /\ admitted[ns] \in Nat
    BY <1>5, Zenon DEF AllowGranted, LimiterIInv, LimiterTypeOK
  <2>9. admitted'[ns] * Cost = admitted[ns] * Cost + Cost
    BY <2>8, LimiterAssumption, SMT
  <2>10. admitted[ns] * Cost \in Nat
    BY <2>8, LimiterAssumption, SMT
  <2>11. admitted[ns] * Cost + Available(lim) <= Cap + (now - windowStart[ns]) * Rate
    BY Zenon DEF LimiterIInv, Balance
  <2>12. (now - windowStart[ns]) * Rate \in Int
    BY LimiterAssumption DEF LimiterIInv, LimiterTypeOK
  <2>13. admitted'[ns] * Cost + left <= Cap + (now - windowStart[ns]) * Rate
    BY <1>1, <2>1, <2>9, <2>10, <2>11, <2>12, LimiterAssumption, CapFacts, SMT
  <2>14. \A other \in Namespaces \ {ns} : LimiterOf(other)' = LimiterOf(other)
    BY <1>2, <1>3, Zenon DEF LimiterOf, NewLimiter
  <2>15. Balance'
    BY <1>2, <1>3, <2>7, <2>13, <2>14 DEF LimiterIInv, Balance, Available
  <2> QED
    BY <2>3, <2>4, <2>15, Zenon DEF LimiterIInv
<1>6. CASE AllowRefused(ns)
  <2>1. limiters'[ns] = lim /\ admitted' = admitted
    BY <1>6, Zenon DEF AllowRefused, LimiterIInv, LimiterTypeOK
  <2>2. LimiterTypeOK'
    BY <1>1, <1>6, <2>1, Zenon DEF AllowRefused, LimiterIInv, LimiterTypeOK
  <2>3. GrantBeforeAccess' /\ ClockAhead'
    BY <1>1, <1>2, <1>3, <1>4, <2>1 DEF LimiterIInv, LimiterTypeOK, GrantBeforeAccess, ClockAhead
  <2>4. \A other \in Namespaces : LimiterOf(other)' = LimiterOf(other)
    BY <1>1, <1>2, <1>3, <2>1, NoLimiterAssumption, Zenon DEF LimiterOf, NewLimiter
  <2>5. Balance'
    BY <1>2, <2>1, <2>4, Zenon DEF LimiterIInv, Balance, Available
  <2> QED
    BY <2>2, <2>3, <2>5, Zenon DEF LimiterIInv
<1> QED
  BY <1>5, <1>6, Zenon

(* Evict keeps the balance because the buckets it drops were full.         *)
LEMMA EvictPreserves ==
  ASSUME LimiterIInv, Evict
  PROVE  LimiterIInv'
<1>1. LimiterTypeOK' /\ GrantBeforeAccess' /\ ClockAhead'
  BY Zenon DEF LimiterIInv, LimiterTypeOK, GrantBeforeAccess, ClockAhead, Evict
<1>2. ASSUME NEW ns \in Namespaces
      PROVE  Available(LimiterOf(ns))' = Available(LimiterOf(ns))
  <2>1. CASE Stale(ns)
    <3> DEFINE lim == limiters[ns]
    <3>1. lim \in Limiter /\ lim.last \in Nat /\ lim.tokens \in 0..Cap
      BY <2>1 DEF Stale, LimiterIInv, LimiterTypeOK, Limiter
    <3>2. lim.last < now - EvictAge
      BY <2>1, <3>1, LimiterAssumption DEF Stale, LimiterIInv, LimiterTypeOK, GrantBeforeAccess
    <3>3. EvictAge * Rate <= (now - lim.last) * Rate
      BY <3>1, <3>2, AccrualMonotone, LimiterAssumption DEF LimiterIInv, LimiterTypeOK
    <3>4. EvictAge * Rate >= Cap /\ (now - lim.last) * Rate \in Int /\ EvictAge * Rate \in Int
      BY <3>1, EvictAssumption, LimiterAssumption, SMT DEF LimiterIInv, LimiterTypeOK
    <3>5. Available(lim) = Cap
      BY <3>1, <3>3, <3>4, CapFacts, SMT DEF Available, Min2
    <3>6. LimiterOf(ns) = lim
      BY <2>1, Zenon DEF LimiterOf, Stale
    <3>7. limiters'[ns] = NoLimiter /\ now' = now
      BY <2>1, Zenon DEF Evict
    <3>8. Available(LimiterOf(ns))' = Available(NewLimiter)
      BY <3>7, Zenon DEF LimiterOf, NewLimiter, Available
    <3> QED
      BY <3>5, <3>6, <3>8, NewLimiterFull, Zenon DEF LimiterIInv, LimiterTypeOK
  <2>2. CASE ~Stale(ns)
    BY <2>2, Zenon DEF Evict, LimiterOf, NewLimiter, Available
  <2> QED
    BY <2>1, <2>2, Zenon
<1>3. Balance'
  BY <1>2, Zenon DEF LimiterIInv, Balance, Evict
<1> QED
  BY <1>1, <1>3, Zenon DEF LimiterIInv

(* The clock keeps the balance: the bucket gains at most what the window   *)
(* gains.                                                                  *)
LEMMA TickPreserves ==
  ASSUME LimiterIInv, LimiterTick
  PROVE  LimiterIInv'
<1>1. LimiterTypeOK' /\ GrantBeforeAccess' /\ ClockAhead'
  BY LimiterAssumption DEF LimiterIInv, LimiterTypeOK, GrantBeforeAccess, ClockAhead, LimiterTick, Advance
<1>2. ASSUME NEW ns \in Namespaces
      PROVE  (admitted[ns] * Cost + Available(LimiterOf(ns))
                <= Cap + (now - windowStart[ns]) * Rate)'
  <2> DEFINE used == admitted[ns] * Cost
  <2>1. used \in Int /\ Rate \in Nat
    BY LimiterAssumption DEF LimiterIInv, LimiterTypeOK
  <2>2. (now' - windowStart[ns]) * Rate = (now - windowStart[ns]) * Rate + Rate
    <3>1. now' - windowStart[ns] = (now - windowStart[ns]) + 1
      BY DEF LimiterTick, Advance, LimiterIInv, LimiterTypeOK
    <3> QED
      BY <3>1, OneTickMore DEF LimiterIInv, LimiterTypeOK
  <2>3. (now - windowStart[ns]) * Rate \in Int
    BY OneTickMore DEF LimiterIInv, LimiterTypeOK
  <2>4. Available(LimiterOf(ns))' <= Available(LimiterOf(ns)) + Rate
        /\ Available(LimiterOf(ns))' \in Int
    <3>1. CASE limiters[ns] = NoLimiter
      <4>1. Available(LimiterOf(ns)) = Cap
        BY <3>1, NewLimiterFull, Zenon DEF LimiterOf, LimiterIInv, LimiterTypeOK
      <4>2. (now' - now') * Rate = 0
        BY LimiterAssumption DEF LimiterTick, Advance, LimiterIInv, LimiterTypeOK
      <4>3. Available(LimiterOf(ns))' = Cap
        BY <3>1, <4>2, CapFacts DEF LimiterOf, NewLimiter, Available, Min2, LimiterTick, Advance
      <4> QED
        BY <4>1, <4>3, CapFacts, LimiterAssumption
    <3>2. CASE limiters[ns] # NoLimiter
      <4> DEFINE lim == limiters[ns]
      <4>1. lim \in Limiter /\ lim.last \in Nat /\ lim.tokens \in Nat
        BY <3>2 DEF LimiterIInv, LimiterTypeOK, Limiter
      <4>2. now' - lim.last = (now - lim.last) + 1
        BY <4>1 DEF LimiterTick, Advance, LimiterIInv, LimiterTypeOK
      <4>3. (now' - lim.last) * Rate = (now - lim.last) * Rate + Rate
            /\ (now - lim.last) * Rate \in Int
        BY <4>1, <4>2, OneTickMore DEF LimiterIInv, LimiterTypeOK
      <4>4. LimiterOf(ns) = lim /\ LimiterOf(ns)' = lim
        BY <3>2, Zenon DEF LimiterOf, LimiterTick, Advance
      <4> QED
        BY <4>1, <4>3, <4>4, <2>1, CapFacts, SMT DEF Available, Min2
    <3> QED
      BY <3>1, <3>2, Zenon
  <2>5. used + Available(LimiterOf(ns)) <= Cap + (now - windowStart[ns]) * Rate
    BY Zenon DEF LimiterIInv, Balance
  <2>6. Available(LimiterOf(ns)) \in Int
    BY LimiterOfType
  <2>7. used + Available(LimiterOf(ns))' <= Cap + ((now - windowStart[ns]) * Rate + Rate)
    BY <2>1, <2>3, <2>4, <2>5, <2>6, CapFacts, SMT
  <2> QED
    BY <2>2, <2>7, Zenon DEF LimiterTick, Advance
<1>3. Balance'
  BY <1>2, Zenon DEF Balance
<1> QED
  BY <1>1, <1>3, Zenon DEF LimiterIInv

LEMMA OpenWindowPreserves ==
  ASSUME LimiterIInv, NEW ns \in Namespaces, OpenWindow(ns)
  PROVE  LimiterIInv'
<1>1. LimiterTypeOK' /\ GrantBeforeAccess' /\ ClockAhead'
  BY DEF LimiterIInv, LimiterTypeOK, GrantBeforeAccess, ClockAhead, OpenWindow
<1>2. \A other \in Namespaces :
        Available(LimiterOf(other))' = Available(LimiterOf(other))
  BY Zenon DEF OpenWindow, LimiterOf, NewLimiter, Available
<1>3. 0 * Cost = 0 /\ (now - now) * Rate = 0
  BY LimiterAssumption, SMT DEF LimiterIInv, LimiterTypeOK
<1>4. Available(LimiterOf(ns)) <= Cap /\ Available(LimiterOf(ns)) \in Int
  BY LimiterOfType, CapFacts
<1>5. (admitted[ns] * Cost + Available(LimiterOf(ns)) <= Cap + (now - windowStart[ns]) * Rate)'
  BY <1>2, <1>3, <1>4, CapFacts DEF OpenWindow, LimiterIInv, LimiterTypeOK
<1>6. Balance'
  BY <1>2, <1>5, Zenon DEF Balance, OpenWindow, LimiterIInv, LimiterTypeOK
<1> QED
  BY <1>1, <1>6, Zenon DEF LimiterIInv

(* The type invariant and WindowBound hold in every reachable state: over  *)
(* any window a namespace is admitted at most the burst plus the accrual,  *)
(* whatever Allow, Evict and the clock do in between.                      *)
THEOREM RateLimited == LimiterSpec => [](LimiterTypeOK /\ WindowBound)
<1>1. LimiterInit => LimiterIInv
  <2> SUFFICES ASSUME LimiterInit PROVE LimiterIInv
    BY Zenon
  <2>1. LimiterTypeOK /\ GrantBeforeAccess /\ ClockAhead
    BY LimiterAssumption DEF LimiterInit, LimiterTypeOK, GrantBeforeAccess, ClockAhead
  <2>2. 0 * Cost = 0 /\ (0 - 0) * Rate = 0
    BY LimiterAssumption, SMT
  <2>3. Available(NewLimiter) = Cap
    BY <2>1, NewLimiterFull, Zenon DEF LimiterTypeOK
  <2>4. ASSUME NEW ns \in Namespaces
        PROVE  admitted[ns] * Cost + Available(LimiterOf(ns)) <= Cap + (now - windowStart[ns]) * Rate
    <3>1. LimiterOf(ns) = NewLimiter
      BY Zenon DEF LimiterInit, LimiterOf
    <3>2. admitted[ns] = 0 /\ now = 0 /\ windowStart[ns] = 0
      BY Zenon DEF LimiterInit
    <3> QED
      BY <2>2, <2>3, <3>1, <3>2, CapFacts
  <2>5. Balance
    BY <2>4, Zenon DEF Balance
  <2> QED
    BY <2>1, <2>5, Zenon DEF LimiterIInv
<1>2. LimiterIInv /\ [LimiterNext]_limiterVars => LimiterIInv'
  <2> SUFFICES ASSUME LimiterIInv, [LimiterNext]_limiterVars PROVE LimiterIInv'
    BY Zenon
  <2>1. CASE LimiterNext
    BY <2>1, AllowPreserves, EvictPreserves, TickPreserves, OpenWindowPreserves, Zenon DEF LimiterNext
  <2>2. CASE UNCHANGED limiterVars
    BY <2>2, Zenon DEF limiterVars, LimiterIInv, LimiterTypeOK, GrantBeforeAccess, ClockAhead, Balance,
                LimiterOf, NewLimiter, Available
  <2> QED
    BY <2>1, <2>2, Zenon
<1>3. LimiterIInv => LimiterTypeOK /\ WindowBound
  <2> SUFFICES ASSUME LimiterIInv, NEW ns \in Namespaces
               PROVE  LimiterTypeOK /\ admitted[ns] * Cost <= Cap + (now - windowStart[ns]) * Rate
    BY Zenon DEF WindowBound, LimiterIInv
  <2>1. admitted[ns] * Cost + Available(LimiterOf(ns)) <= Cap + (now - windowStart[ns]) * Rate
    BY Zenon DEF LimiterIInv, Balance
  <2>2. admitted[ns] * Cost \in Int /\ (now - windowStart[ns]) * Rate \in Int
    BY LimiterAssumption DEF LimiterIInv, LimiterTypeOK
  <2>3. \A a, c \in Int, b, d \in Nat : a + d <= b + c => a <= b + c
    OBVIOUS
  <2>4. Available(LimiterOf(ns)) \in Nat
    BY LimiterOfType, CapFacts
  <2> QED
    BY <2>1, <2>2, <2>3, <2>4, CapFacts, Zenon DEF LimiterIInv
<1> QED
  BY <1>1, <1>2, <1>3, PTL DEF LimiterSpec

-----------------------------------------------------------------------------
(* The notifier.                                                           *)

LEMMA DispatcherStepOf == [NotifierNext]_notifierVars => [Next]_vars
<1> SUFFICES ASSUME [NotifierNext]_notifierVars PROVE [Next]_vars
  BY Zenon
<1>1. ASSUME NEW c \in Callers, NEW n \in CorrelatedNotification,
             CallAllowed(c, n) \/ CallRefused(c, n)
      PROVE  [Next]_vars
  BY <1>1, Zenon DEF CallAllowed, CallRefused, Next
<1>2. ASSUME NEW c \in Callers, Step(c) PROVE [Next]_vars
  BY <1>2, Zenon DEF Step, Next
<1>3. CASE SweepCache \/ EvictLimiters \/ NotifierTick
  BY <1>3, Zenon DEF SweepCache, EvictLimiters, NotifierTick, Next
<1>4. ASSUME NEW ns \in Namespaces, Observe(ns) PROVE [Next]_vars
  BY <1>4, Zenon DEF Observe
<1>5. CASE UNCHANGED notifierVars
  BY <1>5, Zenon DEF notifierVars
<1> QED
  BY <1>1, <1>2, <1>3, <1>4, <1>5, Zenon DEF NotifierNext

LEMMA LimiterStepOf == [NotifierNext]_notifierVars => [LimiterNext]_limiterVars
<1> SUFFICES ASSUME [NotifierNext]_notifierVars PROVE [LimiterNext]_limiterVars
  BY Zenon
<1>1. ASSUME NEW c \in Callers, NEW n \in CorrelatedNotification,
             CallAllowed(c, n) \/ CallRefused(c, n)
      PROVE  [LimiterNext]_limiterVars
  <2>1. nsOf[n.place] \in Namespaces
    BY NotifierAssumption, Zenon DEF CorrelatedNotification
  <2> QED
    BY <1>1, <2>1, Zenon DEF CallAllowed, CallRefused, LimiterNext
<1>2. ASSUME NEW c \in Callers, Step(c) PROVE [LimiterNext]_limiterVars
  BY <1>2, Zenon DEF Step
<1>3. CASE SweepCache \/ EvictLimiters \/ NotifierTick
  BY <1>3, Zenon DEF SweepCache, EvictLimiters, NotifierTick, LimiterNext
<1>4. ASSUME NEW ns \in Namespaces, Observe(ns) PROVE [LimiterNext]_limiterVars
  BY <1>4, Zenon DEF Observe, LimiterNext
<1>5. CASE UNCHANGED notifierVars
  BY <1>5, Zenon DEF notifierVars
<1> QED
  BY <1>1, <1>2, <1>3, <1>4, <1>5, Zenon DEF NotifierNext

(* The composition of Dispatch, tryMarkSeen, Allow and the cleanup routine *)
(* implements the dispatcher with an arbitrary limiter and the limiter     *)
(* with arbitrary callers.                                                 *)
THEOREM NotifierImplementsParts == NotifierSpec => Spec /\ LimiterSpec
<1>1. NotifierInit => Init /\ LimiterInit
  BY Zenon DEF NotifierInit
<1> QED
  BY <1>1, DispatcherStepOf, LimiterStepOf, PTL DEF NotifierSpec, Spec, LimiterSpec

(* Whatever calls race, fail and are refused while the cleanup routine     *)
(* sweeps: Events of a pair keep the suppression window apart, no mark is  *)
(* without a reason, and no namespace gets more calls through than its     *)
(* burst and rate allow.                                                   *)
THEOREM NotifierCorrect ==
  NotifierSpec => []NotifierTypeOK /\ []OncePerWindow /\ []MarksExplained /\ []WindowBound
<1>1. NotifierSpec => [](sweeping \in BOOLEAN)
  <2>1. NotifierInit => sweeping \in BOOLEAN
    BY Zenon DEF NotifierInit
  <2>2. sweeping \in BOOLEAN /\ [NotifierNext]_notifierVars => (sweeping \in BOOLEAN)'
    BY Zenon DEF NotifierNext, notifierVars, CallAllowed, CallRefused, Step, SweepCache,
           EvictLimiters, NotifierTick, Observe
  <2> QED
    BY <2>1, <2>2, PTL DEF NotifierSpec
<1>2. NotifierTypeOK <=> TypeOK /\ LimiterTypeOK /\ sweeping \in BOOLEAN
  BY Zenon DEF NotifierTypeOK
<1> QED
  BY <1>1, <1>2, NotifierImplementsParts, DispatchedOncePerWindow, SilenceExplained, RateLimited, PTL

=============================================================================
