-------------------------- MODULE ReportReconciler --------------------------
(***************************************************************************)
(* The ConstraintReport reconciler (internal/notifier/report_reconciler.go)*)
(* fed by the change callbacks of the index (cmd/controller/main.go).      *)
(*                                                                         *)
(* Writers are the informer goroutines.  A writer changes the index in one *)
(* step and runs the change callback in a later one, because the indexer   *)
(* calls it after releasing its mutex.  The reconciler's only goroutine    *)
(* swaps out the pending triggers on a tick and then works through them:   *)
(* it skips and re-queues a namespace it reconciled less than the debounce *)
(* duration ago, else it reads the index and later writes the report.      *)
(* What a report says is the set of constraints it was built from.         *)
(* The debounce clock is a flag per namespace that a later step clears.    *)
(***************************************************************************)
EXTENDS Common, Integers, FiniteSets

CONSTANTS
  AllNamespaces,   \* names of namespaces
  LateNamespaces,  \* those that do not exist at the start
  UIDs,            \* UIDs of constraints
  Scopes,          \* the scopes (namespace, affected namespaces) of each UID
  MaxRev,          \* bound on the revision of a constraint
  Writers,         \* goroutines that change the index
  InitialReports,  \* what a report may say when the program starts
  MaxChanges,      \* bound on changes of the index
  MaxFailures,     \* bound on API calls that fail
  NoConstraint, ClusterScope

INSTANCE Indexer

Scope == [namespace : AllNamespaces \union {ClusterScope}, affected : SUBSET AllNamespaces]
Constraint == [uid : UIDs, namespace : AllNamespaces \union {ClusterScope},
               affected : SUBSET AllNamespaces, rev : 0..MaxRev]

ASSUME ReportAssumption ==
  /\ LateNamespaces \subseteq AllNamespaces
  /\ Scopes \in [UIDs -> SUBSET Scope]
  /\ InitialReports \subseteq SUBSET Constraint
  /\ MaxRev \in Nat /\ MaxChanges \in Nat /\ MaxFailures \in Nat
  /\ NoConstraint \notin Constraint /\ None \notin Constraint
  /\ None \notin [ns : AllNamespaces, cs : SUBSET Constraint]
  /\ ClusterScope \notin AllNamespaces

VARIABLES
  byUID,                 \* the index
  callback,              \* per writer: the constraint its callback is about to report
  pendingTriggers,       \* ReportReconciler.pendingTriggers
  clusterWideTriggered,  \* ReportReconciler.clusterWideTriggered
  listing,               \* the namespaces are about to be listed
  triggers,              \* namespaces processPendingTriggers has still to visit
  current,               \* namespace being reconciled, with what was read for it
  recent,                \* namespaces reconciled within the debounce duration
  reported,              \* cluster: the namespaces that have a report
  report,                \* cluster: what the report of each namespace says
  exists,                \* cluster: the namespaces that exist
  missed,                \* history: namespaces that nothing will bring up to date
  changes, failedCalls   \* how much of the bounds is used

reportVars == <<byUID, callback, pendingTriggers, clusterWideTriggered, listing, triggers, current,
          recent, reported, report, exists, missed, changes, failedCalls>>
queues == <<pendingTriggers, clusterWideTriggered, listing, triggers, current, recent>>

ReportTypeOK ==
  /\ byUID \in [UIDs -> Constraint \union {NoConstraint}]
  /\ callback \in [Writers -> Constraint \union {None}]
  /\ pendingTriggers \subseteq AllNamespaces /\ triggers \subseteq AllNamespaces
  /\ clusterWideTriggered \in BOOLEAN /\ listing \in BOOLEAN
  /\ current \in [ns : AllNamespaces, cs : SUBSET Constraint] \union {None}
  /\ recent \subseteq AllNamespaces /\ exists \subseteq AllNamespaces /\ missed \subseteq AllNamespaces
  /\ report \in [AllNamespaces -> SUBSET Constraint] /\ reported \subseteq AllNamespaces
  /\ changes \in 0..MaxChanges /\ failedCalls \in 0..MaxFailures

ReportInit ==
  /\ byUID = [u \in UIDs |-> NoConstraint]
  /\ callback = [w \in Writers |-> None]
  /\ pendingTriggers = {} /\ clusterWideTriggered = FALSE
  /\ listing = FALSE /\ triggers = {} /\ current = None
  /\ recent = {}
  /\ exists = AllNamespaces \ LateNamespaces
  /\ reported \in SUBSET exists
  /\ report \in [AllNamespaces -> InitialReports \union {{}}]
  /\ \A ns \in AllNamespaces \ reported : report[ns] = {}
  /\ missed = {ns \in AllNamespaces : report[ns] # {}}
  /\ changes = 0 /\ failedCalls = 0

-----------------------------------------------------------------------------
(* The namespaces OnIndexChange triggers for a constraint.                 *)
triggered(c) ==
  c.affected \union (IF c.namespace = ClusterScope THEN {} ELSE {c.namespace})

(* A cluster-scoped constraint that lists no namespaces triggers them all. *)
ClusterWide(c) == c.namespace = ClusterScope /\ triggered(c) = {}
Triggers(c, ns) == ns \in triggered(c) \/ ClusterWide(c)

-----------------------------------------------------------------------------
(* Changes of the index.                                                   *)

(* Namespaces that a change from old to new concerns and that its callback *)
(* will not trigger: those that only the old scope held (the event carries *)
(* the new constraint), and those that a cluster-scoped constraint does    *)
(* not list although it applies to them.                                   *)
Concerns(c, ns) == c # NoConstraint /\ matchesNamespace(c, ns)
Unheard(old, new, event) ==
  {ns \in AllNamespaces : (Concerns(old, ns) \/ Concerns(new, ns)) /\ ~Triggers(event, ns)}

UpsertConstraint(w, c) ==
  /\ changes < MaxChanges
  /\ callback[w] = None
  /\ byUID[c.uid] # c
  /\ c.namespace \in exists \union {ClusterScope}
  /\ byUID' = Upsert(byUID, c)
  /\ callback' = [callback EXCEPT ![w] = c]
  /\ missed' = missed \union Unheard(byUID[c.uid], c, c)
  /\ changes' = changes + 1
  /\ UNCHANGED <<queues, reported, report, exists, failedCalls>>

DeleteConstraint(w, uid) ==
  /\ changes < MaxChanges
  /\ callback[w] = None
  /\ byUID[uid] # NoConstraint
  /\ byUID' = Delete(byUID, uid)
  /\ callback' = [callback EXCEPT ![w] = byUID[uid]]
  /\ missed' = missed \union Unheard(byUID[uid], NoConstraint, byUID[uid])
  /\ changes' = changes + 1
  /\ UNCHANGED <<queues, reported, report, exists, failedCalls>>

(* Nothing watches namespaces.                                             *)
CreateNamespace(ns) ==
  /\ ns \notin exists
  /\ exists' = exists \union {ns}
  /\ missed' = missed \union {ns}
  /\ UNCHANGED <<byUID, callback, queues, reported, report, changes, failedCalls>>

-----------------------------------------------------------------------------
OnIndexChange(w) ==
  /\ callback[w] # None
  /\ LET c == callback[w]
     IN  IF ClusterWide(c)
         THEN clusterWideTriggered' = TRUE /\ UNCHANGED pendingTriggers
         ELSE pendingTriggers' = pendingTriggers \union triggered(c)
              /\ UNCHANGED clusterWideTriggered
  /\ callback' = [callback EXCEPT ![w] = None]
  /\ UNCHANGED <<byUID, listing, triggers, current, recent, reported, report, exists, missed, changes, failedCalls>>

-----------------------------------------------------------------------------
(* processPendingTriggers, one step per critical section or API call.      *)

Idle == ~listing /\ triggers = {} /\ current = None

SwapTriggers_OnlyPending ==
  /\ Idle
  /\ pendingTriggers # {}
  /\ triggers' = pendingTriggers /\ pendingTriggers' = {}
  /\ listing' = clusterWideTriggered /\ clusterWideTriggered' = FALSE
  /\ UNCHANGED <<byUID, callback, current, recent, reported, report, exists, missed, changes, failedCalls>>

SwapTriggers ==
  /\ Idle
  /\ pendingTriggers # {} \/ clusterWideTriggered
  /\ triggers' = pendingTriggers /\ pendingTriggers' = {}
  /\ listing' = clusterWideTriggered /\ clusterWideTriggered' = FALSE
  /\ UNCHANGED <<byUID, callback, current, recent, reported, report, exists, missed, changes, failedCalls>>

ListNamespaces ==
  /\ listing /\ listing' = FALSE
  /\ triggers' = triggers \union exists
  /\ UNCHANGED <<byUID, callback, pendingTriggers, clusterWideTriggered, current, recent,
                 reported, report, exists, missed, changes, failedCalls>>

(* The error is logged; the cluster-wide trigger is gone.                  *)
ListFails ==
  /\ failedCalls < MaxFailures /\ failedCalls' = failedCalls + 1
  /\ listing /\ listing' = FALSE
  /\ missed' = missed \union exists
  /\ UNCHANGED <<byUID, callback, pendingTriggers, clusterWideTriggered, triggers, current,
                 recent, reported, report, exists, changes>>

(* Debounced: queue the namespace again.                                   *)
Requeue_Dropped(ns) ==
  /\ ~listing /\ current = None /\ ns \in triggers
  /\ ns \in recent
  /\ triggers' = triggers \ {ns}
  /\ UNCHANGED <<byUID, callback, pendingTriggers, clusterWideTriggered, listing, current,
                 recent, reported, report, exists, missed, changes, failedCalls>>

Requeue(ns) ==
  /\ ~listing /\ current = None /\ ns \in triggers
  /\ ns \in recent
  /\ triggers' = triggers \ {ns}
  /\ pendingTriggers' = pendingTriggers \union {ns}
  /\ UNCHANGED <<byUID, callback, clusterWideTriggered, listing, current, recent, reported,
                 report, exists, missed, changes, failedCalls>>

(* ReconcileNamespace reads the index.                                     *)
ReadIndex(ns) ==
  /\ ~listing /\ current = None /\ ns \in triggers
  /\ ns \notin recent
  /\ triggers' = triggers \ {ns}
  /\ missed' = missed \ {ns}
  /\ current' = [ns |-> ns, cs |-> ByNamespace(byUID, ns)]
  /\ UNCHANGED <<byUID, callback, pendingTriggers, clusterWideTriggered, listing, recent,
                 reported, report, exists, changes, failedCalls>>

(* ... and writes the report: Status().Update of one that exists, Create   *)
(* of one that does not.  The resource has a status subresource, so the    *)
(* API server stores the created report without the status it came with.   *)
WriteReport ==
  /\ current # None
  /\ current.ns \in exists
  /\ IF current.ns \in reported
     THEN report' = [report EXCEPT ![current.ns] = current.cs] /\ UNCHANGED <<reported, missed>>
     ELSE /\ reported' = reported \union {current.ns} /\ missed' = missed \union {current.ns}
          /\ UNCHANGED report
  /\ recent' = recent \union {current.ns}
  /\ current' = None
  /\ UNCHANGED <<byUID, callback, pendingTriggers, clusterWideTriggered, listing, triggers,
                 exists, changes, failedCalls>>

(* Get, Create or Update fails: the error is logged and the trigger gone.  *)
WriteFails ==
  /\ current # None
  /\ IF current.ns \in exists
     THEN failedCalls < MaxFailures /\ failedCalls' = failedCalls + 1
     ELSE UNCHANGED failedCalls
  /\ missed' = missed \union {current.ns}
  /\ current' = None
  /\ UNCHANGED <<byUID, callback, pendingTriggers, clusterWideTriggered, listing, triggers,
                 recent, reported, report, exists, changes>>

(* The debounce duration since the last report of ns has passed.           *)
DebounceOver(ns) ==
  /\ ns \in recent
  /\ recent' = recent \ {ns}
  /\ UNCHANGED <<byUID, callback, pendingTriggers, clusterWideTriggered, listing, triggers,
                 current, reported, report, exists, missed, changes, failedCalls>>

Constraints(u) == {[uid |-> u, namespace |-> s.namespace, affected |-> s.affected, rev |-> r] :
                     s \in Scopes[u], r \in 0..MaxRev}

IndexChange ==
  \E w \in Writers, u \in UIDs :
    DeleteConstraint(w, u) \/ \E c \in Constraints(u) : UpsertConstraint(w, c)

Visit(ns) == Requeue(ns) \/ ReadIndex(ns)

ReportNext ==
  \/ IndexChange
  \/ \E ns \in AllNamespaces : CreateNamespace(ns) \/ Visit(ns) \/ DebounceOver(ns)
  \/ \E w \in Writers : OnIndexChange(w)
  \/ SwapTriggers \/ ListNamespaces \/ ListFails \/ WriteReport \/ WriteFails

ReportSpec == ReportInit /\ [][ReportNext]_reportVars

(* The informer goroutines finish their callbacks, the ticker keeps        *)
(* ticking, the loop over the triggers ends, and time passes.              *)
Fairness ==
  /\ \A w \in Writers : WF_reportVars(OnIndexChange(w))
  /\ WF_reportVars(SwapTriggers) /\ WF_reportVars(ListNamespaces)
  /\ WF_reportVars(WriteReport \/ WriteFails)
  /\ \A ns \in AllNamespaces : WF_reportVars(Visit(ns)) /\ WF_reportVars(DebounceOver(ns))

FairReportSpec == ReportSpec /\ Fairness

-----------------------------------------------------------------------------
(* Properties.                                                             *)

UpToDate(ns) == report[ns] = ByNamespace(byUID, ns)

(* A change of the index that the report of ns misses is on its way: a     *)
(* callback has still to run, or the namespace is queued, or the           *)
(* cluster-wide trigger or the listing it causes will queue it.            *)
Announced(ns) ==
  \/ \E w \in Writers : callback[w] # None /\ Triggers(callback[w], ns)
  \/ ns \in pendingTriggers \/ ns \in triggers
  \/ clusterWideTriggered \/ listing

(* No update is lost unaccounted for.  While the report of a namespace, or *)
(* what is about to be written to it, differs from the index, something is *)
(* pending that will reconcile it again, or since its last reconciliation  *)
(* one of these happened, after which the code queues nothing: an API      *)
(* error was logged; the report was created, which drops its status; the   *)
(* namespace came into being; a constraint it is outside the scope of now  *)
(* changed; an earlier run of the program left the report behind.          *)
NoLostUpdate ==
  \A ns \in exists :
    LET busy == current # None /\ current.ns = ns
    IN  /\ busy /\ current.cs # ByNamespace(byUID, ns) => Announced(ns) \/ ns \in missed
        /\ ~busy /\ ~UpToDate(ns) => Announced(ns) \/ ns \in missed

(* "ConstraintReports always updated": once the policies stay as they are, *)
(* the report of every namespace becomes and stays what the index says,    *)
(* those aside that one of the gaps above concerns.                        *)
ReportsConverge == <>[](\A ns \in exists : UpToDate(ns) \/ ns \in missed)

=============================================================================
