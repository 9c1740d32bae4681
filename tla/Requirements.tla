---------------------------- MODULE Requirements ----------------------------
(***************************************************************************)
(* The requirement rules (internal/requirements/rule_*.go) in the          *)
(* evaluator: Evaluate asks the registered rules one after the other, and  *)
(* a rule looks resources up with one API call after the other while the   *)
(* cluster changes.  What a rule returns is an answer of Evaluator:        *)
(* "missing" for a constraint, "present" for none.                         *)
(*                                                                         *)
(* A workload is a record of what the rules read of it: namespace (None    *)
(* for none), name, metricsPort (a container has such a port), podLabels   *)
(* and labels, sidecar (the annotation of the Istio sidecar), and the      *)
(* names in the two annotations of cert-manager, clusterIssuer and issuer. *)
(* An object has a gvr, a namespace (None for cluster-scoped ones), a      *)
(* name, a selector (a set of labels, or None) and the hosts it names,     *)
(* each a name and a namespace or None.  A namespace labelled with         *)
(* istio-injection=enabled is an object of the gvr "namespaces".           *)
(***************************************************************************)
EXTENDS Common, Evaluator, Sequences

CONSTANTS
  Workloads, Objects,
  IstioSystem      \* the namespace istio-system

(* registerRequirementRules.                                               *)
ruleOrder == <<"prometheus-monitor", "istio-routing", "istio-mtls", "cert-issuer">>

ASSUME KeysAssumption == Keys = Workloads \X {"prometheus-monitor", "istio-routing", "istio-mtls", "cert-issuer"}

(* ClusterIssuers are cluster-scoped.                                      *)
ASSUME ObjectsAssumption == \A o \in Objects : o.gvr = "clusterissuers" => o.namespace = None

VARIABLES
  cluster,       \* the objects there are
  rules,         \* the rules Evaluate has yet to ask, by their position
  lookups,       \* the lookups that the rule at work has yet to make
  lacked,        \* history: at a moment since the rule began the workload lacked its companion
  supplied,      \* history: since then a companion appeared, or the need for one ended
  unreachable    \* history: since then istio-system could not be listed

during == <<lacked, supplied, unreachable>>
allVars == <<evaluatorVars, cluster, rules, lookups, during>>

-----------------------------------------------------------------------------
(* DynamicEvalContext.                                                     *)
ListByGVR(gvr, ns) == {o \in cluster : o.gvr = gvr /\ o.namespace = ns}

FindMatchingResources(gvr, ns, labels) ==
  {o \in ListByGVR(gvr, ns) : o.selector # None /\ o.selector \subseteq labels}

(* A lookup: what it lists, in which namespace, and what the rule makes of *)
(* it.  Without what a "condition" looks for nothing is required; an       *)
(* "optional" lookup that fails is passed over.                            *)
Lookup(gvr, ns, role) == [gvr |-> gvr, in |-> ns, role |-> role]
Companion(gvr, ns) == Lookup(gvr, ns, "companion")

podLabels(w) == IF w.podLabels # {} THEN w.podLabels ELSE w.labels

hostMatchesWorkload(host, w) == host.name = w.name /\ host.namespace \in {None, w.namespace}

hasMeshWidePA(o) == o.selector \in {None, {}}

(* What the rule accepts of the objects that a lookup lists.               *)
Found(w, q) ==
  LET listed == ListByGVR(q.gvr, q.in)
  IN  CASE q.gvr \in {"servicemonitors", "podmonitors"} -> FindMatchingResources(q.gvr, q.in, podLabels(w)) # {}
        [] q.gvr \in {"virtualservices", "destinationrules"} ->
             \E o \in listed : \E host \in o.hosts : hostMatchesWorkload(host, w)
        [] q.gvr = "namespaces" -> listed # {}
        [] q.gvr = "peerauthentications" ->
             IF q.role = "optional" THEN \E o \in listed : hasMeshWidePA(o) ELSE listed # {}
        [] q.gvr = "clusterissuers" -> \E o \in listed : o.name = w.clusterIssuer
        [] q.gvr = "issuers" -> \E o \in listed : o.name = w.issuer

(* The lookups each rule makes for a workload, none when it returns before *)
(* the first.                                                              *)
prometheusMonitorRule(w) ==
  IF ~w.metricsPort \/ w.namespace = None \/ podLabels(w) = {} THEN <<>>
  ELSE <<Companion("servicemonitors", w.namespace), Companion("podmonitors", w.namespace)>>

istioRoutingRule(w) ==
  IF ~w.sidecar \/ w.namespace = None THEN <<>>
  ELSE <<Companion("virtualservices", w.namespace), Companion("destinationrules", w.namespace)>>

istioMTLSRule_OwnOnly(w) ==
  IF w.namespace = None THEN <<>>
  ELSE <<Lookup("namespaces", w.namespace, "condition"), Companion("peerauthentications", w.namespace)>>

istioMTLSRule(w) ==
  IF w.namespace = None THEN <<>>
  ELSE <<Lookup("namespaces", w.namespace, "condition"), Companion("peerauthentications", w.namespace)>>
       \o IF w.namespace = IstioSystem THEN <<>> ELSE <<Lookup("peerauthentications", IstioSystem, "optional")>>

certIssuerRule(w) ==
  IF w.clusterIssuer # None THEN <<Companion("clusterissuers", None)>>
  ELSE IF w.issuer # None /\ w.namespace # None THEN <<Companion("issuers", w.namespace)>> ELSE <<>>

LookupsOf(w, rule) ==
  CASE rule = "prometheus-monitor" -> prometheusMonitorRule(w)
    [] rule = "istio-routing" -> istioRoutingRule(w)
    [] rule = "istio-mtls" -> istioMTLSRule(w)
    [] rule = "cert-issuer" -> certIssuerRule(w)

-----------------------------------------------------------------------------
(* What the rules stand for, of a cluster that is looked at as a whole.    *)
Needs(w, rule, objects) ==
  CASE rule = "prometheus-monitor" -> w.metricsPort /\ w.namespace # None /\ podLabels(w) # {}
    [] rule = "istio-routing" -> w.sidecar /\ w.namespace # None
    [] rule = "istio-mtls" -> \E o \in objects : o.gvr = "namespaces" /\ o.namespace = w.namespace
    [] rule = "cert-issuer" -> w.clusterIssuer # None \/ (w.issuer # None /\ w.namespace # None)

IsCompanion(w, rule, o) ==
  CASE rule = "prometheus-monitor" ->
         /\ o.gvr \in {"servicemonitors", "podmonitors"} /\ o.namespace = w.namespace
         /\ o.selector # None /\ o.selector \subseteq podLabels(w)
    [] rule = "istio-routing" ->
         /\ o.gvr \in {"virtualservices", "destinationrules"} /\ o.namespace = w.namespace
         /\ \E host \in o.hosts : hostMatchesWorkload(host, w)
    [] rule = "istio-mtls" ->
         /\ o.gvr = "peerauthentications"
         /\ o.namespace = w.namespace \/ (o.namespace = IstioSystem /\ hasMeshWidePA(o))
    [] rule = "cert-issuer" ->
         IF w.clusterIssuer # None THEN o.gvr = "clusterissuers" /\ o.name = w.clusterIssuer
         ELSE o.gvr = "issuers" /\ o.name = w.issuer /\ o.namespace = w.namespace

Lacks(k, objects) == Needs(k[1], k[2], objects) /\ ~ \E o \in objects : IsCompanion(k[1], k[2], o)

-----------------------------------------------------------------------------
ReqInit ==
  /\ EvaluatorInit
  /\ cluster \in SUBSET Objects
  /\ rules = <<>> /\ lookups = <<>>
  /\ lacked = FALSE /\ supplied = FALSE /\ unreachable = FALSE

(* The cluster changes, whatever Evaluate is about.                        *)
Change(o) ==
  /\ cluster' = IF o \in cluster THEN cluster \ {o} ELSE cluster \union {o}
  /\ lacked' = (lacked \/ Lacks(key, cluster'))
  /\ supplied' = (supplied \/ IF o \in cluster THEN o.gvr = "namespaces" /\ o.namespace = key[1].namespace
                                ELSE IsCompanion(key[1], key[2], o))
  /\ UNCHANGED <<evaluatorVars, rules, lookups, unreachable>>

BeginRule(k) ==
  /\ lookups' = LookupsOf(k[1], k[2])
  /\ lacked' = Lacks(k, cluster) /\ supplied' = FALSE /\ unreachable' = FALSE
  /\ UNCHANGED cluster

Evaluate(w) ==
  /\ rules = <<>>
  /\ StartEvaluate(<<w, ruleOrder[1]>>) /\ BeginRule(<<w, ruleOrder[1]>>)
  /\ rules' = Tail(ruleOrder)

EvaluateNext ==
  /\ rules # <<>>
  /\ LET k == <<key[1], Head(rules)>>
     IN  NextRule(k) /\ BeginRule(k)
  /\ rules' = Tail(rules)

RuleReturns(answer) == RuleEvaluate(answer) /\ UNCHANGED lookups

(* The lookup leaves it open: on to the next one, after the last of which  *)
(* the rule returns its constraint.                                        *)
LookFurther ==
  IF Len(lookups) = 1 THEN RuleReturns("missing")
  ELSE lookups' = Tail(lookups) /\ UNCHANGED evaluatorVars

NothingRequired ==
  /\ pc = "rule" /\ lookups = <<>>
  /\ RuleReturns("present")
  /\ UNCHANGED <<cluster, rules, during>>

LookUp ==
  /\ pc = "rule" /\ lookups # <<>>
  /\ LET q == Head(lookups)
     IN  IF Found(key[1], q) = (q.role = "condition") THEN LookFurther ELSE RuleReturns("present")
  /\ UNCHANGED <<cluster, rules, during>>

LookupFails ==
  /\ pc = "rule" /\ lookups # <<>>
  /\ IF Head(lookups).role = "optional"
     THEN LookFurther /\ unreachable' = TRUE
     ELSE RuleFails /\ UNCHANGED <<lookups, unreachable>>
  /\ UNCHANGED <<cluster, rules, lacked, supplied>>

ReqNext ==
  \/ \E w \in Workloads : Evaluate(w)
  \/ EvaluateNext \/ NothingRequired \/ LookUp \/ LookupFails
  \/ \E o \in Objects : Change(o)
  \/ (ClearDebounce \/ Debounce \/ CleanupStaleEntries \/ Tick) /\ UNCHANGED <<cluster, rules, lookups, during>>

ReqSpec == ReqInit /\ [][ReqNext]_allVars

-----------------------------------------------------------------------------
(* Properties.                                                             *)

(* A rule finds a companion missing only if the workload lacked it at some *)
(* moment since the rule began.  There are two exceptions: the companion   *)
(* went, but another had come behind the lookup that would have found it,  *)
(* or the namespace had left the mesh behind the one that asked; and       *)
(* istio-system, where a policy for the whole mesh may be, could not be    *)
(* listed.                                                                 *)
MissingExplained ==
  [][pc = "rule" /\ pc' = "missing" => lacked \/ supplied \/ unreachable']_allVars

=============================================================================
