-------------------------- MODULE ControllerProofs --------------------------
(***************************************************************************)
(* Proofs about the requirement evaluator with its rules, about the        *)
(* adapter registry, and about what the controller serves: the warnings an *)
(* admission request gets (Admission), and the event stream of the MCP     *)
(* server (McpStream).                                                     *)
(*                                                                         *)
(* A companion resource is reported as missing after the debounce duration *)
(* and not before, unless its entry was cleaned up, for any number of      *)
(* workloads and rules, any duration, and any interleaving of evaluations, *)
(* failing rules and cleanups.                                             *)
(*                                                                         *)
(* The rules, whatever they look up and however the cluster changes while  *)
(* they do, are rules as the evaluator's specification has them.  What is  *)
(* proved of the evaluator is thereby true of it with its rules.  And a    *)
(* rule finds a companion missing only if it was missing at a moment of    *)
(* its work, or in two exceptions.                                         *)
(*                                                                         *)
(* The group index of the adapter registry never forgets a group that      *)
(* still has a mapped GVR, whatever adapters are registered, whatever they *)
(* handle, and whichever registrations fail half way; and the adapter of a *)
(* group is replaced only when it leaves the registry.                     *)
(***************************************************************************)
EXTENDS Requirements, Registry, Admission, McpStream, TLAPS

-----------------------------------------------------------------------------
(* The evaluator.                                                          *)

(* Why the debounce map can be trusted: an entry is no older than the      *)
(* findings it stands for, except while Evaluate is about to clear it.     *)
(* Conversely, findings have an entry that is no younger, except while     *)
(* Evaluate is about to make it and after a cleanup.                       *)
Clearing(k) == pc = "present" /\ key = k
Backed(k) == foundSince[k] # Never /\ foundSince[k] <= firstSeen[k]
Entered(k) == firstSeen[k] # Never /\ firstSeen[k] <= foundSince[k]
Entering(k) == pc = "missing" /\ key = k /\ foundSince[k] = started

Aged ==
  /\ started <= now
  /\ \A k \in Keys : foundSince[k] # Never => foundSince[k] <= started
  /\ pc = "missing" => foundSince[key] # Never
  /\ \A k \in Keys : firstSeen[k] # Never => Backed(k) \/ Clearing(k)
  /\ \A k \in Keys : firstSeen[k] # Never => firstSeen[k] <= started
  /\ pc = "present" => foundSince[key] = Never
  /\ \A k \in Keys : foundSince[k] # Never => Entered(k) \/ Entering(k) \/ k \in forgotten

EvaluatorInv == EvaluatorTypeOK /\ Aged

LEMMA TimeIsNat ==
  Time \subseteq Nat /\ Never \notin Time /\ 0 \in Time
  BY EvaluatorAssumption DEF Time

LEMMA EvaluatorStarts ==
  EvaluatorInit => EvaluatorInv
  BY TimeIsNat DEF EvaluatorInit, EvaluatorInv, EvaluatorTypeOK, Aged, Steps

LEMMA EvaluatorTypes ==
  EvaluatorTypeOK /\ [EvaluatorNext]_evaluatorVars => EvaluatorTypeOK'
<1> SUFFICES ASSUME EvaluatorTypeOK, [EvaluatorNext]_evaluatorVars PROVE EvaluatorTypeOK'
  BY Zenon
<1> USE TimeIsNat, EvaluatorAssumption DEF EvaluatorTypeOK, Steps
<1>1. ASSUME NEW k \in Keys, NextRule(k) PROVE EvaluatorTypeOK'
  BY <1>1, Zenon DEF NextRule
<1>2. ASSUME NEW k \in Keys, StartEvaluate(k) PROVE EvaluatorTypeOK'
  BY <1>2, Zenon DEF StartEvaluate
<1>3. ASSUME NEW answer \in {"missing", "present"}, RuleEvaluate(answer) PROVE EvaluatorTypeOK'
  BY <1>3, Zenon DEF RuleEvaluate
<1>4. CASE RuleFails
  BY <1>4, Zenon DEF RuleFails
<1>5. CASE ClearDebounce
  BY <1>5, Zenon DEF ClearDebounce
<1>6. CASE Debounce
  BY <1>6, Zenon DEF Debounce
<1>7. CASE CleanupStaleEntries
  BY <1>7, Zenon DEF CleanupStaleEntries
<1>8. CASE Tick
  BY <1>8 DEF Tick, Time
<1>9. CASE UNCHANGED evaluatorVars
  BY <1>9, Zenon DEF evaluatorVars
<1> QED BY <1>1, <1>2, <1>3, <1>4, <1>5, <1>6, <1>7, <1>8, <1>9, Zenon DEF EvaluatorNext

LEMMA EvaluatorAges ==
  EvaluatorInv /\ [EvaluatorNext]_evaluatorVars => Aged'
<1> SUFFICES ASSUME EvaluatorTypeOK, Aged, [EvaluatorNext]_evaluatorVars PROVE Aged'
  BY Zenon DEF EvaluatorInv
<1> USE TimeIsNat, EvaluatorAssumption DEF EvaluatorTypeOK, Aged, Backed, Clearing, Entered, Entering
<1>1. ASSUME NEW k \in Keys, NextRule(k) PROVE Aged'
  BY <1>1, Zenon DEF NextRule
<1>2. ASSUME NEW k \in Keys, StartEvaluate(k) PROVE Aged'
  <2>1. pc = "idle" /\ pc' = "rule" /\ started' = now /\ UNCHANGED <<now, firstSeen, foundSince>>
    BY <1>2, Zenon DEF StartEvaluate
  <2>2. \A j \in Keys : foundSince[j] # Never => foundSince[j] \in Nat /\ foundSince[j] <= now
    <3>1. now \in Nat /\ started \in Nat /\ started <= now
      BY Zenon
    <3>2. \A j \in Keys : foundSince[j] # Never => foundSince[j] \in Nat /\ foundSince[j] <= started
      BY Zenon
    <3> HIDE DEF EvaluatorTypeOK, Aged
    <3> QED BY <3>1, <3>2
  <2>3. \A j \in Keys : firstSeen[j] # Never => Backed(j)
    BY <2>1, Zenon
  <2>4. \A j \in Keys : firstSeen[j] # Never => firstSeen[j] \in Nat /\ firstSeen[j] <= now
    <3>1. now \in Nat /\ started \in Nat /\ started <= now
      BY Zenon
    <3>2. \A j \in Keys : firstSeen[j] # Never => firstSeen[j] \in Nat /\ firstSeen[j] <= started
      BY Zenon
    <3> HIDE DEF EvaluatorTypeOK, Aged
    <3> QED BY <3>1, <3>2
  <2>5. \A j \in Keys : foundSince[j] # Never => Entered(j) \/ j \in forgotten
    BY <2>1, Zenon
  <2>6. forgotten' = forgotten
    BY <1>2, Zenon DEF StartEvaluate
  <2> QED BY <2>1, <2>2, <2>3, <2>4, <2>5, <2>6
<1>3. ASSUME NEW answer \in {"missing", "present"}, RuleEvaluate(answer) PROVE Aged'
  BY <1>3 DEF RuleEvaluate
<1>4. CASE RuleFails
  BY <1>4, Zenon DEF RuleFails
<1>5. CASE ClearDebounce
  BY <1>5, Zenon DEF ClearDebounce
<1>6. CASE Debounce
  BY <1>6 DEF Debounce
<1>7. CASE CleanupStaleEntries
  BY <1>7, Zenon DEF CleanupStaleEntries
<1>8. CASE Tick
  BY <1>8 DEF Tick
<1>9. CASE UNCHANGED evaluatorVars
  BY <1>9, Zenon DEF evaluatorVars
<1> QED BY <1>1, <1>2, <1>3, <1>4, <1>5, <1>6, <1>7, <1>8, <1>9, Zenon DEF EvaluatorNext

Exact ==
  \A k \in Keys :
    /\ k \in told' \ told => foundSince[k] # Never /\ started - foundSince[k] >= Duration
    /\ pc = "missing" /\ pc' = "idle" /\ key = k /\ k \notin told' =>
         started - foundSince[k] < Duration \/ k \in forgotten

(* Only Debounce reports, or withholds; an entry it finds in the map is as *)
(* old as the findings unless the map has forgotten one.                   *)
LEMMA StepExact ==
  EvaluatorInv /\ [EvaluatorNext]_evaluatorVars => [Exact]_evaluatorVars
<1> SUFFICES ASSUME EvaluatorTypeOK, Aged, EvaluatorNext, NEW k \in Keys
             PROVE  /\ k \in told' \ told => foundSince[k] # Never /\ started - foundSince[k] >= Duration
                    /\ pc = "missing" /\ pc' = "idle" /\ key = k /\ k \notin told' =>
                         started - foundSince[k] < Duration \/ k \in forgotten
  BY Zenon DEF EvaluatorInv, Exact, evaluatorVars
<1>1. k \in told' \ told \/ (pc = "missing" /\ pc' = "idle" /\ key = k) => Debounce /\ k = key
  <2>1. CASE Debounce
    BY <2>1, Zenon DEF Debounce
  <2>2. CASE \E j \in Keys : StartEvaluate(j) \/ NextRule(j)
    BY <2>2, Zenon DEF StartEvaluate, NextRule
  <2>3. CASE \E answer \in {"missing", "present"} : RuleEvaluate(answer)
    BY <2>3, Zenon DEF RuleEvaluate
  <2>4. CASE RuleFails \/ ClearDebounce
    BY <2>4, Zenon DEF RuleFails, ClearDebounce
  <2>5. CASE CleanupStaleEntries \/ Tick
    BY <2>5, Zenon DEF CleanupStaleEntries, Tick
  <2> QED BY <2>1, <2>2, <2>3, <2>4, <2>5, Zenon DEF EvaluatorNext
<1>2. SUFFICES ASSUME Debounce, k = key
               PROVE  /\ k \in told' => foundSince[k] # Never /\ started - foundSince[k] >= Duration
                      /\ k \notin told' => started - foundSince[k] < Duration \/ k \in forgotten
  BY <1>1, Zenon
<1>3. k \in told' <=> started - firstSeen'[k] >= Duration
  BY <1>2, Zenon DEF Debounce
<1>4. started \in Nat /\ Duration \in Nat \ {0} /\ foundSince[k] \in Nat
  BY <1>2, TimeIsNat, EvaluatorAssumption, Zenon DEF Debounce, EvaluatorTypeOK, Aged
<1>5. CASE firstSeen[k] = Never
  <2>1. firstSeen'[k] = started
    BY <1>2, <1>5, Zenon DEF Debounce, EvaluatorTypeOK
  <2>2. foundSince[k] = started \/ k \in forgotten
    BY <1>2, <1>4, <1>5, EvaluatorAssumption, Zenon DEF Aged, Entered, Entering
  <2> QED BY <1>3, <1>4, <2>1, <2>2
<1>6. CASE firstSeen[k] # Never
  <2>1. firstSeen'[k] = firstSeen[k]
    BY <1>2, <1>6, Zenon DEF Debounce, EvaluatorTypeOK
  <2>2. firstSeen[k] \in Nat /\ firstSeen[k] <= started
    BY <1>6, TimeIsNat, Zenon DEF EvaluatorTypeOK, Aged
  <2>3. Backed(k)
    BY <1>2, <1>6, Zenon DEF Debounce, Aged, Clearing
  <2>4. firstSeen[k] <= foundSince[k] \/ k \in forgotten
    BY <1>4, <2>2, EvaluatorAssumption, Zenon DEF Aged, Entered, Entering
  <2> QED BY <1>3, <1>4, <2>1, <2>2, <2>3, <2>4 DEF Backed
<1> QED BY <1>5, <1>6, Zenon

LEMMA EvaluatorInvariant ==
  EvaluatorSpec => []EvaluatorInv
<1>1. EvaluatorInit => EvaluatorInv
  BY EvaluatorStarts, Zenon
<1>2. EvaluatorInv /\ [EvaluatorNext]_evaluatorVars => EvaluatorInv'
  BY EvaluatorTypes, EvaluatorAges, Zenon DEF EvaluatorInv
<1> QED BY <1>1, <1>2, PTL DEF EvaluatorSpec

(* Evaluate reports a resource exactly when the evaluations that could tell *)
(* found it missing for at least the debounce duration, unless              *)
(* CleanupStaleEntries removed the entry in between.                        *)
THEOREM ReportsDebounced ==
  EvaluatorSpec => []EvaluatorTypeOK /\ DebounceExact
<1>1. EvaluatorSpec => []EvaluatorInv
  BY EvaluatorInvariant, Zenon
<1>2. EvaluatorInv => EvaluatorTypeOK
  BY Zenon DEF EvaluatorInv
<1>3. EvaluatorInv /\ [EvaluatorNext]_evaluatorVars => [Exact]_evaluatorVars
  BY StepExact, Zenon
<1>4. DebounceExact <=> [][Exact]_evaluatorVars
  BY Zenon DEF DebounceExact, Exact
<1> QED BY <1>1, <1>2, <1>3, <1>4, PTL DEF EvaluatorSpec

-----------------------------------------------------------------------------
(* The evaluator with its rules.                                           *)

RuleNames == {"prometheus-monitor", "istio-routing", "istio-mtls", "cert-issuer"}

(* Evaluate goes through the rules in their order, for one workload.       *)
RulesInOrder ==
  /\ key \in Workloads \X RuleNames
  /\ rules \in Seq(RuleNames)

LEMMA OrderTyped == ruleOrder[1] \in RuleNames /\ Tail(ruleOrder) \in Seq(RuleNames)
  BY DEF ruleOrder, RuleNames

LEMMA OrderInit ==
  ReqInit => RulesInOrder
  BY KeysAssumption DEF ReqInit, EvaluatorInit, RulesInOrder, RuleNames

LEMMA OrderInductive ==
  RulesInOrder /\ [ReqNext]_allVars => RulesInOrder'
<1> SUFFICES ASSUME RulesInOrder, [ReqNext]_allVars PROVE RulesInOrder'
  BY Zenon
<1> USE DEF RulesInOrder
<1>1. ASSUME NEW w \in Workloads, Evaluate(w) PROVE RulesInOrder'
  BY <1>1, OrderTyped, Zenon DEF Evaluate, StartEvaluate
<1>2. CASE EvaluateNext
  <2>1. Head(rules) \in RuleNames /\ Tail(rules) \in Seq(RuleNames)
    BY <1>2 DEF EvaluateNext
  <2> QED BY <1>2, <2>1, Zenon DEF EvaluateNext, NextRule
<1>3. CASE UNCHANGED <<key, rules>>
  BY <1>3, Zenon
<1>4. ReqNext => UNCHANGED <<key, rules>> \/ EvaluateNext \/ \E w \in Workloads : Evaluate(w)
  BY Zenon DEF ReqNext, NothingRequired, LookUp, LookupFails, LookFurther, RuleReturns, RuleEvaluate, RuleFails,
         Change, ClearDebounce, Debounce, CleanupStaleEntries, Tick, evaluatorVars
<1>5. UNCHANGED allVars => UNCHANGED <<key, rules>>
  BY Zenon DEF allVars, evaluatorVars
<1> QED BY <1>1, <1>2, <1>3, <1>4, <1>5, Zenon

(* Each step of the rules is a step of the evaluator or leaves it alone.   *)
LEMMA StepImplements ==
  RulesInOrder /\ [ReqNext]_allVars => [EvaluatorNext]_evaluatorVars
<1> SUFFICES ASSUME RulesInOrder, ReqNext PROVE [EvaluatorNext]_evaluatorVars
  BY Zenon DEF allVars
<1>1. ASSUME NEW w \in Workloads, Evaluate(w) PROVE EvaluatorNext
  <2>1. <<w, ruleOrder[1]>> \in Keys
    BY OrderTyped, KeysAssumption, Zenon DEF RuleNames
  <2> QED BY <1>1, <2>1, Zenon DEF Evaluate, EvaluatorNext
<1>2. CASE EvaluateNext
  <2>1. <<key[1], Head(rules)>> \in Keys
    BY <1>2, KeysAssumption DEF EvaluateNext, RulesInOrder, RuleNames
  <2> QED BY <1>2, <2>1, Zenon DEF EvaluateNext, EvaluatorNext
<1>3. ASSUME NEW answer \in {"missing", "present"}, RuleReturns(answer) PROVE EvaluatorNext
  BY <1>3, Zenon DEF RuleReturns, EvaluatorNext
<1>4. LookFurther => [EvaluatorNext]_evaluatorVars
  BY <1>3, Zenon DEF LookFurther
<1>5. CASE NothingRequired
  BY <1>3, <1>5, Zenon DEF NothingRequired
<1>6. CASE LookUp
  BY <1>3, <1>4, <1>6, Zenon DEF LookUp
<1>7. CASE LookupFails
  BY <1>4, <1>7, Zenon DEF LookupFails, EvaluatorNext
<1>8. ASSUME NEW o \in Objects, Change(o) PROVE UNCHANGED evaluatorVars
  BY <1>8, Zenon DEF Change
<1>9. CASE ClearDebounce \/ Debounce \/ CleanupStaleEntries \/ Tick
  BY <1>9, Zenon DEF EvaluatorNext
<1> QED BY <1>1, <1>2, <1>5, <1>6, <1>7, <1>8, <1>9, Zenon DEF ReqNext

(* The evaluator with its rules implements the evaluator that leaves the   *)
(* answers of the rules open (rule_*.go against evaluator.go).             *)
THEOREM RulesImplementEvaluator ==
  ReqSpec => EvaluatorSpec
<1>1. ReqInit => EvaluatorInit
  BY Zenon DEF ReqInit
<1> QED BY <1>1, OrderInit, OrderInductive, StepImplements, PTL DEF ReqSpec, EvaluatorSpec

(* With the rules as they are Evaluate reports a resource exactly when the *)
(* evaluations whose lookups succeeded found it missing for at least the   *)
(* debounce duration, unless the cleanup removed the entry in between.     *)
THEOREM RulesDebounced ==
  ReqSpec => DebounceExact
  BY RulesImplementEvaluator, ReportsDebounced, PTL

-----------------------------------------------------------------------------
(* What the rules find missing.                                            *)

(* The objects that a lookup of a rule is content with.                    *)
Accepts(w, q, o) ==
  /\ o.gvr = q.gvr /\ o.namespace = q.in
  /\ q.gvr \in {"servicemonitors", "podmonitors"} => o.selector # None /\ o.selector \subseteq podLabels(w)
  /\ q.gvr \in {"virtualservices", "destinationrules"} => \E host \in o.hosts : hostMatchesWorkload(host, w)
  /\ q.gvr = "peerauthentications" /\ q.role = "optional" => hasMeshWidePA(o)
  /\ q.gvr = "clusterissuers" => o.name = w.clusterIssuer
  /\ q.gvr = "issuers" => o.name = w.issuer

LookedUp == {"servicemonitors", "podmonitors", "virtualservices", "destinationrules", "namespaces",
             "peerauthentications", "clusterissuers", "issuers"}
LookupType ==
  [gvr : LookedUp, in : {w.namespace : w \in Workloads} \union {IstioSystem, None},
   role : {"condition", "companion", "optional"}]

(* The lookup was passed, and would be passed now: it is a condition that  *)
(* holds, or there is no companion that it would find.                     *)
Passed(q) == (q.role = "condition") <=> \E o \in cluster : Accepts(key[1], q, o)

Asked == LookupsOf(key[1], key[2])
Done == Len(Asked) - Len(lookups)

(* A rule at work has made the first of its lookups, and passed them, or   *)
(* the cluster has changed for the better in the meantime.                 *)
Searching ==
  /\ cluster \subseteq Objects
  /\ pc = "rule" =>
       /\ lookups \in Seq(LookupType) /\ Len(lookups) <= Len(Asked)
       /\ \A i \in 1..Len(lookups) : lookups[i] = Asked[Done + i]
       /\ Lacks(key, cluster) => lacked
       /\ supplied \/ unreachable \/ \A i \in 1..Done : Passed(Asked[i])

LEMMA FoundIs ==
  ASSUME NEW w, NEW q \in LookupType
  PROVE  Found(w, q) = \E o \in cluster : Accepts(w, q, o)
<1>1. q.gvr \in LookedUp
  BY Zenon DEF LookupType
<1>2. CASE q.gvr \in {"servicemonitors", "podmonitors"}
  BY <1>2, Zenon DEF Found, Accepts, ListByGVR, FindMatchingResources
<1>3. CASE q.gvr \in {"virtualservices", "destinationrules"}
  BY <1>3, Zenon DEF Found, Accepts, ListByGVR
<1>4. CASE q.gvr = "namespaces"
  BY <1>4, Zenon DEF Found, Accepts, ListByGVR
<1>5. CASE q.gvr = "peerauthentications"
  BY <1>5, Zenon DEF Found, Accepts, ListByGVR
<1>6. CASE q.gvr \in {"clusterissuers", "issuers"}
  BY <1>6, Zenon DEF Found, Accepts, ListByGVR
<1> QED BY <1>1, <1>2, <1>3, <1>4, <1>5, <1>6, Zenon DEF LookedUp

(* The lookups of a rule, one by one.                                      *)
LEMMA LookupsTyped ==
  ASSUME NEW w \in Workloads, NEW rule \in RuleNames
  PROVE  LookupsOf(w, rule) \in Seq(LookupType)
<1> DEFINE N == {v.namespace : v \in Workloads} \union {IstioSystem, None}
<1>1. \A g \in LookedUp, n \in N, r \in {"condition", "companion", "optional"} : Lookup(g, n, r) \in LookupType
  BY Zenon DEF Lookup, LookupType
<1>2. \A g \in LookedUp, n \in N : Companion(g, n) \in LookupType
  BY <1>1, Zenon DEF Companion
<1>3. w.namespace \in N /\ IstioSystem \in N /\ None \in N
  BY Zenon
<1> HIDE DEF N
<1>4. prometheusMonitorRule(w) \in Seq(LookupType)
  <2>1. Companion("servicemonitors", w.namespace) \in LookupType /\ Companion("podmonitors", w.namespace) \in LookupType
    BY <1>2, <1>3, Zenon DEF LookedUp
  <2> QED BY <2>1 DEF prometheusMonitorRule
<1>5. istioRoutingRule(w) \in Seq(LookupType)
  <2>1. Companion("virtualservices", w.namespace) \in LookupType /\ Companion("destinationrules", w.namespace) \in LookupType
    BY <1>2, <1>3, Zenon DEF LookedUp
  <2> QED BY <2>1 DEF istioRoutingRule
<1>6. istioMTLSRule(w) \in Seq(LookupType)
  <2>1. /\ Lookup("namespaces", w.namespace, "condition") \in LookupType
        /\ Companion("peerauthentications", w.namespace) \in LookupType
        /\ Lookup("peerauthentications", IstioSystem, "optional") \in LookupType
    BY <1>1, <1>2, <1>3, Zenon DEF LookedUp
  <2> QED BY <2>1 DEF istioMTLSRule
<1>7. certIssuerRule(w) \in Seq(LookupType)
  <2>1. Companion("clusterissuers", None) \in LookupType /\ Companion("issuers", w.namespace) \in LookupType
    BY <1>2, <1>3, Zenon DEF LookedUp
  <2> QED BY <2>1 DEF certIssuerRule
<1> QED BY <1>4, <1>5, <1>6, <1>7, Zenon DEF LookupsOf, RuleNames

(* A rule that looks anything up finds its companions by its lookups and   *)
(* nothing else, and needs one if its conditions hold.                     *)
Sound(w, rule, asked) ==
  /\ \A i \in DOMAIN asked : \A o : Accepts(w, asked[i], o) =>
       IF asked[i].role = "condition" THEN o.gvr = "namespaces" /\ o.namespace = w.namespace
       ELSE IsCompanion(w, rule, o)
  /\ asked # <<>> => \A o \in Objects : IsCompanion(w, rule, o) =>
       \E i \in DOMAIN asked : asked[i].role # "condition" /\ Accepts(w, asked[i], o)
  /\ asked # <<>> => \A objects :
       (\A i \in DOMAIN asked : asked[i].role = "condition" => \E o \in objects : Accepts(w, asked[i], o))
       => Needs(w, rule, objects)

LEMMA LookupsSound ==
  ASSUME NEW w \in Workloads, NEW rule \in RuleNames
  PROVE  Sound(w, rule, LookupsOf(w, rule))
<1>1. CASE rule = "prometheus-monitor"
  <2>1. LookupsOf(w, rule) = prometheusMonitorRule(w)
    BY <1>1, Zenon DEF LookupsOf
  <2> QED BY <1>1, <2>1 DEF Sound, prometheusMonitorRule, Companion, Lookup, Accepts, IsCompanion, Needs
<1>2. CASE rule = "istio-routing"
  <2>1. LookupsOf(w, rule) = istioRoutingRule(w)
    BY <1>2, Zenon DEF LookupsOf
  <2> QED BY <1>2, <2>1 DEF Sound, istioRoutingRule, Companion, Lookup, Accepts, IsCompanion, Needs
<1>3. CASE rule = "istio-mtls"
  <2>1. LookupsOf(w, rule) = istioMTLSRule(w)
    BY <1>3, Zenon DEF LookupsOf
  <2>2. CASE w.namespace = None
    <3>1. LookupsOf(w, rule) = <<>>
      BY <2>1, <2>2, Zenon DEF istioMTLSRule
    <3> QED BY <3>1 DEF Sound
  <2>3. CASE w.namespace # None /\ w.namespace = IstioSystem
    BY <1>3, <2>1, <2>3 DEF Sound, istioMTLSRule, Companion, Lookup, Accepts, IsCompanion, Needs
  <2>4. CASE w.namespace # None /\ w.namespace # IstioSystem
    BY <1>3, <2>1, <2>4 DEF Sound, istioMTLSRule, Companion, Lookup, Accepts, IsCompanion, Needs
  <2> QED BY <2>2, <2>3, <2>4, Zenon
<1>4. CASE rule = "cert-issuer"
  <2>1. LookupsOf(w, rule) = certIssuerRule(w)
    BY <1>4, Zenon DEF LookupsOf
  <2> QED BY <1>4, <2>1, ObjectsAssumption DEF Sound, certIssuerRule, Companion, Lookup, Accepts, IsCompanion, Needs
<1> QED BY <1>1, <1>2, <1>3, <1>4, Zenon DEF RuleNames

LEMMA AskedSound ==
  ASSUME RulesInOrder
  PROVE  Asked \in Seq(LookupType) /\ Sound(key[1], key[2], Asked)
<1>1. key[1] \in Workloads /\ key[2] \in RuleNames
  BY Zenon DEF RulesInOrder
<1> QED BY <1>1, LookupsTyped, LookupsSound, Zenon DEF Asked

(* A rule that would pass all its lookups now has a workload that lacks    *)
(* its companion now.                                                      *)
LEMMA AllPassed ==
  ASSUME RulesInOrder, Searching, Asked # <<>>, \A i \in DOMAIN Asked : Passed(Asked[i])
  PROVE  Lacks(key, cluster)
<1>1. Needs(key[1], key[2], cluster)
  BY AskedSound, Zenon DEF Sound, Passed
<1>2. ~ \E o \in cluster : IsCompanion(key[1], key[2], o)
  BY AskedSound, Zenon DEF Sound, Passed, Searching
<1> QED BY <1>1, <1>2, Zenon DEF Lacks

LEMMA BeginSearches ==
  ASSUME Searching, RulesInOrder', BeginRule(key')
  PROVE  Searching'
<1>1. lookups' = Asked' /\ cluster' = cluster /\ (Lacks(key, cluster))' = lacked'
  BY Zenon DEF BeginRule, Asked
<1>2. Asked' \in Seq(LookupType)
  <2>1. key'[1] \in Workloads /\ key'[2] \in RuleNames
    BY Zenon DEF RulesInOrder
  <2> QED BY <2>1, LookupsTyped, Zenon DEF Asked
<1>3. Done' = 0 /\ Len(Asked') \in Nat
  BY <1>1, <1>2 DEF Done
<1> QED BY <1>1, <1>2, <1>3 DEF Searching

(* The rule goes on after a lookup it passed, or could not make.           *)
LEMMA FurtherSearches ==
  ASSUME Searching, RulesInOrder, pc = "rule", lookups # <<>>, lookups' = Tail(lookups),
         UNCHANGED <<pc, key, cluster, lacked, supplied>>,
         unreachable' \/ (unreachable' = unreachable /\ Passed(Head(lookups)))
  PROVE  Searching'
<1>1. Asked \in Seq(LookupType) /\ Len(Asked) \in Nat /\ Asked' = Asked
  BY AskedSound DEF Asked
<1>2. /\ lookups \in Seq(LookupType) /\ Len(lookups) \in Nat \ {0} /\ Len(lookups) <= Len(Asked)
      /\ Tail(lookups) \in Seq(LookupType) /\ Len(Tail(lookups)) = Len(lookups) - 1
      /\ Head(lookups) = lookups[1] /\ \A i \in 1..Len(Tail(lookups)) : Tail(lookups)[i] = lookups[i + 1]
  BY DEF Searching
<1>3. Done \in Nat /\ Done' = Done + 1
  BY <1>1, <1>2 DEF Done
<1>4. \A i \in 1..Len(lookups') : lookups'[i] = Asked'[Done' + i]
  <2> SUFFICES ASSUME NEW i \in 1..Len(Tail(lookups)) PROVE Tail(lookups)[i] = Asked[(Done + 1) + i]
    BY <1>1, <1>3, Zenon
  <2>1. i + 1 \in 1..Len(lookups) /\ Done + (i + 1) = (Done + 1) + i
    BY <1>2, <1>3
  <2>2. lookups[i + 1] = Asked[Done + (i + 1)]
    BY <2>1, Zenon DEF Searching
  <2> QED BY <1>2, <2>1, <2>2, Zenon
<1>5. ASSUME ~supplied, ~unreachable' PROVE \A i \in 1..Done' : Passed(Asked[i])
  <2>1. \A i \in 1..Done : Passed(Asked[i])
    BY <1>5, Zenon DEF Searching
  <2>2. Passed(Asked[Done + 1])
    BY <1>2, <1>5 DEF Searching
  <2>3. \A i \in 1..(Done + 1) : i \in 1..Done \/ i = Done + 1
    BY <1>3
  <2> QED BY <1>3, <2>1, <2>2, <2>3, Zenon
<1>6. \A i : Passed(Asked[i]) => Passed(Asked[i])'
  BY <1>1, Zenon DEF Passed
<1>7. Lacks(key, cluster)' => lacked'
  BY Zenon DEF Searching, Lacks
<1> QED BY <1>1, <1>2, <1>4, <1>5, <1>6, <1>7 DEF Searching

(* A change of the cluster undoes what was passed only if a companion      *)
(* appears, or the namespace that made one necessary goes.                 *)
LEMMA ChangeSearches ==
  ASSUME Searching, RulesInOrder, NEW o \in Objects, Change(o)
  PROVE  Searching'
<1>1. UNCHANGED <<pc, key, lookups, unreachable>>
  BY Zenon DEF Change, evaluatorVars
<1>2. cluster' \subseteq Objects
  BY Zenon DEF Change, Searching
<1>3. Asked' = Asked /\ Done' = Done
  BY <1>1, Zenon DEF Asked, Done
<1>4. (Lacks(key, cluster))' => lacked'
  BY <1>1, Zenon DEF Change
<1>5. ASSUME NEW i \in DOMAIN Asked, ~supplied', Passed(Asked[i]) PROVE Passed(Asked[i])'
  <2>1. \A x : Accepts(key[1], Asked[i], x) =>
          IF Asked[i].role = "condition" THEN x.gvr = "namespaces" /\ x.namespace = key[1].namespace
          ELSE IsCompanion(key[1], key[2], x)
    BY AskedSound, Zenon DEF Sound
  <2>2. CASE o \in cluster
    <3>1. cluster' = cluster \ {o} /\ ~(o.gvr = "namespaces" /\ o.namespace = key[1].namespace)
      BY <1>5, <2>2, Zenon DEF Change
    <3> QED BY <1>1, <1>3, <1>5, <2>1, <3>1, Zenon DEF Passed
  <2>3. CASE o \notin cluster
    <3>1. cluster' = cluster \union {o} /\ ~IsCompanion(key[1], key[2], o)
      BY <1>5, <2>3, Zenon DEF Change
    <3> QED BY <1>1, <1>3, <1>5, <2>1, <3>1, Zenon DEF Passed
  <2> QED BY <2>2, <2>3, Zenon
<1>6. supplied => supplied'
  BY Zenon DEF Change
<1>7. pc = "rule" => \A i \in 1..Done : i \in DOMAIN Asked
  <2>1. Len(Asked) \in Nat /\ DOMAIN Asked = 1..Len(Asked)
    BY AskedSound
  <2>2. pc = "rule" => Len(lookups) \in Nat
    BY DEF Searching
  <2> QED BY <2>1, <2>2 DEF Done
<1> QED BY <1>1, <1>2, <1>3, <1>4, <1>5, <1>6, <1>7, Zenon DEF Searching

(* What the rule has passed when a lookup leaves it open.                  *)
LEMMA LookUpPasses ==
  ASSUME Searching, pc = "rule", lookups # <<>>,
         Found(key[1], Head(lookups)) = (Head(lookups).role = "condition")
  PROVE  Passed(Head(lookups))
<1>1. Head(lookups) \in LookupType
  BY DEF Searching
<1> QED BY <1>1, FoundIs, Zenon DEF Passed

LEMMA SearchStep == RulesInOrder /\ RulesInOrder' /\ Searching /\ [ReqNext]_allVars => Searching'
<1> SUFFICES ASSUME RulesInOrder, RulesInOrder', Searching, [ReqNext]_allVars PROVE Searching'
  BY Zenon
<1>1. ASSUME UNCHANGED cluster, pc' # "rule" PROVE Searching'
  BY <1>1, Zenon DEF Searching
<1>2. ASSUME UNCHANGED <<pc, key, cluster, lookups, during>> PROVE Searching'
  <2>1. Asked' = Asked /\ Done' = Done /\ (\A i : Passed(Asked[i])' <=> Passed(Asked[i]))
    BY <1>2, Zenon DEF Asked, Done, Passed
  <2> QED BY <1>2, <2>1, Zenon DEF Searching, during
<1>3. ASSUME NEW w \in Workloads, Evaluate(w) PROVE Searching'
  BY <1>3, BeginSearches, Zenon DEF Evaluate, StartEvaluate
<1>4. CASE EvaluateNext
  BY <1>4, BeginSearches, Zenon DEF EvaluateNext, NextRule
<1>5. CASE NothingRequired
  BY <1>1, <1>5, Zenon DEF NothingRequired, RuleReturns, RuleEvaluate
<1>6. ASSUME NEW answer \in {"missing", "present"}, RuleReturns(answer), UNCHANGED cluster PROVE Searching'
  BY <1>1, <1>6, Zenon DEF RuleReturns, RuleEvaluate
<1>7. CASE LookUp
  <2>1. CASE Found(key[1], Head(lookups)) = (Head(lookups).role = "condition")
    <3>1. LookFurther /\ pc = "rule" /\ lookups # <<>> /\ UNCHANGED <<cluster, lacked, supplied, unreachable>>
      BY <1>7, <2>1, Zenon DEF LookUp, during
    <3>2. Passed(Head(lookups))
      BY <2>1, <3>1, LookUpPasses, Zenon
    <3> QED BY <1>6, <3>1, <3>2, FurtherSearches, Zenon DEF LookFurther, evaluatorVars
  <2>2. CASE ~(Found(key[1], Head(lookups)) = (Head(lookups).role = "condition"))
    BY <1>6, <1>7, <2>2, Zenon DEF LookUp
  <2> QED BY <2>1, <2>2, Zenon
<1>8. CASE LookupFails
  <2>1. CASE Head(lookups).role = "optional"
    <3>1. LookFurther /\ pc = "rule" /\ lookups # <<>> /\ unreachable' /\ UNCHANGED <<cluster, lacked, supplied>>
      BY <1>8, <2>1, Zenon DEF LookupFails
    <3> QED BY <1>6, <3>1, FurtherSearches, Zenon DEF LookFurther, evaluatorVars
  <2>2. CASE Head(lookups).role # "optional"
    BY <1>1, <1>8, <2>2, Zenon DEF LookupFails, RuleFails
  <2> QED BY <2>1, <2>2, Zenon
<1>9. ASSUME NEW o \in Objects, Change(o) PROVE Searching'
  BY <1>9, ChangeSearches, Zenon
<1>10. CASE (ClearDebounce \/ Debounce \/ CleanupStaleEntries \/ Tick) /\ UNCHANGED <<cluster, rules, lookups, during>>
  BY <1>1, <1>2, <1>10, Zenon DEF ClearDebounce, Debounce, CleanupStaleEntries, Tick
<1>11. CASE UNCHANGED allVars
  BY <1>2, <1>11, Zenon DEF allVars, evaluatorVars
<1> QED BY <1>3, <1>4, <1>5, <1>7, <1>8, <1>9, <1>10, <1>11, Zenon DEF ReqNext

Explained == pc = "rule" /\ pc' = "missing" => lacked \/ supplied \/ unreachable'

(* A rule returns its constraint after the last of its lookups.            *)
LEMMA StepExplained == RulesInOrder /\ Searching /\ [ReqNext]_allVars => [Explained]_allVars
<1> SUFFICES ASSUME RulesInOrder, Searching, ReqNext, pc = "rule", pc' = "missing"
             PROVE  lacked \/ supplied \/ unreachable'
  BY Zenon DEF Explained
<1>1. \/ /\ LookFurther /\ lookups # <<>> /\ UNCHANGED unreachable
         /\ Found(key[1], Head(lookups)) = (Head(lookups).role = "condition")
      \/ unreachable'
  BY Zenon DEF ReqNext, Evaluate, StartEvaluate, EvaluateNext, NextRule, NothingRequired, RuleReturns, RuleEvaluate,
         LookUp, LookupFails, RuleFails, Change, evaluatorVars, ClearDebounce, Debounce, CleanupStaleEntries, Tick, during
<1>2. SUFFICES ASSUME LookFurther, lookups # <<>>, ~supplied, ~unreachable,
                      Found(key[1], Head(lookups)) = (Head(lookups).role = "condition")
               PROVE  lacked
  BY <1>1, Zenon
<1>3. Len(lookups) = 1
  BY <1>2, Zenon DEF LookFurther, evaluatorVars
<1>4. Asked \in Seq(LookupType) /\ Len(Asked) \in Nat /\ DOMAIN Asked = 1..Len(Asked)
  BY AskedSound
<1>5. Len(lookups) <= Len(Asked) /\ lookups \in Seq(LookupType) /\ Done = Len(Asked) - 1
  BY <1>3, Zenon DEF Searching, Done
<1>6. Passed(Asked[Len(Asked)])
  <2>1. Head(lookups) = lookups[1] /\ lookups[1] = Asked[Done + 1]
    BY <1>3, <1>5 DEF Searching
  <2> QED BY <1>2, <1>4, <1>5, <2>1, LookUpPasses
<1>7. \A i \in DOMAIN Asked : Passed(Asked[i])
  <2>1. \A i \in 1..Done : Passed(Asked[i])
    BY <1>2, Zenon DEF Searching
  <2>2. \A i \in DOMAIN Asked : i \in 1..Done \/ i = Len(Asked)
    BY <1>4, <1>5
  <2> QED BY <1>6, <2>1, <2>2, Zenon
<1>8. Asked # <<>>
  BY <1>3, <1>4, <1>5
<1> QED BY <1>7, <1>8, AllPassed, Zenon DEF Searching

(* A rule finds a companion missing only if the workload lacked it at some *)
(* moment since the rule began, a companion appeared or the need for one   *)
(* ended meanwhile, or istio-system could not be listed (rule_*.go), for   *)
(* any workloads and objects and however the cluster changes between two   *)
(* lookups.                                                                *)
THEOREM MissingIsExplained == ReqSpec => MissingExplained
<1>1. ReqInit => Searching
  BY Zenon DEF ReqInit, EvaluatorInit, Searching
<1>2. MissingExplained <=> [][Explained]_allVars
  BY Zenon DEF MissingExplained, Explained
<1> QED BY <1>1, <1>2, OrderInit, OrderInductive, SearchStep, StepExplained, PTL DEF ReqSpec

-----------------------------------------------------------------------------
(* The adapter registry.                                                   *)

RegistryIInv == RegistryTypeOK /\ GroupKnown

LEMMA RegistryInitInductive ==
  RegistryInit => RegistryIInv
  BY RegistryAssumption, Zenon DEF RegistryInit, RegistryIInv, RegistryTypeOK, GroupKnown

(* IndexGroups gives a free group to the adapter and leaves the others.    *)
LEMMA IndexGroupsTyped ==
  ASSUME RegistryTypeOK, NEW a \in Adapters, NEW gvrs, IndexGroups(a, gvrs)
  PROVE  groupMap' \in [Groups -> Adapters \union {None}]
  BY Zenon DEF RegistryTypeOK, IndexGroups

LEMMA RegisterInductive ==
  ASSUME RegistryIInv, NEW a \in Adapters, Register(a)
  PROVE  RegistryIInv'
<1>1. RegistryTypeOK'
  BY IndexGroupsTyped, Zenon DEF RegistryIInv, RegistryTypeOK, Register
<1>2. GroupKnown'
  BY RegistryAssumption, Zenon DEF RegistryIInv, RegistryTypeOK, GroupKnown, Register, IndexGroups
<1> QED BY <1>1, <1>2, Zenon DEF RegistryIInv

LEMMA RegisterGVRInductive ==
  ASSUME RegistryIInv, NEW g \in GVRs, NEW a \in Adapters, RegisterGVR(g, a)
  PROVE  RegistryIInv'
<1>1. RegistryTypeOK'
  BY IndexGroupsTyped, Zenon DEF RegistryIInv, RegistryTypeOK, RegisterGVR
<1>2. GroupKnown'
  BY RegistryAssumption, Zenon DEF RegistryIInv, RegistryTypeOK, GroupKnown, RegisterGVR, IndexGroups
<1> QED BY <1>1, <1>2, Zenon DEF RegistryIInv

(* A group that loses its adapter goes to one that remains.                *)
LEMMA UnregisterInductive ==
  ASSUME RegistryIInv, NEW a \in Adapters, Unregister(a)
  PROVE  RegistryIInv'
<1> DEFINE gone == {g \in GVRs : gvrMap[g] = a}
           lost == {gr \in Groups : groupMap[gr] = a /\ \E g \in gone : groupOf[g] = gr}
<1>1. gvrMap' = [g \in GVRs |-> IF g \in gone THEN None ELSE gvrMap[g]]
  BY Zenon DEF Unregister
<1>2. PICK pick \in [lost -> Adapters \union {None}] :
        /\ \A gr \in lost :
             IF Remaining(gr, gone) = {} THEN pick[gr] = None ELSE pick[gr] \in Remaining(gr, gone)
        /\ groupMap' = [gr \in Groups |-> IF gr \in lost THEN pick[gr] ELSE groupMap[gr]]
  BY Zenon DEF Unregister
<1>3. RegistryTypeOK'
  BY <1>1, <1>2 DEF RegistryIInv, RegistryTypeOK, Unregister
<1>4. ASSUME NEW g \in GVRs, gvrMap'[g] # None
      PROVE  groupMap'[groupOf[g]] # None
  <2>1. g \notin gone /\ gvrMap[g] # None
    BY <1>1, <1>4, Zenon
  <2>2. groupOf[g] \in Groups /\ groupMap[groupOf[g]] # None
    BY <2>1, RegistryAssumption, Zenon DEF RegistryIInv, GroupKnown
  <2>3. gvrMap[g] \in Remaining(groupOf[g], gone)
    BY <2>1, Zenon DEF Remaining
  <2>4. groupOf[g] \in lost => pick[groupOf[g]] # None
    BY <1>2, <2>3, Zenon DEF Remaining
  <2> QED BY <1>2, <2>2, <2>4, Zenon
<1> QED BY <1>3, <1>4, Zenon DEF RegistryIInv, GroupKnown

LEMMA UnregisterGVRInductive ==
  ASSUME RegistryIInv, NEW g \in GVRs, UnregisterGVR(g)
  PROVE  RegistryIInv'
<1>1. RegistryTypeOK'
  BY RegistryAssumption, Zenon DEF RegistryIInv, RegistryTypeOK, UnregisterGVR
<1>2. ASSUME NEW h \in GVRs, gvrMap'[h] # None
      PROVE  groupMap'[groupOf[h]] # None
  <2>1. h # g /\ gvrMap[h] # None
    BY <1>2, Zenon DEF RegistryIInv, RegistryTypeOK, UnregisterGVR
  <2>2. groupOf[h] \in Groups /\ groupOf[g] \in Groups /\ groupMap[groupOf[h]] # None
    BY <2>1, RegistryAssumption, Zenon DEF RegistryIInv, GroupKnown
  <2>3. CASE groupOf[h] = groupOf[g]
    <3>1. gvrMap[h] \in Remaining(groupOf[g], {g})
      BY <2>1, <2>3, Zenon DEF Remaining
    <3> QED BY <2>2, <2>3, <3>1, Zenon DEF RegistryIInv, RegistryTypeOK, UnregisterGVR
  <2>4. CASE groupOf[h] # groupOf[g]
    BY <2>2, <2>4, Zenon DEF RegistryIInv, RegistryTypeOK, UnregisterGVR
  <2> QED BY <2>3, <2>4, Zenon
<1> QED BY <1>1, <1>2, Zenon DEF RegistryIInv, GroupKnown

LEMMA RegistryNextInductive ==
  RegistryIInv /\ [RegistryNext]_registryVars => RegistryIInv'
<1> SUFFICES ASSUME RegistryIInv, [RegistryNext]_registryVars PROVE RegistryIInv'
  BY Zenon
<1>1. ASSUME NEW a \in Adapters, Register(a) PROVE RegistryIInv'
  BY <1>1, RegisterInductive, Zenon
<1>2. ASSUME NEW a \in Adapters, Unregister(a) PROVE RegistryIInv'
  BY <1>2, UnregisterInductive, Zenon
<1>3. ASSUME NEW g \in GVRs, UnregisterGVR(g) PROVE RegistryIInv'
  BY <1>3, UnregisterGVRInductive, Zenon
<1>4. ASSUME NEW g \in GVRs, NEW a \in Adapters, RegisterGVR(g, a) PROVE RegistryIInv'
  BY <1>4, RegisterGVRInductive, Zenon
<1>5. CASE UNCHANGED registryVars
  BY <1>5, Zenon DEF RegistryIInv, RegistryTypeOK, GroupKnown, registryVars
<1> QED BY <1>1, <1>2, <1>3, <1>4, <1>5, Zenon DEF RegistryNext

(* As long as some GVR of a group is mapped, ForGroup finds an adapter for *)
(* the group, through Register, RegisterGVR, Unregister and UnregisterGVR. *)
THEOREM GroupsKnown ==
  RegistrySpec => [](RegistryTypeOK /\ GroupKnown)
<1>1. RegistryInit => RegistryIInv
  BY RegistryInitInductive, Zenon
<1>2. RegistryIInv /\ [RegistryNext]_registryVars => RegistryIInv'
  BY RegistryNextInductive, Zenon
<1>3. RegistryIInv => RegistryTypeOK /\ GroupKnown
  BY Zenon DEF RegistryIInv
<1> QED BY <1>1, <1>2, <1>3, PTL DEF RegistrySpec

Kept ==
  \A gr \in Groups :
    groupMap[gr] # None /\ groupMap'[gr] \notin {None, groupMap[gr]} => groupMap[gr] \notin adapters'

LEMMA StepKeeps ==
  RegistryTypeOK /\ [RegistryNext]_registryVars => [Kept]_registryVars
<1> SUFFICES ASSUME RegistryTypeOK, RegistryNext PROVE Kept
  BY Zenon DEF registryVars
<1>1. ASSUME NEW a \in Adapters, NEW gvrs, IndexGroups(a, gvrs) PROVE Kept
  BY <1>1, Zenon DEF IndexGroups, Kept
<1>2. ASSUME NEW a \in Adapters, Register(a) PROVE Kept
  BY <1>1, <1>2, Zenon DEF Register
<1>3. ASSUME NEW a \in Adapters, Unregister(a) PROVE Kept
  BY <1>3, Zenon DEF Unregister, Kept
<1>4. ASSUME NEW g \in GVRs, UnregisterGVR(g) PROVE Kept
  BY <1>4, RegistryAssumption, Zenon DEF UnregisterGVR, RegistryTypeOK, Kept
<1>5. ASSUME NEW g \in GVRs, NEW a \in Adapters, RegisterGVR(g, a) PROVE Kept
  BY <1>1, <1>5, Zenon DEF RegisterGVR
<1> QED BY <1>2, <1>3, <1>4, <1>5, Zenon DEF RegistryNext

(* The first adapter of a group keeps it until it is unregistered.         *)
THEOREM FirstKept ==
  RegistrySpec => FirstWins
<1>1. RegistrySpec => []RegistryTypeOK
  BY GroupsKnown, PTL
<1>2. RegistryTypeOK /\ [RegistryNext]_registryVars => [Kept]_registryVars
  BY StepKeeps, Zenon
<1>3. FirstWins <=> [][Kept]_registryVars
  BY Zenon DEF FirstWins, Kept
<1> QED BY <1>1, <1>2, <1>3, PTL DEF RegistrySpec

-----------------------------------------------------------------------------
(* Admission requests.                                                     *)

(* The index lies between what was there all the while and what was there  *)
(* at some time, and so does an answer, from when it is given to when it   *)
(* is turned into warnings.  There are no warnings before that.            *)
AdmissionInv ==
  /\ review \in [Requests -> ReviewSteps] /\ index \subseteq Constraints
  /\ response \in [Requests -> (SUBSET Constraints) \union {None}]
  /\ warnings \in [Requests -> SUBSET Constraints]
  /\ ever \in [Requests -> SUBSET Constraints] /\ always \in [Requests -> SUBSET Constraints]
  /\ \A r \in Requests :
       /\ review[r] # "new" => always[r] \subseteq index /\ index \subseteq ever[r]
       /\ review[r] = "answered" => response[r] \in SUBSET Constraints
                                    /\ always[r] \subseteq response[r] /\ response[r] \subseteq ever[r]
       /\ review[r] # "admitted" => warnings[r] = {}
       /\ warnings[r] = {} \/ always[r] \subseteq warnings[r]
       /\ warnings[r] \subseteq ever[r]

LEMMA AdmissionStarts == AdmissionInit => AdmissionInv
BY Zenon DEF AdmissionInit, AdmissionInv, ReviewSteps

(* Whatever the index becomes, what was there all the while shrinks to it  *)
(* and what was there at some time grows by it.                            *)
LEMMA SetIndexPreserves ==
  ASSUME AdmissionInv, NEW new \in SUBSET Constraints, SetIndex(new),
         UNCHANGED <<review, response, warnings>>
  PROVE  AdmissionInv'
<1>1. ever' \in [Requests -> SUBSET Constraints] /\ always' \in [Requests -> SUBSET Constraints]
  BY Zenon DEF AdmissionInv, SetIndex
<1>2. ASSUME NEW r \in Requests
      PROVE  /\ ever'[r] = ever[r] \union index' /\ always'[r] = always[r] \intersect index'
             /\ review'[r] = review[r] /\ response'[r] = response[r] /\ warnings'[r] = warnings[r]
  BY Zenon DEF SetIndex
<1>3. QED
  BY <1>1, <1>2, Zenon DEF AdmissionInv, SetIndex

LEMMA RequestPreserves ==
  ASSUME AdmissionInv, NEW r \in Requests, Submit(r) \/ Handle(r)
  PROVE  AdmissionInv'
<1>1. CASE Submit(r)
  BY <1>1, Zenon DEF AdmissionInv, Submit, Proceed, ReviewSteps
<1>2. CASE DecodeFails(r) \/ Query(r) \/ QueryFails(r)
  BY <1>2, Zenon DEF AdmissionInv, DecodeFails, Query, QueryFails, Proceed, Quiet, ReviewSteps
<1>3. CASE ServeHTTP(r)
  BY <1>3, Zenon DEF AdmissionInv, ServeHTTP, Proceed, Quiet, ReviewSteps
<1>4. CASE SendResponse(r)
  BY <1>4, Zenon DEF AdmissionInv, SendResponse, Proceed, Quiet, ReviewSteps
<1>5. QED
  BY <1>1, <1>2, <1>3, <1>4, Zenon DEF Handle

LEMMA AdmissionStep == AdmissionInv /\ [AdmissionNext]_admissionVars => AdmissionInv'
<1> SUFFICES ASSUME AdmissionInv, [AdmissionNext]_admissionVars PROVE AdmissionInv'
  BY Zenon
<1>1. CASE UNCHANGED admissionVars
  BY <1>1, Zenon DEF admissionVars, AdmissionInv
<1>2. ASSUME NEW r \in Requests, Submit(r) \/ Handle(r) PROVE AdmissionInv'
  BY <1>2, RequestPreserves, Zenon
<1>3. CASE ChangeIndex
  <2>1. PICK c \in Constraints : SetIndex(IF c \in index THEN index \ {c} ELSE index \union {c})
    BY <1>3, Zenon DEF ChangeIndex
  <2>2. (IF c \in index THEN index \ {c} ELSE index \union {c}) \in SUBSET Constraints
    BY Zenon DEF AdmissionInv
  <2>3. QED
    BY <1>3, <2>1, <2>2, SetIndexPreserves, Zenon DEF ChangeIndex
<1>4. CASE ControllerCrashes
  BY <1>4, SetIndexPreserves, Zenon DEF ControllerCrashes
<1>5. CASE ControllerRestarts
  BY <1>5, Zenon DEF AdmissionInv, ControllerRestarts
<1>6. CASE WebhookCrashes
  BY <1>6, Zenon DEF AdmissionInv, WebhookCrashes, ReviewSteps
<1>7. QED
  BY <1>1, <1>2, <1>3, <1>4, <1>5, <1>6, Zenon DEF AdmissionNext

LEMMA AdmissionInvHolds == AdmissionSpec => []AdmissionInv
BY AdmissionStarts, AdmissionStep, PTL DEF AdmissionSpec

(* A request is warned only of constraints that were in the index at some  *)
(* time while it was under way (cmd/webhook/admission.go, Handle, and      *)
(* internal/api/constraints.go, ServeHTTP): whatever the number of         *)
(* requests and constraints, index changes and crashes on either side.     *)
THEOREM WarnedOfCurrent == AdmissionSpec => []WarningsCurrent
<1>1. AdmissionInv => WarningsCurrent
  BY Zenon DEF AdmissionInv, WarningsCurrent
<1>2. QED
  BY <1>1, AdmissionInvHolds, PTL

(* A request that is warned at all is warned of every constraint that was  *)
(* in the index all the while it was under way (the same handlers), under  *)
(* the same crashes and index changes.                                     *)
THEOREM WarnedOfAll == AdmissionSpec => []WarningsComplete
<1>1. AdmissionInv => WarningsComplete
  BY Zenon DEF AdmissionInv, WarningsComplete
<1>2. QED
  BY <1>1, AdmissionInvHolds, PTL

-----------------------------------------------------------------------------
(* Streaming to the clients of the MCP server.                             *)

Sent == Writers \X Nat

StreamType ==
  /\ handler \in [Clients -> HandlerSteps]
  /\ sseClients \subseteq Clients /\ closed \subseteq Clients
  /\ clientChan \in [Clients -> Seq(Sent)] /\ written \in [Clients -> Seq(Sent)]
  /\ made \in [Writers -> Nat]
  /\ casting \in [Writers -> Broadcast \union {None}]

(* A client is in the map from when it is added to when it is removed, and *)
(* it is removed before its channel is closed.  A broadcast under its lock *)
(* has only clients of the map before it.                                  *)
MapGuarded ==
  /\ \A c \in sseClients : handler[c] \in {"open", "leaving"}
  /\ \A c \in closed : handler[c] = "gone"
  /\ \A w \in Writers : Casts(w) => casting[w].todo \subseteq sseClients
  /\ ~panicked

(* The last change of the writer is still to be sent to the client.        *)
Pending(w, c) == casting[w] # None /\ (~casting[w].locked \/ c \in casting[w].todo)

(* A stream holds no change that is yet to be made or to be sent.          *)
Past ==
  \A c \in Clients : \A i \in 1..Len(Stream(c)) : \A w \in Writers :
    Stream(c)[i][1] = w =>
      /\ Stream(c)[i][2] <= made[w]
      /\ Pending(w, c) => Stream(c)[i][2] < made[w]

StreamInv == StreamType /\ MapGuarded /\ Past /\ InOrder

(* What the client takes from its channel it writes to its response.       *)
LEMMA MoveHead ==
  ASSUME NEW S, NEW a \in Seq(S), NEW b \in Seq(S), b # <<>>
  PROVE  Append(a, Head(b)) \o Tail(b) = a \o b
OBVIOUS

LEMMA AppendConcat ==
  ASSUME NEW S, NEW a \in Seq(S), NEW b \in Seq(S), NEW e \in S
  PROVE  a \o Append(b, e) = Append(a \o b, e)
OBVIOUS

(* A change that is sent is behind the others.                             *)
LEMMA AppendLast ==
  ASSUME NEW S, NEW a \in Seq(S), NEW e \in S, NEW b, b = Append(a, e)
  PROVE  /\ DOMAIN b = 1..(Len(a) + 1) /\ Len(b) = Len(a) + 1 /\ Len(a) \in Nat
         /\ b[Len(a) + 1] = e
         /\ \A i \in 1..Len(a) : b[i] = a[i]
OBVIOUS

LEMMA StreamTyped ==
  ASSUME StreamType, NEW c \in Clients
  PROVE  /\ Stream(c) \in Seq(Sent) /\ DOMAIN Stream(c) = 1..Len(Stream(c))
         /\ Len(Stream(c)) \in Nat
         /\ \A i \in 1..Len(Stream(c)) : Stream(c)[i] \in Sent
BY DEF StreamType, Stream

LEMMA StreamStarts == StreamInit => StreamInv
<1> SUFFICES ASSUME StreamInit PROVE StreamInv
  BY Zenon
<1>1. StreamType /\ MapGuarded
  BY DEF StreamInit, StreamType, HandlerSteps, MapGuarded, Casts
<1>2. \A c \in Clients : Stream(c) = <<>>
  BY DEF StreamInit, Stream
<1>3. Past /\ InOrder
  BY <1>2 DEF Past, InOrder
<1>4. QED
  BY <1>1, <1>3, Zenon DEF StreamInv

(* A step that leaves streams and broadcasts alone keeps their order.      *)
LEMMA OrderKept ==
  ASSUME Past, InOrder, \A c \in Clients : Stream(c)' = Stream(c),
         UNCHANGED <<made, casting>>
  PROVE  Past' /\ InOrder'
<1>1. Past'
  BY Zenon DEF Past, Pending
<1>2. InOrder'
  BY Zenon DEF InOrder
<1>3. QED
  BY <1>1, <1>2, Zenon

LEMMA HandlerPreserves ==
  ASSUME StreamInv, NEW c \in Clients, Connect(c) \/ StreamEvent(c) \/ Disconnect(c) \/ handleSSE(c)
  PROVE  StreamInv'
<1>1. StreamType'
  <2>1. CASE StreamEvent(c)
    <3>1. Head(clientChan[c]) \in Sent /\ Tail(clientChan[c]) \in Seq(Sent)
      BY <2>1 DEF StreamInv, StreamType, StreamEvent
    <3>2. QED
      BY <2>1, <3>1 DEF StreamInv, StreamType, StreamEvent
  <2>2. CASE ~StreamEvent(c)
    BY <2>2, Zenon DEF StreamInv, StreamType, Connect, Disconnect, handleSSE, AddClient,
                RemoveClient, HandlerSteps
  <2>3. QED
    BY <2>1, <2>2, Zenon
<1>2. MapGuarded'
  <2> USE DEF StreamInv, StreamType, MapGuarded, Casts
  <2>1. CASE Connect(c)
    BY <2>1, Zenon DEF Connect
  <2>2. CASE Disconnect(c)
    BY <2>2, Zenon DEF Disconnect
  <2>3. CASE AddClient(c)
    BY <2>3, Zenon DEF AddClient
  <2>4. CASE StreamEvent(c)
    BY <2>4, Zenon DEF StreamEvent
  <2>5. CASE RemoveClient(c)
    BY <2>5, Zenon DEF RemoveClient, WriteLockFree
  <2> QED
    BY <2>1, <2>2, <2>3, <2>4, <2>5, Zenon DEF handleSSE
<1>3. ASSUME NEW d \in Clients PROVE Stream(d)' = Stream(d)
  <2>1. CASE StreamEvent(c) /\ d = c
    <3>1. written'[c] = Append(written[c], Head(clientChan[c])) /\ clientChan'[c] = Tail(clientChan[c])
      BY <2>1, Zenon DEF StreamInv, StreamType, StreamEvent
    <3>2. clientChan[c] # <<>>
      BY <2>1, Zenon DEF StreamEvent
    <3>3. QED
      BY <2>1, <3>1, <3>2, MoveHead DEF StreamInv, StreamType, Stream
  <2>2. CASE StreamEvent(c) /\ d # c
    BY <2>2, Zenon DEF StreamInv, StreamType, StreamEvent, Stream
  <2>3. CASE ~StreamEvent(c)
    BY <2>3, Zenon DEF Stream, Connect, Disconnect, handleSSE, AddClient, RemoveClient
  <2>4. QED
    BY <2>1, <2>2, <2>3, Zenon
<1>4. UNCHANGED <<made, casting>>
  BY Zenon DEF Connect, Disconnect, handleSSE, AddClient, StreamEvent, RemoveClient
<1>5. QED
  BY <1>1, <1>2, <1>3, <1>4, OrderKept, Zenon DEF StreamInv

LEMMA CallPreserves ==
  ASSUME StreamInv, NEW w \in Writers, CallBroadcast(w)
  PROVE  StreamInv'
<1>1. StreamType'
  <2>1. [locked |-> FALSE, todo |-> {}] \in Broadcast
    BY Zenon DEF Broadcast
  <2>2. casting' \in [Writers -> Broadcast \union {None}]
    BY <2>1, Zenon DEF StreamInv, StreamType, CallBroadcast
  <2>3. made' \in [Writers -> Nat]
    BY DEF StreamInv, StreamType, CallBroadcast
  <2> QED
    BY <2>2, <2>3, Zenon DEF StreamInv, StreamType, CallBroadcast
<1>2. MapGuarded'
  BY Zenon DEF StreamInv, StreamType, MapGuarded, Casts, CallBroadcast
<1>3. \A c \in Clients : Stream(c)' = Stream(c)
  BY Zenon DEF Stream, CallBroadcast
<1>4. \A x \in Writers : made[x] <= made'[x] /\ (x # w => made'[x] = made[x] /\ casting'[x] = casting[x])
  BY DEF StreamInv, StreamType, CallBroadcast
<1>5. made[w] < made'[w] /\ made[w] \in Nat /\ made'[w] \in Nat
  BY DEF StreamInv, StreamType, CallBroadcast
<1>6. Past'
  <2> SUFFICES ASSUME NEW c \in Clients, NEW i \in 1..Len(Stream(c)), NEW x \in Writers,
                      Stream(c)[i][1] = x
               PROVE  /\ Stream(c)[i][2] <= made'[x]
                      /\ Pending(x, c)' => Stream(c)[i][2] < made'[x]
    BY <1>3, Zenon DEF Past
  <2>1. Stream(c)[i][2] \in Nat
    BY StreamTyped, Zenon DEF StreamInv, Sent
  <2>2. CASE x = w
    BY <1>5, <2>1, <2>2 DEF StreamInv, Past
  <2>3. CASE x # w
    <3>1. made'[x] = made[x] /\ (Pending(x, c)' => Pending(x, c))
      BY <1>4, <2>3, Zenon DEF Pending
    <3>2. QED
      BY <3>1, Zenon DEF StreamInv, Past
  <2>4. QED
    BY <2>2, <2>3, Zenon
<1>7. InOrder'
  BY <1>3, Zenon DEF StreamInv, InOrder
<1>8. QED
  BY <1>1, <1>2, <1>6, <1>7, Zenon DEF StreamInv

(* A broadcast that has just taken the lock.                               *)
LEMMA BroadcastBegun ==
  ASSUME NEW todo \in SUBSET Clients
  PROVE  /\ [locked |-> TRUE, todo |-> todo] \in Broadcast
         /\ [locked |-> TRUE, todo |-> todo].todo = todo
BY Zenon DEF Broadcast

(* A broadcast that is done with a client.                                 *)
LEMMA BroadcastVisited ==
  ASSUME NEW b \in Broadcast, NEW d \in Clients
  PROVE  /\ [b EXCEPT !.todo = @ \ {d}] \in Broadcast
         /\ [b EXCEPT !.todo = @ \ {d}].locked = b.locked
         /\ [b EXCEPT !.todo = @ \ {d}].todo = b.todo \ {d}
BY Zenon DEF Broadcast

(* Taking and releasing the lock, and passing over a full channel, leave   *)
(* the streams alone and make nothing pending that was not.                *)
LEMMA LockPreserves ==
  ASSUME StreamInv, NEW w \in Writers,
         RLock(w) \/ RUnlock(w) \/ \E c \in Clients : Drop(w, c)
  PROVE  StreamInv'
<1>1. UNCHANGED <<handler, sseClients, clientChan, closed, written, made, panicked>>
  BY Zenon DEF RLock, RUnlock, Drop
<1>2. \A x \in Writers : x # w => casting'[x] = casting[x]
  BY Zenon DEF StreamInv, StreamType, RLock, RUnlock, Drop, Visited
<1>3. \/ casting[w] # None /\ ~casting[w].locked /\ casting'[w] = [locked |-> TRUE, todo |-> sseClients]
      \/ casting'[w] = None
      \/ casting[w] # None /\ \E c \in Clients : casting'[w] = [casting[w] EXCEPT !.todo = @ \ {c}]
  BY Zenon DEF StreamInv, StreamType, RLock, RUnlock, Drop, Visited, Casts
<1>4. /\ casting'[w] \in Broadcast \union {None}
      /\ Casts(w)' => casting'[w].todo \subseteq sseClients
      /\ \A c \in Clients : Pending(w, c)' => Pending(w, c)
  <2>1. CASE casting'[w] = None
    BY <2>1, Zenon DEF Pending, Casts
  <2>2. CASE casting[w] # None /\ ~casting[w].locked /\ casting'[w] = [locked |-> TRUE, todo |-> sseClients]
    <3>1. sseClients \subseteq Clients
      BY Zenon DEF StreamInv, StreamType
    <3>2. casting'[w] \in Broadcast /\ casting'[w].todo = sseClients
      BY <2>2, <3>1, BroadcastBegun, Zenon
    <3>3. QED
      BY <2>2, <3>2, Zenon DEF Pending
  <2>3. ASSUME NEW d \in Clients, casting[w] # None, casting'[w] = [casting[w] EXCEPT !.todo = @ \ {d}]
        PROVE  <1>4!:
    <3>1. casting[w] \in Broadcast
      BY <2>3, Zenon DEF StreamInv, StreamType
    <3>2. /\ casting'[w] \in Broadcast /\ casting'[w].locked = casting[w].locked
          /\ casting'[w].todo = casting[w].todo \ {d}
      BY <2>3, <3>1, BroadcastVisited
    <3>3. casting[w].locked => casting[w].todo \subseteq sseClients
      BY <2>3, Zenon DEF StreamInv, MapGuarded, Casts
    <3>4. QED
      BY <2>3, <3>2, <3>3, Zenon DEF Pending, Casts
  <2>4. QED
    BY <1>3, <2>1, <2>2, <2>3, Zenon
<1>5. StreamType' /\ MapGuarded'
  <2>1. casting' \in [Writers -> Broadcast \union {None}]
    <3>1. casting' = [casting EXCEPT ![w] = casting'[w]]
      BY Zenon DEF StreamInv, StreamType, RLock, RUnlock, Drop, Visited
    <3>2. QED
      BY <1>4, <3>1, Zenon DEF StreamInv, StreamType
  <2>2. StreamType'
    BY <1>1, <2>1, Zenon DEF StreamInv, StreamType
  <2>3. QED
    BY <1>1, <1>2, <1>4, <2>2, Zenon DEF StreamInv, MapGuarded, Casts
<1>6. \A c \in Clients : Stream(c)' = Stream(c)
  BY <1>1, Zenon DEF Stream
<1>7. \A c \in Clients, x \in Writers : Pending(x, c)' => Pending(x, c)
  BY <1>2, <1>4, Zenon DEF Pending
<1>8. Past'
  BY <1>1, <1>6, <1>7, Zenon DEF StreamInv, Past
<1>9. InOrder'
  BY <1>6, Zenon DEF StreamInv, InOrder
<1>10. QED
  BY <1>5, <1>8, <1>9, Zenon DEF StreamInv

(* Sending: the client is in the map, so its channel is open, and the      *)
(* event is later than all of this writer's in its stream.                 *)
LEMMA SendPreserves ==
  ASSUME StreamInv, NEW w \in Writers, NEW c \in Clients, SendTo(w, c)
  PROVE  StreamInv'
<1>1. casting[w] \in Broadcast /\ casting[w].locked /\ c \in casting[w].todo
  BY Zenon DEF StreamInv, StreamType, SendTo, Casts
<1>2. c \notin closed
  BY <1>1, Zenon DEF StreamInv, MapGuarded, Casts, SendTo
<1>3. clientChan' = [clientChan EXCEPT ![c] = Append(@, <<w, made[w]>>)] /\ ~panicked'
  BY <1>2, Zenon DEF StreamInv, MapGuarded, SendTo, Current
<1>4. casting' = [casting EXCEPT ![w].todo = @ \ {c}]
      /\ UNCHANGED <<handler, sseClients, closed, written, made>>
  BY Zenon DEF SendTo, Visited
<1>5. casting'[w] = [casting[w] EXCEPT !.todo = @ \ {c}] /\ casting'[w] \in Broadcast
      /\ \A x \in Writers : x # w => casting'[x] = casting[x]
  BY <1>1, <1>4, Zenon DEF StreamInv, StreamType, Broadcast
<1>6. StreamType'
  BY <1>3, <1>4, <1>5 DEF StreamInv, StreamType, Sent
<1>7. MapGuarded'
  <2>1. casting'[w].todo \subseteq casting[w].todo
    BY <1>1, <1>5, Zenon DEF Broadcast
  <2>2. QED
    BY <1>1, <1>3, <1>4, <1>5, <2>1, Zenon DEF StreamInv, MapGuarded, Casts, SendTo
<1>8. Stream(c)' = Append(Stream(c), <<w, made[w]>>)
  <2>1. clientChan'[c] = Append(clientChan[c], <<w, made[w]>>) /\ written'[c] = written[c]
    BY <1>3, <1>4, Zenon DEF StreamInv, StreamType
  <2>2. <<w, made[w]>> \in Sent
    BY Zenon DEF StreamInv, StreamType, Sent
  <2>3. QED
    BY <2>1, <2>2, AppendConcat DEF StreamInv, StreamType, Stream
<1>9. \A d \in Clients : d # c => Stream(d)' = Stream(d)
  BY <1>3, <1>4, Zenon DEF StreamInv, StreamType, Stream
<1>10. \A d \in Clients, x \in Writers : Pending(x, d)' => Pending(x, d) /\ (x = w => d # c)
  <2>1. casting'[w].locked /\ casting'[w].todo = casting[w].todo \ {c}
    BY <1>1, <1>5, Zenon DEF Broadcast
  <2>2. casting[w] # None
    BY Zenon DEF SendTo, Casts
  <2>3. QED
    BY <1>5, <2>1, <2>2, Zenon DEF Pending
<1>11. Pending(w, c)
  BY <1>1, Zenon DEF Pending, SendTo, Casts
<1> DEFINE s == Stream(c)
<1>12. s \in Seq(Sent) /\ made[w] \in Nat /\ <<w, made[w]>> \in Sent
  BY StreamTyped, Zenon DEF StreamInv, StreamType, Sent
<1>13. \A i \in 1..Len(s) : s[i][1] = w => s[i][2] < made[w]
  BY <1>11, Zenon DEF StreamInv, Past
<1>14. PICK t : t = Stream(c)'
  BY Zenon
<1>15. /\ DOMAIN t = 1..(Len(s) + 1) /\ Len(t) = Len(s) + 1 /\ Len(s) \in Nat
       /\ t[Len(s) + 1] = <<w, made[w]>>
       /\ \A i \in 1..Len(s) : t[i] = s[i]
  <2> HIDE DEF s
  <2> QED
    BY <1>8, <1>12, <1>14, AppendLast DEF s
<1>16. Past'
  <2> SUFFICES ASSUME NEW d \in Clients, NEW i \in 1..Len(Stream(d)'), NEW x \in Writers,
                      Stream(d)'[i][1] = x
               PROVE  /\ Stream(d)'[i][2] <= made[x]
                      /\ Pending(x, d)' => Stream(d)'[i][2] < made[x]
    BY <1>4, Zenon DEF Past
  <2>1. CASE d # c
    BY <1>9, <1>10, <2>1, Zenon DEF StreamInv, Past
  <2>2. CASE d = c /\ i \in 1..Len(s)
    <3>1. Stream(d)'[i] = s[i]
      BY <1>14, <1>15, <2>2, Zenon
    <3>2. QED
      BY <1>10, <2>2, <3>1, Zenon DEF StreamInv, Past
  <2>3. CASE d = c /\ i = Len(s) + 1
    <3>1. x = w /\ Stream(d)'[i][2] = made[w]
      BY <1>14, <1>15, <2>3
    <3>2. ~Pending(x, d)'
      BY <1>10, <2>3, <3>1, Zenon
    <3>3. made[w] <= made[w]
      BY <1>12
    <3> QED
      BY <3>1, <3>2, <3>3, Zenon
  <2>4. CASE d = c
    <3>1. i \in 1..(Len(s) + 1)
      BY <1>14, <1>15, <2>4, Zenon
    <3>2. i \in 1..Len(s) \/ i = Len(s) + 1
      <4> HIDE DEF s
      <4> QED
        BY <1>15, <3>1
    <3> QED
      BY <2>2, <2>3, <2>4, <3>2, Zenon
  <2> QED
    BY <2>1, <2>4, Zenon
<1>17. InOrder'
  <2> SUFFICES ASSUME NEW d \in Clients, NEW i \in DOMAIN Stream(d)', NEW j \in DOMAIN Stream(d)',
                      i < j, Stream(d)'[i][1] = Stream(d)'[j][1]
               PROVE  Stream(d)'[i][2] < Stream(d)'[j][2]
    BY Zenon DEF InOrder
  <2>1. CASE d # c
    BY <1>9, <2>1, Zenon DEF StreamInv, InOrder
  <2>2. CASE d = c
    <3>1. i \in 1..(Len(s) + 1) /\ j \in 1..(Len(s) + 1) /\ t[i][1] = t[j][1]
      BY <1>14, <1>15, <2>2, Zenon
    <3>2. t[i][2] < t[j][2]
      <4>1. CASE j \in 1..Len(s)
        <5>1. i \in 1..Len(s) /\ t[i] = s[i] /\ t[j] = s[j]
          BY <1>15, <3>1, <4>1
        <5>2. i \in DOMAIN s /\ j \in DOMAIN s
          BY <4>1, <5>1, StreamTyped, Zenon DEF StreamInv
        <5>3. s[i][2] < s[j][2]
          BY <3>1, <5>1, <5>2, Zenon DEF StreamInv, InOrder
        <5> QED
          BY <5>1, <5>3, Zenon
      <4>2. CASE j = Len(s) + 1
        <5>1. i \in 1..Len(s) /\ t[i] = s[i] /\ t[j] = <<w, made[w]>>
          BY <1>15, <3>1, <4>2
        <5> QED
          BY <1>13, <3>1, <5>1
      <4> QED
        BY <1>15, <3>1, <4>1, <4>2
    <3> QED
      BY <1>14, <2>2, <3>2, Zenon
  <2>3. QED
    BY <2>1, <2>2, Zenon
<1> QED
  BY <1>6, <1>7, <1>16, <1>17, Zenon DEF StreamInv

LEMMA StreamStep == StreamInv /\ [StreamNext]_streamVars => StreamInv'
<1> SUFFICES ASSUME StreamInv, [StreamNext]_streamVars PROVE StreamInv'
  BY Zenon
<1>1. CASE UNCHANGED streamVars
  <2>1. \A c \in Clients : Stream(c)' = Stream(c)
    BY <1>1, Zenon DEF streamVars, Stream
  <2>2. StreamType' /\ MapGuarded' /\ UNCHANGED <<made, casting>>
    BY <1>1, Zenon DEF streamVars, StreamInv, StreamType, MapGuarded, Casts
  <2>3. QED
    BY <2>1, <2>2, OrderKept, Zenon DEF StreamInv
<1>2. ASSUME NEW c \in Clients, Connect(c) \/ StreamEvent(c) \/ Disconnect(c) \/ handleSSE(c) PROVE StreamInv'
  BY <1>2, HandlerPreserves, Zenon
<1>3. ASSUME NEW w \in Writers, CallBroadcast(w) PROVE StreamInv'
  BY <1>3, CallPreserves, Zenon
<1>4. ASSUME NEW w \in Writers, BroadcastEvent(w) PROVE StreamInv'
  BY <1>4, LockPreserves, SendPreserves, Zenon DEF BroadcastEvent
<1>5. QED
  BY <1>1, <1>2, <1>3, <1>4, Zenon DEF StreamNext

LEMMA StreamInvHolds == StreamSpec => []StreamInv
BY StreamStarts, StreamStep, PTL DEF StreamSpec

(* However clients connect and leave beside their calls, a broadcast       *)
(* never sends on a closed channel, which would end the controller         *)
(* (internal/mcp/server.go, handleSSE and BroadcastEvent): the lock keeps  *)
(* a client in the map while a broadcast has it before it.                 *)
THEOREM BroadcastSafe == StreamSpec => []NoSendOnClosed
<1>1. StreamInv => NoSendOnClosed
  BY Zenon DEF StreamInv, MapGuarded, NoSendOnClosed
<1>2. QED
  BY <1>1, StreamInvHolds, PTL

(* Each client sees the events one goroutine broadcasts in the order of    *)
(* its calls and none of them twice (the same functions), for any number   *)
(* of clients, goroutines and events and any capacity.                     *)
THEOREM StreamsInOrder == StreamSpec => []InOrder
<1>1. StreamInv => InOrder
  BY Zenon DEF StreamInv
<1>2. QED
  BY <1>1, StreamInvHolds, PTL

=============================================================================
