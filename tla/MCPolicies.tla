----------------------------- MODULE MCPolicies -----------------------------
(***************************************************************************)
(* Instances of the policies for TLC.  A behaviour belongs to a scenario,  *)
(* which says what objects come and go, what profiles are made for them    *)
(* and whether questions are asked; so the scenarios' states add up and do *)
(* not multiply.  "registry" has three adapters that overlap and uses the  *)
(* operations of the registry directly.                                    *)
(***************************************************************************)
EXTENDS Policies, TLC

VARIABLE scenario

MCGroupOf ==
  [networkpolicies |-> "networking", ingresses |-> "networking", resourcequotas |-> "core",
   limitranges |-> "core", validatingwebhookconfigurations |-> "admission",
   mutatingwebhookconfigurations |-> "admission", anyconstraint |-> "gatekeeper",
   k8srequiredlabels |-> "gatekeeper", clusterpolicies |-> "kyverno", policies |-> "kyverno",
   ciliumnetworkpolicies |-> "cilium", ciliumclusterwidenetworkpolicies |-> "cilium",
   firewalls |-> "custom", g1 |-> "gr1", g2 |-> "gr1", g3 |-> "gr2", g4 |-> "gr2"]

MCHandles ==
  [networkpolicy |-> <<"networkpolicies">>, resourcequota |-> <<"resourcequotas">>,
   limitrange |-> <<"limitranges">>,
   webhookconfig |-> <<"validatingwebhookconfigurations", "mutatingwebhookconfigurations">>,
   gatekeeper |-> <<"anyconstraint">>, kyverno |-> <<"clusterpolicies", "policies">>,
   cilium |-> <<"ciliumnetworkpolicies", "ciliumclusterwidenetworkpolicies">>,
   a1 |-> <<"g1", "g3">>, a2 |-> <<"g2", "g4">>, a3 |-> <<"g4", "g1">>]

MCBootOrder == <<"networkpolicy", "resourcequota", "limitrange", "webhookconfig", "gatekeeper", "kyverno">>

(* Key by key: GVR, kind, namespace and versions.                          *)
MCObjects ==
  [np |-> <<"networkpolicies", "NetworkPolicy", "n1", {"npBoth", "npEgress", "noSpec"}>>,
   ing |-> <<"ingresses", "Ingress", "n1", {"ingress"}>>,
   quota |-> <<"resourcequotas", "ResourceQuota", "n2", {"quota90", "quota75", "quotaIdle"}>>,
   limits |-> <<"limitranges", "LimitRange", "n1", {"oneLimit", "twoLimits"}>>,
   vwc |-> <<"validatingwebhookconfigurations", "ValidatingWebhookConfiguration", ClusterScope,
             {"twoWebhooks", "ownFirst"}>>,
   mwc |-> <<"mutatingwebhookconfigurations", "MutatingWebhookConfiguration", ClusterScope, {"ownFirst"}>>,
   gk |-> <<"k8srequiredlabels", "K8sRequiredLabels", ClusterScope, {"gkDeny", "gkWarn"}>>,
   cpol |-> <<"clusterpolicies", "ClusterPolicy", ClusterScope, {"twoRules", "enforced", "noRules"}>>,
   pol |-> <<"policies", "Policy", "n2", {"enforced"}>>,
   fw |-> <<"firewalls", "Firewall", "n1", {"annotated", "ruled"}>>,
   cnp |-> <<"ciliumnetworkpolicies", "CiliumNetworkPolicy", "n1", {"cnpDeny", "cnpSpecs", "noSpec"}>>,
   ccnp |-> <<"ciliumclusterwidenetworkpolicies", "CiliumClusterwideNetworkPolicy", ClusterScope, {"cnpEmpty"}>>]

MCKeys == DOMAIN MCObjects
MCGvrOf == [k \in MCKeys |-> MCObjects[k][1]]
MCKindOf == [k \in MCKeys |-> MCObjects[k][2]]
MCNamespaceOf == [k \in MCKeys |-> MCObjects[k][3]]
MCVersions == [k \in MCKeys |-> MCObjects[k][4]]
MCNameOf == [k \in MCKeys |-> IF k = "pol" THEN "cpol" ELSE k]

Plain(content) == [annotations |-> [owner |-> "team"], content |-> content]

Resources(group, kind) == [kinds |-> {[group |-> group, kind |-> kind]}]

Webhook(name, own, policy) ==
  [name |-> name, nightjar |-> own, failurePolicy |-> policy,
   rules |-> <<[apiGroups |-> {"*"}, resources |-> {"pods"}], [apiGroups |-> {"apps"}, operations |-> {"CREATE"}]>>]

MCContentOf ==
  [noSpec |-> Plain([kind |-> "any"]),
   npBoth |-> Plain([spec |-> [policyTypes |-> {"Ingress", "Egress"}, podSelector |-> {"app"}]]),
   npEgress |-> Plain([spec |-> [policyTypes |-> {"Egress"}]]),
   ingress |-> Plain([spec |-> [rules |-> <<>>]]),
   quota90 |-> Plain([spec |-> [hard |-> [cpu |-> 10, mem |-> 8]], status |-> [used |-> [cpu |-> 9, mem |-> 1]]]),
   quota75 |-> Plain([spec |-> [hard |-> [cpu |-> 10, mem |-> 8]], status |-> [used |-> [cpu |-> 1, mem |-> 7]]]),
   quotaIdle |-> Plain([spec |-> [hard |-> [cpu |-> 0]], status |-> [used |-> [cpu |-> 1]]]),
   oneLimit |-> Plain([spec |-> [limits |-> <<[max |-> 2]>>]]),
   twoLimits |-> Plain([spec |-> [limits |-> <<[type |-> "Pod"], [max |-> 2]>>]]),
   twoWebhooks |-> Plain([webhooks |-> <<Webhook("a", FALSE, "Fail"), Webhook("b", FALSE, "Ignore")>>]),
   ownFirst |-> Plain([webhooks |-> <<Webhook("own", TRUE, "Ignore"), Webhook("b", FALSE, "Fail")>>]),
   gkDeny |-> Plain([spec |-> [match |-> [namespaces |-> {"n1"}, labelSelector |-> {"app"},
                                          kinds |-> <<[apiGroups |-> {"apps"}, kinds |-> {"Deployment"}],
                                                      [apiGroups |-> {""}]>>]]]),
   gkWarn |-> Plain([spec |-> [enforcementAction |-> "warn"]]),
   twoRules |-> Plain([spec |-> [rules |->
                  <<[name |-> "r", does |-> {"validate"},
                     match |-> [any |-> <<[resources |-> Resources(None, "Pod")], [subjects |-> <<>>]>>,
                                all |-> <<[resources |-> [namespaces |-> {"n1"}, selector |-> {"web"}]]>>]],
                    [does |-> {"mutate"}, match |-> [resources |-> Resources("apps", "Deployment")]]>>]]),
   enforced |-> Plain([spec |-> [validationFailureAction |-> "Enforce",
                                 rules |-> <<[name |-> "r", does |-> {"validate", "generate"}]>>]]),
   noRules |-> Plain([spec |-> [validationFailureAction |-> "Enforce"]]),
   annotated |-> [annotations |-> [severity |-> "Critical"],
                  content |-> [spec |-> [podSelector |-> {"web"}, target |-> {"app"}]]],
   ruled |-> Plain([spec |-> [rules |-> <<[name |-> "r", does |-> {}]>>]]),
   cnpDeny |-> Plain([spec |-> [endpointSelector |-> {"app"}, ingress |-> <<"rule">>, egressDeny |-> <<"rule">>]]),
   cnpSpecs |-> Plain([specs |-> <<[ingressDeny |-> <<"rule">>], [egress |-> <<"rule">>]>>]),
   cnpEmpty |-> Plain([spec |-> [endpointSelector |-> {"app"}]])]

MCPluralOf == [Pod |-> "pods", Deployment |-> "deployments"]
MCGvrOfKind == [k \in {"K8sRequiredLabels"} |-> "k8srequiredlabelss"]
MCRequests == {[group |-> "", kind |-> "Pod"], [group |-> "apps", kind |-> "Deployment"]}

Config(g, adapter, severity, path) == [gvr |-> g, adapter |-> adapter, severity |-> severity, selectorPath |-> path]

(* Objects and profiles of each scenario.                                  *)
KeysOf ==
  [registry |-> {}, network |-> {"np", "ing"}, limit |-> {"quota", "limits"}, webhook |-> {"vwc", "mwc"},
   gatekeeper |-> {"gk"}, kyverno |-> {"cpol", "pol"}, custom |-> {"fw"}, cilium |-> {"cnp", "ccnp"},
   views |-> {"np", "gk", "quota"}]

ConfigsOf ==
  [s \in DOMAIN KeysOf |->
     CASE s = "network" -> {Config("networkpolicies", "", "", "")}
       [] s = "gatekeeper" -> {Config("k8srequiredlabels", "", "Info", "")}
       [] s = "custom" -> {Config("firewalls", "generic", "Warning", "target"), Config("firewalls", "kyverno", "", "")}
       [] OTHER -> {}]

MCConfigs == UNION {ConfigsOf[s] : s \in DOMAIN ConfigsOf}

MCInit == scenario \in DOMAIN KeysOf /\ InitOver(KeysOf[scenario])

RegistryCall ==
  /\ scenario = "registry"
  /\ \E a \in {"a1", "a2", "a3"} :
       Register(a) \/ Unregister(a) \/ \E g \in {"g1", "g2", "g3", "g4"} : RegisterGVR(g, a) \/ UnregisterGVR(g)

(* main leaves out cilium; here it is registered, or it is not.            *)
RegisterCilium == scenario = "cilium" /\ booted = 0 /\ Register("cilium")

Elsewhere == UNCHANGED <<booted, cluster, job, engine, byUID, answer, history>>

(* Fewer changes where there are more versions or questions.               *)
Within ==
  /\ scenario # "registry"
  /\ \A p \in Profiles : profiles'[p] \in ConfigsOf[scenario] \union {None}
  /\ scenario \in {"network", "limit", "cilium", "custom"} => writes' < MaxWrites
  /\ scenario = "views" => \A k \in Keys : stored[k] # None => stored'[k] = stored[k]

(* Questions are asked of an index at rest.                                *)
AskAtRest == scenario = "views" /\ (\A k \in Keys : Settled(k)) /\ Ask

MCNext ==
  /\ \/ (RegistryCall \/ RegisterCilium) /\ Elsewhere
     \/ Work /\ Within
     \/ AskAtRest
  /\ UNCHANGED scenario

(* Objects that occur together have different numbers: three conditions of *)
(* each kind are enough for all of them.                                   *)
Number ==
  [k \in MCKeys |-> IF k \in {"np", "limits", "vwc", "cpol", "fw", "cnp"} THEN 1 ELSE IF k = "quota" THEN 3 ELSE 2]

Numbered(i) == {k \in Keys : Number[k] = i}

(* Main goes on, UnregisterProfile returns, informers catch up with the    *)
(* API server and their handlers return, and every cached object of a      *)
(* watched GVR is resynced again and again.                                *)
Fairness ==
  /\ WF_all(Boot) /\ []<>(cleaning = {})
  /\ \A i \in 1..3 :
       /\ []<>(\A k \in Numbered(i) : log[k] = <<>> /\ job[gvrOf[k]] = None)
       /\ \/ []<><<\E k \in Numbered(i) : Resync(k)>>_all
          \/ []<>(\A k \in Numbered(i) : cached[k] = None \/ gvrOf[k] \notin watched)

MCSpec == MCInit /\ [][MCNext]_<<all, scenario>> /\ Fairness

=============================================================================
