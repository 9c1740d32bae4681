--------------------------- MODULE MCRequirements ---------------------------
(***************************************************************************)
(* Instances of the requirement rules for TLC.  A behaviour is of one of   *)
(* five scenarios, each of one workload and of the objects that come and   *)
(* go around it.                                                           *)
(***************************************************************************)
EXTENDS Requirements

CONSTANTS n1, x1, x2, a, b

VARIABLE scenario

(* A workload that needs nothing but what a scenario gives it.             *)
Plain == [name |-> x1, namespace |-> n1, metricsPort |-> FALSE, podLabels |-> {}, labels |-> {a, b},
          sidecar |-> FALSE, clusterIssuer |-> None, issuer |-> None]

WorkloadOf ==
  [monitor |-> [Plain EXCEPT !.metricsPort = TRUE],
   routing |-> [Plain EXCEPT !.sidecar = TRUE, !.podLabels = {a}],
   mtls |-> Plain,
   cert |-> [Plain EXCEPT !.issuer = a],
   cluster |-> [Plain EXCEPT !.issuer = b, !.clusterIssuer = a]]

MCWorkloads == {WorkloadOf[s] : s \in DOMAIN WorkloadOf}
MCKeys == MCWorkloads \X {ruleOrder[i] : i \in DOMAIN ruleOrder}

Object(gvr, ns, name, selector, hosts) ==
  [gvr |-> gvr, namespace |-> ns, name |-> name, selector |-> selector, hosts |-> hosts]
Host(name, ns) == [name |-> name, namespace |-> ns]

ObjectsOf ==
  [monitor |-> {Object("servicemonitors", n1, a, {a}, {}), Object("podmonitors", n1, a, {}, {}),
                Object("podmonitors", n1, b, None, {})},
   routing |-> {Object("virtualservices", n1, a, None, {Host(x2, None), Host(x1, n1)}),
                Object("destinationrules", n1, a, None, {Host(x1, None)}),
                Object("destinationrules", n1, b, None, {Host(x1, IstioSystem)})},
   mtls |-> {Object("namespaces", n1, n1, None, {}), Object("peerauthentications", n1, a, {a}, {}),
             Object("peerauthentications", IstioSystem, a, {}, {}),
             Object("peerauthentications", IstioSystem, b, {a}, {})},
   cert |-> {Object("issuers", n1, a, None, {}), Object("issuers", n1, b, None, {})},
   cluster |-> {Object("clusterissuers", None, a, None, {}), Object("issuers", n1, b, None, {})}]

MCObjects == UNION {ObjectsOf[s] : s \in DOMAIN ObjectsOf}

MCInit ==
  /\ ReqInit
  /\ scenario \in DOMAIN ObjectsOf
  /\ cluster \subseteq ObjectsOf[scenario]
  /\ key = <<WorkloadOf[scenario], ruleOrder[1]>>

Within == cluster' \subseteq ObjectsOf[scenario] /\ key'[1] = WorkloadOf[scenario]

MCNext == ReqNext /\ Within /\ UNCHANGED scenario
MCSpec == MCInit /\ [][MCNext]_<<allVars, scenario>>

=============================================================================
