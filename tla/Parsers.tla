------------------------------ MODULE Parsers -------------------------------
(***************************************************************************)
(* What the adapters make of an object (internal/adapters/*/adapter.go).   *)
(*                                                                         *)
(* An object is a record with its uid, gvr, kind, name, namespace          *)
(* (ClusterScope when it has none), annotations and content.  The content  *)
(* and the maps in it are functions whose domain is the set of fields that *)
(* are there, as in an unstructured object: a field may be missing at any  *)
(* level.  A label selector is the set of label sets it matches.           *)
(*                                                                         *)
(* A constraint keeps the fields by which the index, the views and the     *)
(* webhook choose: summaries, details, effects, hints, tags and the copy   *)
(* of the object are left out, and so are namespace selectors, which       *)
(* nothing reads.                                                          *)
(***************************************************************************)
EXTENDS Integers, Sequences, SequencesExt

CONSTANTS
  Labels,        \* label sets of workloads
  ClusterScope,
  None,
  pluralOf,      \* strings.ToLower(kind) + "s"
  gvrOfKind      \* the GVR gatekeeper's gvrFromObject makes up for a kind

(* util: a missing field is nil, and so is a field of nil.                 *)
SafeNested(m, field) == IF m = None THEN None ELSE IF field \in DOMAIN m THEN m[field] ELSE None

OrElse(value, default) == IF value = None THEN default ELSE value

SafeNestedString(m, field, default) == OrElse(SafeNested(m, field), default)
SafeNestedStringSlice(m, field) == OrElse(SafeNested(m, field), {})
SafeNestedSlice(m, field) == OrElse(SafeNested(m, field), <<>>)

(* A nil selector matches everything.                                      *)
Selects(selector) == OrElse(selector, Labels)

(* The UID of the object; that UID with "-i" or with "-rule-i" appended.   *)
Whole(obj) == Append(obj.uid, 0)
Part(obj, i) == Append(obj.uid, i)
RulePart(obj, i) == Append(obj.uid, -i)

Constraint(obj, source, type, severity) ==
  [uid |-> Whole(obj), source |-> source, name |-> <<obj.name>>, namespace |-> obj.namespace,
   affected |-> {obj.namespace}, type |-> type, severity |-> severity, selects |-> Labels, targets |-> {}]

ParseError == [failed |-> TRUE, constraints |-> <<>>]
Parsed(constraints) == [failed |-> FALSE, constraints |-> constraints]

When(condition, seq) == IF condition THEN seq ELSE <<>>

-----------------------------------------------------------------------------
(* networkpolicy: both directions get the UID of the object.               *)
networkpolicyParse(obj) ==
  LET spec == SafeNested(obj.content, "spec")
      policyTypes == SafeNestedStringSlice(spec, "policyTypes")
      C(type) == [Constraint(obj, "networkpolicies", type, "Warning") EXCEPT
                    !.selects = Selects(SafeNested(spec, "podSelector"))]
  IN  IF spec = None THEN ParseError
      ELSE Parsed(When("Ingress" \in policyTypes \/ policyTypes = {}, <<C("NetworkIngress")>>)
                  \o When("Egress" \in policyTypes, <<C("NetworkEgress")>>))

-----------------------------------------------------------------------------
(* cilium: a constraint for each direction of each spec, again with the    *)
(* UID of the object.                                                      *)
getSpecs(obj) ==
  LET specs == SafeNestedSlice(obj.content, "specs")
      spec == SafeNested(obj.content, "spec")
  IN  IF specs # <<>> THEN specs ELSE When(spec # None, <<spec>>)

ciliumParse(obj) ==
  LET clusterWide == obj.kind = "CiliumClusterwideNetworkPolicy"
      source == IF clusterWide THEN "ciliumclusterwidenetworkpolicies" ELSE "ciliumnetworkpolicies"
      C(spec, type, severity) ==
        [Constraint(obj, source, type, severity) EXCEPT
           !.affected = IF clusterWide THEN {} ELSE @ \ {ClusterScope},
           !.selects = Selects(SafeNested(spec, "endpointSelector"))]
      Has(spec, field) == SafeNestedSlice(spec, field) # <<>>
      Directed(spec, allow, deny, type) ==
        When(Has(spec, allow) \/ Has(spec, deny),
             <<C(spec, type, IF Has(spec, deny) THEN "Critical" ELSE "Warning")>>)
      Rules(spec) == Directed(spec, "ingress", "ingressDeny", "NetworkIngress")
                     \o Directed(spec, "egress", "egressDeny", "NetworkEgress")
      OfSpec(spec) == IF Rules(spec) = <<>> THEN <<C(spec, "NetworkIngress", "Critical")>> ELSE Rules(spec)
      specs == getSpecs(obj)
  IN  IF specs = <<>> THEN ParseError
      ELSE Parsed(FlattenSeq([i \in 1..Len(specs) |-> OfSpec(specs[i])]))

-----------------------------------------------------------------------------
(* resourcequota: the severity is that of the resource used most.  hard    *)
(* and used map resource names to quantities.                              *)
UsedAtLeast(hard, used, percent) ==
  \E r \in DOMAIN hard : r \in DOMAIN used /\ hard[r] # 0 /\ used[r] * 100 >= percent * hard[r]

resourcequotaParse(obj) ==
  LET spec == SafeNested(obj.content, "spec")
      hard == OrElse(SafeNested(spec, "hard"), <<>>)
      used == OrElse(SafeNested(SafeNested(obj.content, "status"), "used"), <<>>)
      severity == IF UsedAtLeast(hard, used, 90) THEN "Critical"
                  ELSE IF UsedAtLeast(hard, used, 75) THEN "Warning" ELSE "Info"
  IN  IF spec = None THEN ParseError
      ELSE Parsed(When(DOMAIN hard # {}, <<Constraint(obj, "resourcequotas", "ResourceLimit", severity)>>))

(* limitrange: a constraint for each entry.                                *)
limitrangeParse(obj) ==
  LET spec == SafeNested(obj.content, "spec")
      limits == SafeNestedSlice(spec, "limits")
      C(i) == [Constraint(obj, "limitranges", "ResourceLimit", "Info") EXCEPT
                 !.uid = Part(obj, i),
                 !.name = <<obj.name, SafeNestedString(limits[i], "type", "Container"), i>>]
  IN  IF spec = None THEN ParseError ELSE Parsed([i \in 1..Len(limits) |-> C(i)])

-----------------------------------------------------------------------------
(* webhookconfig: a constraint for each webhook that is not Nightjar's.    *)
(* nightjar: whether its name or that of its service says so.              *)
parseRules(rules) ==
  {[groups |-> SafeNestedStringSlice(r, "apiGroups"), resources |-> SafeNestedStringSlice(r, "resources")] :
     r \in {r \in ToSet(rules) : SafeNestedStringSlice(r, "apiGroups") # {}
                                 /\ SafeNestedStringSlice(r, "resources") # {}}}

shouldSkipWebhook(webhook) == webhook.nightjar

webhookconfigParse(obj) ==
  LET webhooks == SafeNestedSlice(obj.content, "webhooks")
      source == IF obj.kind = "ValidatingWebhookConfiguration"
                THEN "validatingwebhookconfigurations" ELSE "mutatingwebhookconfigurations"
      C(i) == [Constraint(obj, source, "Admission",
                          IF SafeNestedString(webhooks[i], "failurePolicy", "Fail") = "Fail"
                          THEN "Warning" ELSE "Info") EXCEPT
                 !.uid = Part(obj, i), !.name = <<obj.name, webhooks[i].name>>,
                 !.namespace = ClusterScope, !.affected = {},
                 !.targets = parseRules(SafeNestedSlice(webhooks[i], "rules"))]
      kept == SelectSeq([i \in 1..Len(webhooks) |-> i], LAMBDA i : ~shouldSkipWebhook(webhooks[i]))
  IN  Parsed([n \in 1..Len(kept) |-> C(kept[n])])

-----------------------------------------------------------------------------
(* gatekeeper: the source is made up from the kind, and the constraint is  *)
(* cluster-scoped whatever namespaces it matches.                          *)
mapEnforcementToSeverity(action) ==
  CASE action = "warn" -> "Warning" [] action = "dryrun" -> "Info" [] OTHER -> "Critical"

extractResourceTargets(match) ==
  {[groups |-> SafeNestedStringSlice(k, "apiGroups"), resources |-> {pluralOf[kind] : kind \in k.kinds}] :
     k \in {k \in ToSet(SafeNestedSlice(match, "kinds")) : SafeNestedStringSlice(k, "kinds") # {}}}

gatekeeperParse(obj) ==
  LET spec == SafeNested(obj.content, "spec")
      match == SafeNested(spec, "match")
      severity == mapEnforcementToSeverity(SafeNestedString(spec, "enforcementAction", "deny"))
  IN  IF spec = None THEN ParseError
      ELSE Parsed(<<[Constraint(obj, gvrOfKind[obj.kind], "Admission", severity) EXCEPT
                       !.namespace = ClusterScope,
                       !.affected = SafeNestedStringSlice(match, "namespaces"),
                       !.selects = Selects(SafeNested(match, "labelSelector")),
                       !.targets = extractResourceTargets(match)]>>)

-----------------------------------------------------------------------------
(* kyverno: a constraint for each rule.  A kind is a record of its group,  *)
(* None when only the kind is given, and its name.                         *)
extractFromResources(resources) ==
  LET kinds == SafeNestedStringSlice(resources, "kinds")
  IN  IF kinds = {} THEN {}
      ELSE {[groups |-> {k.group : k \in kinds} \ {None}, resources |-> {pluralOf[k.kind] : k \in kinds}]}

(* The resources blocks of a match: the legacy field, then any, then all.  *)
Present(maps, field) == SelectSeq([i \in DOMAIN maps |-> SafeNested(maps[i], field)], LAMBDA v : v # None)

Clauses(match) ==
  Present(<<match>>, "resources") \o Present(SafeNestedSlice(match, "any"), "resources")
  \o Present(SafeNestedSlice(match, "all"), "resources")

(* The namespaces and targets of all blocks, the selector of the first     *)
(* block that has one.                                                     *)
FirstSelector(selectors) == IF selectors = <<>> THEN None ELSE Head(selectors)

MatchInfo(blocks) ==
  [namespaces |-> UNION {SafeNestedStringSlice(r, "namespaces") : r \in ToSet(blocks)},
   targets |-> UNION {extractFromResources(r) : r \in ToSet(blocks)},
   selector |-> FirstSelector(Present(blocks, "selector"))]

extractMatchInfo(match) == MatchInfo(Clauses(match))

(* does: the blocks of a rule among validate, mutate, generate and         *)
(* verifyImages; validate comes first.                                     *)
ruleSeverity(rule, globalAction) ==
  IF "validate" \notin rule.does THEN "Info"
  ELSE IF SafeNestedString(rule, "validationFailureAction", globalAction) = "Enforce" THEN "Critical"
  ELSE "Warning"

mapRuleTypeToConstraintType(rule) == IF rule.does = {} THEN "Unknown" ELSE "Admission"

parseRule(obj, rule, i, globalAction, info) ==
  LET clusterPolicy == obj.kind = "ClusterPolicy"
      ownNamespace == ~clusterPolicy /\ obj.namespace # ClusterScope /\ info.namespaces = {}
  IN  [Constraint(obj, IF clusterPolicy THEN "clusterpolicies" ELSE "policies",
                  mapRuleTypeToConstraintType(rule), ruleSeverity(rule, globalAction)) EXCEPT
         !.uid = RulePart(obj, i),
         !.name = IF "name" \in DOMAIN rule THEN <<obj.name, rule.name>> ELSE <<obj.name, "rule", i>>,
         !.affected = IF ownNamespace THEN {obj.namespace} ELSE info.namespaces,
         !.selects = Selects(info.selector), !.targets = info.targets]

parsePolicyRules(obj, rules, globalAction) ==
  IF rules = <<>> THEN ParseError
  ELSE Parsed([i \in 1..Len(rules) |->
                 parseRule(obj, rules[i], i, globalAction, extractMatchInfo(SafeNested(rules[i], "match")))])

kyvernoParse(obj) ==
  LET spec == SafeNested(obj.content, "spec")
  IN  parsePolicyRules(obj, SafeNestedSlice(spec, "rules"),
                       SafeNestedString(spec, "validationFailureAction", "Audit"))

-----------------------------------------------------------------------------
(* generic: one constraint for any object, described by annotations, and   *)
(* by a ConstraintProfile cfg unless cfg is None.  A severity or a type    *)
(* nobody knows leaves the default.                                        *)
Known(value, set, default) == IF value \in set THEN value ELSE default

extractSelectors(spec) ==
  LET fields == SelectSeq(<<"selector", "podSelector", "workloadSelector">>,
                          LAMBDA f : SafeNested(spec, f) # None)
  IN  IF fields = <<>> THEN None ELSE spec[fields[1]]

ParseWithGVR(obj, gvr) ==
  LET severity == SafeNestedString(obj.annotations, "severity", "Info")
      type == SafeNestedString(obj.annotations, "constraint-type", "Unknown")
  IN  [Constraint(obj, gvr,
                  Known(type, {"NetworkIngress", "NetworkEgress", "Admission", "ResourceLimit", "MeshPolicy",
                               "MissingResource"}, "Unknown"),
                  Known(severity, {"Critical", "Warning"}, "Info")) EXCEPT
         !.affected = @ \ {ClusterScope},
         !.selects = Selects(extractSelectors(SafeNested(obj.content, "spec")))]

ParseWithConfig(obj, gvr, cfg) ==
  LET c == ParseWithGVR(obj, gvr)
      configured == SafeNested(SafeNested(obj.content, "spec"), cfg.selectorPath)
  IN  [c EXCEPT
         !.severity = IF SafeNested(obj.annotations, "severity") = None
                      THEN Known(cfg.severity, {"Critical", "Warning", "Info"}, @) ELSE @,
         !.selects = OrElse(configured, @)]

genericParse(obj, gvr, cfg) ==
  Parsed(<<IF cfg = None THEN ParseWithGVR(obj, gvr) ELSE ParseWithConfig(obj, gvr, cfg)>>)

-----------------------------------------------------------------------------
(* Adapter.Parse of the adapter of that name.                              *)
AdapterParse(adapter, obj) ==
  CASE adapter = "networkpolicy" -> networkpolicyParse(obj)
    [] adapter = "resourcequota" -> resourcequotaParse(obj)
    [] adapter = "limitrange" -> limitrangeParse(obj)
    [] adapter = "webhookconfig" -> webhookconfigParse(obj)
    [] adapter = "gatekeeper" -> gatekeeperParse(obj)
    [] adapter = "kyverno" -> kyvernoParse(obj)
    [] adapter = "cilium" -> ciliumParse(obj)

=============================================================================
