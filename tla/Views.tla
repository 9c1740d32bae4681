------------------------------- MODULE Views --------------------------------
(***************************************************************************)
(* What Nightjar tells people and agents about the index: the tools and    *)
(* resources of the MCP server (internal/mcp/handlers.go), the API         *)
(* (internal/api), the status of a ConstraintReport, the warnings of the   *)
(* admission webhook, and the totals of "nightjar status".                 *)
(*                                                                         *)
(* The index is a map and its iteration order is random: a handler sees    *)
(* the constraints in any order.  sort.Slice is not stable, so constraints *)
(* of the same severity come out in any order too.  Missing prerequisites, *)
(* which come from the requirements evaluator, are left to that module;    *)
(* remediation texts and redaction do not choose among constraints and are *)
(* left out.                                                               *)
(***************************************************************************)
EXTENDS Integers, Sequences, SequencesExt, FiniteSets, FiniteSetsExt, Indexer

CONSTANTS
  Namespaces,
  Labels,        \* label sets of workloads
  Requests,      \* what is admitted: records of an API group and a kind
  pluralOf,      \* strings.ToLower(kind) + "s"
  None

VARIABLES
  byUID,     \* the index
  answer     \* the last answer given; None once something else has happened

Classes == {"network", "admission", "quota"}

Reply(a) == answer' = a /\ UNCHANGED byUID

(* The namespaces that constraints name: "" when an adapter puts it among  *)
(* the affected ones.                                                      *)
Mentioned == UNION {c.affected \union ({c.namespace} \ {ClusterScope}) : c \in All(byUID)}

ByLabels(ns, labels) == {c \in ByNamespace(byUID, ns) : labels \in c.selects}

-----------------------------------------------------------------------------
(* nightjar_query.                                                         *)
filterConstraints(cs, type, severity) ==
  {c \in cs : type \in {None, c.type} /\ severity \in {None, c.severity}}

severityOrder(severity) ==
  CASE severity = "Critical" -> 0 [] severity = "Warning" -> 1 [] severity = "Info" -> 2 [] OTHER -> 3

BySeverity(cs) ==
  {s \in SetToSeqs(cs) : \A i, j \in DOMAIN s :
     i < j => severityOrder(s[i].severity) <= severityOrder(s[j].severity)}

HandleQuery(ns, labels, type, severity) ==
  LET cs == IF labels = None THEN ByNamespace(byUID, ns) ELSE ByLabels(ns, labels)
  IN  \E s \in BySeverity(filterConstraints(cs, type, severity)) :
        Reply([tool |-> "query", ns |-> ns, constraints |-> s])

-----------------------------------------------------------------------------
(* nightjar_explain: classes are the pattern lists the message matches.    *)
TypesOf(class) ==
  CASE class = "network" -> {"NetworkIngress", "NetworkEgress"}
    [] class = "admission" -> {"Admission"}
    [] class = "quota" -> {"ResourceLimit"}

OfClass(cs, classes, class) ==
  IF class \in classes THEN {c \in cs : c.type \in TypesOf(class)} ELSE {}

(* The first class with a constraint, otherwise everything.                *)
matchErrorToConstraints(classes, cs) ==
  LET tried == SelectSeq(<<"network", "admission", "quota">>,
                         LAMBDA class : OfClass(cs, classes, class) # {})
  IN  IF tried = <<>> THEN <<cs, "low">> ELSE <<OfClass(cs, classes, tried[1]), "high">>

HandleExplain(ns, classes) ==
  LET m == matchErrorToConstraints(classes, ByNamespace(byUID, ns))
  IN  Reply([tool |-> "explain", ns |-> ns, classes |-> classes, matches |-> m[1], confidence |-> m[2]])

-----------------------------------------------------------------------------
(* nightjar_check.                                                         *)
Blocking(c) == c.type = "Admission" /\ c.severity = "Critical"

HandleCheck(ns, labels) ==
  LET cs == ByLabels(ns, labels)
  IN  Reply([tool |-> "check", ns |-> ns, labels |-> labels,
             blocking |-> {c \in cs : Blocking(c)},
             warnings |-> {c \in cs : ~Blocking(c) /\ c.severity = "Warning"}])

-----------------------------------------------------------------------------
(* nightjar_list_namespaces: nsMap gets a constraint for each namespace it *)
(* affects and once more for its own; then each UID is kept once.          *)
Collected(s, ns) ==
  FlattenSeq([i \in DOMAIN s |->
    (IF ns \in s[i].affected THEN <<s[i]>> ELSE <<>>)
    \o (IF s[i].namespace = ns /\ ns # ClusterScope THEN <<s[i]>> ELSE <<>>)])

Unique_Never(s) == s

Unique(s) ==
  FoldLeft(LAMBDA unique, c : IF \E i \in DOMAIN unique : unique[i].uid = c.uid THEN unique ELSE Append(unique, c),
           <<>>, s)

OfSeverity(s, severity) == Len(SelectSeq(s, LAMBDA c : c.severity = severity))

(* A warning replaces an info; nothing else replaces what came first.      *)
TopConstraint(s) ==
  LET w == SelectInSeq(s, LAMBDA c : c.severity = "Warning")
  IN  IF s[1].severity = "Info" /\ w # 0 THEN s[w] ELSE s[1]

Summary(s) ==
  [total |-> Len(s), criticalCount |-> OfSeverity(s, "Critical"),
   warningCount |-> OfSeverity(s, "Warning"), infoCount |-> OfSeverity(s, "Info"),
   top |-> TopConstraint(s)]

HandleListNamespaces ==
  \E s \in SetToSeqs(All(byUID)) :
    Reply([tool |-> "list",
           summaries |-> [ns \in Mentioned |-> Summary(Unique(Collected(s, ns)))]])

-----------------------------------------------------------------------------
(* nightjar_remediation and constraints/{namespace}/{name}: the first      *)
(* constraint with that name.                                              *)
HandleRemediation(ns, name) ==
  LET found == {c \in ByNamespace(byUID, ns) : c.name = name}
  IN  \E c \in IF found = {} THEN {None} ELSE found :
        Reply([tool |-> "remediation", ns |-> ns, name |-> name, target |-> c])

-----------------------------------------------------------------------------
(* The admission webhook: GET /api/v1/constraints, then buildWarnings.     *)
constraintApplies(req, c) ==
  \/ c.targets = {}
  \/ \E t \in c.targets :
       /\ t.groups = {} \/ {"*", req.group} \intersect t.groups # {}
       /\ {"*", pluralOf[req.kind]} \intersect t.resources # {}

buildWarnings_WarningOnly(req, cs) ==
  {c \in cs : c.severity = "Warning" /\ constraintApplies(req, c)}

buildWarnings(req, cs) ==
  {c \in cs : c.severity \in {"Warning", "Critical"} /\ constraintApplies(req, c)}

Admit(ns, req) ==
  Reply([tool |-> "admission", ns |-> ns, request |-> req,
         warnings |-> buildWarnings(req, ByNamespace(byUID, ns))])

-----------------------------------------------------------------------------
(* GET /api/v1/capabilities, and the health and capabilities resources.    *)
Capabilities ==
  Reply([tool |-> "capabilities", total |-> Cardinality(All(byUID)), namespaces |-> Cardinality(Mentioned)])

(* buildReportStatus, and the reports resource, which counts the same way. *)
Tally(cs, severity) == Cardinality({c \in cs : c.severity = severity})

buildReportStatus(cs) ==
  [constraintCount |-> Cardinality(cs), criticalCount |-> Tally(cs, "Critical"),
   warningCount |-> Tally(cs, "Warning"), infoCount |-> Tally(cs, "Info")]

HandleReportResource(ns) ==
  Reply([tool |-> "report", ns |-> ns, status |-> buildReportStatus(ByNamespace(byUID, ns))])

(* "nightjar status" adds up what the ConstraintReports say.  They are up  *)
(* to date here; ReportReconciler models when they are.                    *)
StatusOf(ns) == buildReportStatus(ByNamespace(byUID, ns))

RunStatus ==
  LET total(count(_)) == MapThenSumSet(LAMBDA ns : count(StatusOf(ns)), Namespaces)
  IN  Reply([tool |-> "status",
             total |-> total(LAMBDA st : st.constraintCount), critical |-> total(LAMBDA st : st.criticalCount),
             warning |-> total(LAMBDA st : st.warningCount), info |-> total(LAMBDA st : st.infoCount)])

Tools(ns) ==
  \/ \E labels \in Labels \union {None}, type \in {c.type : c \in All(byUID)} \union {None},
        severity \in {c.severity : c \in All(byUID)} \union {None} :
       HandleQuery(ns, labels, type, severity)
  \/ \E classes \in SUBSET Classes : HandleExplain(ns, classes)
  \/ \E labels \in Labels : HandleCheck(ns, labels)
  \/ \E name \in {c.name : c \in All(byUID)} \union {None} : HandleRemediation(ns, name)
  \/ \E req \in Requests : Admit(ns, req)
  \/ HandleReportResource(ns)

Answers ==
  \/ \E ns \in Namespaces : Tools(ns)
  \/ HandleListNamespaces \/ Capabilities \/ RunStatus

-----------------------------------------------------------------------------
(* Properties.                                                             *)

Answered(tool) == answer # None /\ answer.tool = tool

(* Whatever nightjar_check announces for a manifest, the admission webhook *)
(* warns of when the manifest is applied, if the constraint's targets      *)
(* include the resource: HandleCheck and buildWarnings go different ways   *)
(* through the same index.                                                 *)
Forewarned ==
  Answered("check") =>
    \A c \in answer.blocking \union answer.warnings : \A req \in Requests :
      constraintApplies(req, c) => c \in buildWarnings(req, ByNamespace(byUID, answer.ns))

(* What of the constraints of a namespace names it.                        *)
Naming(ns) == {c \in ByNamespace(byUID, ns) : c.namespace # ClusterScope \/ ns \in c.affected}

(* The three ways to count agree.  The summary of a namespace, which       *)
(* HandleListNamespaces collects twice over from all constraints, counts   *)
(* as a report of those of its constraints that name it would.  The totals *)
(* of "nightjar status" add up the summaries of all namespaces, and count  *)
(* a cluster-scoped constraint once more for each namespace it does not    *)
(* name.                                                                   *)
CountsAgree ==
  /\ Answered("list") =>
       \A ns \in DOMAIN answer.summaries :
         LET s == answer.summaries[ns]
         IN  buildReportStatus(Naming(ns)) =
               [constraintCount |-> s.total, criticalCount |-> s.criticalCount,
                warningCount |-> s.warningCount, infoCount |-> s.infoCount]
  /\ Answered("status") =>
       LET listed(ns) == Unique(Collected(SetToSeq(All(byUID)), ns))
           unnamed(cs) == MapThenSumSet(LAMBDA c : Cardinality(Namespaces \ c.affected),
                                        {c \in cs : c.namespace = ClusterScope})
           counted(severity) ==
             MapThenSumSet(LAMBDA ns : OfSeverity(listed(ns), severity), Namespaces)
             + unnamed({c \in All(byUID) : c.severity = severity})
       IN  /\ answer.total = MapThenSumSet(LAMBDA ns : Len(listed(ns)), Namespaces) + unnamed(All(byUID))
           /\ answer.critical = counted("Critical") /\ answer.warning = counted("Warning")
           /\ answer.info = counted("Info")

=============================================================================
