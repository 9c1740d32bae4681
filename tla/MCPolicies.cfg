SPECIFICATION MCSpec
CONSTANTS
  None = None
  NoConstraint = NoConstraint
  ClusterScope = ClusterScope
  Adapters = {"networkpolicy", "resourcequota", "limitrange", "webhookconfig", "gatekeeper", "kyverno", "cilium", "a1", "a2", "a3"}
  Groups = {"networking", "core", "admission", "gatekeeper", "kyverno", "cilium", "custom", "gr1", "gr2"}
  GVRs = {"networkpolicies", "ingresses", "resourcequotas", "limitranges", "validatingwebhookconfigurations", "mutatingwebhookconfigurations", "anyconstraint", "k8srequiredlabels", "clusterpolicies", "policies", "ciliumnetworkpolicies", "ciliumclusterwidenetworkpolicies", "firewalls", "g1", "g2", "g3", "g4"}
  groupOf <- MCGroupOf
  Handles <- MCHandles
  BootOrder <- MCBootOrder
  gvrOf <- MCGvrOf
  kindOf <- MCKindOf
  nameOf <- MCNameOf
  namespaceOf <- MCNamespaceOf
  contentOf <- MCContentOf
  Versions <- MCVersions
  Profiles = {"p1"}
  Configs <- MCConfigs
  Namespaces = {"n1", "n2"}
  Labels = {"app", "web"}
  Requests <- MCRequests
  pluralOf <- MCPluralOf
  gvrOfKind <- MCGvrOfKind
  MaxIncarnations = 2
  MaxParts = 2
  MaxWrites = 4
  MaxProfileChanges = 2
INVARIANTS LeftoversExplained GroupKnown Forewarned CountsAgree
PROPERTIES FirstWins ObjectsIndexed
CHECK_DEADLOCK FALSE
