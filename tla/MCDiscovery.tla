---------------------------- MODULE MCDiscovery ----------------------------
(***************************************************************************)
(* An instance of the discovery engine for TLC.                            *)
(*                                                                         *)
(*   quota    a native resource, handled by a one-constraint adapter       *)
(*   custom   a CRD with one profile, which names the per-rule adapter,    *)
(*            or with the is-policy annotation                             *)
(*   second   a CRD that two profiles name                                 *)
(*                                                                         *)
(* A behaviour is of one of three scenarios, which bound what the          *)
(* environment does: it changes objects of quota ("native"), those of      *)
(* custom, its profile and its annotation ("apart"), or the two profiles   *)
(* for second ("shared").                                                  *)
(***************************************************************************)
EXTENDS Discovery

CONSTANTS quota, custom, second, o1, o2, p1, p2, p3

VARIABLE scenario

Enabled(g, a) == [gvr |-> g, adapter |-> a, enabled |-> TRUE]
Disabled(g) == [gvr |-> g, adapter |-> "generic", enabled |-> FALSE]

QuotaAndCustom == [o \in {o1, o2} |-> IF o = o1 THEN quota ELSE custom]
OneAndTwo == [p \in {p1, p2, p3} |->
  IF p = p1 THEN {Enabled(custom, "rules"), Disabled(custom)} ELSE {Enabled(second, "generic")}]

MCInit == Init /\ scenario \in {"native", "apart", "shared"}

Within ==
  /\ scenario = "native" => desired' = desired /\ objects'[o2] = None /\ crdAnnotated' = {}
  /\ scenario = "apart" => objects'[o1] = None /\ \A p \in {p2, p3} : desired'[p] = None
  /\ scenario = "shared" => objects' = objects /\ desired'[p1] = None /\ crdAnnotated' = {} /\ ~stopped'

MCNext == Next /\ Within /\ UNCHANGED scenario
MCSpec == MCInit /\ [][MCNext]_<<vars, scenario>> /\ Fairness

=============================================================================
