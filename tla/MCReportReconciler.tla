------------------------- MODULE MCReportReconciler -------------------------
(***************************************************************************)
(* An instance of the report reconciler for TLC.                           *)
(***************************************************************************)
EXTENDS ReportReconciler

CONSTANTS n1, n2, u1, u2, w1, w2

(* A report is empty, or an earlier run of the program left one behind.    *)
LeftBehind == {{}, {[uid |-> u1, namespace |-> n1, affected |-> {}, rev |-> 0]}}

In(ns, as) == [namespace |-> ns, affected |-> as]

(* A constraint of a namespace that affects another one too for a while,   *)
(* and one of the whole cluster.                                           *)
MovingAndClusterWide ==
  [u \in {u1, u2} |-> IF u = u1 THEN {In(n1, {n2}), In(n1, {})} ELSE {In(ClusterScope, {})}]

=============================================================================
