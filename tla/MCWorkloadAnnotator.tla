------------------------ MODULE MCWorkloadAnnotator ------------------------
(***************************************************************************)
(* An instance of the workload annotator for TLC: two namespaces with a    *)
(* workload in each, and two workers.  A behaviour is of one of three      *)
(* scenarios: two changes of anything and a failing call ("wide"), more    *)
(* changes of one namespace ("burst"), or a cancelled context ("stop").    *)
(***************************************************************************)
EXTENDS WorkloadAnnotator

CONSTANTS n1, n2, x1, x2, w1, k1, k2

VARIABLE scenario

OneEach == [x \in {x1, x2} |-> IF x = x1 THEN n1 ELSE n2]

MCInit == Init /\ scenario \in {"wide", "burst", "stop"}

Within ==
  /\ scenario = "wide" => changes' <= 2
  /\ scenario = "burst" => version'[n2] = 0 /\ failures' = 0
  /\ scenario = "stop" =>
       /\ changes' <= (IF life = "running" THEN 1 ELSE 2) /\ failures' = 0
       /\ changes' > changes => missed' = missed
       /\ \A n \in Namespaces : nsCache[n] # None => nsCache'[n] # None
  /\ scenario # "stop" => life' = "running"

MCNext == Next /\ Within /\ UNCHANGED scenario
MCSpec == MCInit /\ [][MCNext]_<<vars, scenario>> /\ Fairness

=============================================================================
