----------------------------- MODULE MCPipeline -----------------------------
(***************************************************************************)
(* Instances of the notification pipeline for TLC.  A behaviour is of one  *)
(* of four scenarios, which bound what the environment does: in "echo"     *)
(* time passes and events recur, without flows; in "refusal" the rate      *)
(* limiters and the API server refuse; in "flows" drops are observed; in   *)
(* "stop" the context may be cancelled at any point.                       *)
(***************************************************************************)
EXTENDS Pipeline

CONSTANTS e1, f1, u1, p1, Scenarios

VARIABLE scenario

AllWarnings == External \union Own
Lookup == [x \in AllWarnings \union Flows |-> IF x \in Flows THEN <<Uids, Uids>> ELSE <<Uids>>]
OwnKey == [x \in AllWarnings \union Flows |-> x]
AllKeys == AllWarnings \union Flows
Workload == [x \in AllWarnings |-> IF x \in Own THEN x[1] ELSE p1]

MCInit == InitPipeline /\ scenario \in Scenarios

Within ==
  /\ scenario \in {"echo", "refusal"} => dropsCh' = {} /\ ~cancelled'
  /\ scenario = "echo" => refused' = {} /\ throttled' = {} /\ failures' = {}
  /\ scenario = "refusal" => now' <= 1
  /\ scenario = "flows" => existing' = {} /\ ~cancelled'
  /\ scenario = "stop" => now' = 0 /\ throttled' = {} /\ refused' = {}

MCNext == NextPipeline /\ Within /\ UNCHANGED scenario
MCSpec == MCInit /\ [][MCNext]_<<allVars, scenario>> /\ Fairness

=============================================================================
