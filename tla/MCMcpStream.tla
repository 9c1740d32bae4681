---------------------------- MODULE MCMcpStream -----------------------------
(***************************************************************************)
(* An instance of the MCP event stream for TLC.  A behaviour is of one of  *)
(* two scenarios: two writers and one client, or one writer and two        *)
(* clients.                                                                *)
(***************************************************************************)
EXTENDS McpStream

CONSTANTS c1, c2, w1, w2

VARIABLE scenario

MCInit == StreamInit /\ scenario \in {"writers", "clients"}

Within ==
  /\ scenario = "writers" => handler'[c2] = "away"
  /\ scenario = "clients" => made'[w2] = 0

MCNext == StreamNext /\ Within /\ UNCHANGED scenario
MCSpec == MCInit /\ [][MCNext]_<<streamVars, scenario>> /\ Fairness

=============================================================================
