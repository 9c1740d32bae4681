---------------------------- MODULE MCServiceMap ----------------------------
(***************************************************************************)
(* Instances of the service map for TLC: two services of one namespace     *)
(* that expose the same port, of which one is headless at times, may have  *)
(* the same cluster IP one after the other, and select the same pod.       *)
(***************************************************************************)
EXTENDS ServiceMap

CONSTANTS s1, s2, n1, ip1, ip2, pod

Port(port, name) == [port |-> port, name |-> name]
Service(ip, ports) == [clusterIP |-> ip, ports |-> ports]

MCNsOf == [s \in Services |-> n1]

(* Port 53 twice: over TCP and over UDP.                                   *)
MCSpecsOf ==
  [s \in Services |->
     IF s = s1 THEN {Service(ip1, <<Port(80, "web")>>), Service(ip2, <<Port(80, "web"), Port(53, "dns")>>)}
     ELSE {Service(ip1, <<Port(80, "web")>>), Service(None, <<Port(53, "dns"), Port(53, "dns-tcp")>>)}]

Endpoint(port, name) == [ip |-> pod, port |-> port, name |-> name]

(* A port of s1 gets a name that the service does not have.                *)
MCEndpointsOf ==
  [s \in Services |->
     IF s = s1 THEN {<<Endpoint(8080, "web"), Endpoint(53, "dns")>>, <<Endpoint(8080, "http"), Endpoint(53, "dns")>>}
     ELSE {<<Endpoint(8080, "web")>>, <<Endpoint(53, "dns"), Endpoint(53, "dns-tcp")>>}]

=============================================================================
