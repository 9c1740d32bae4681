----------------------------- MODULE ServiceMap -----------------------------
(***************************************************************************)
(* The map from addresses and ports to services                            *)
(* (internal/servicemap/servicemap.go).  Two goroutines watch Services and *)
(* Endpoints; each event is applied under the map's lock.  A watch that    *)
(* ends is opened anew: it begins with an ADDED event for every object     *)
(* there is, and what was deleted in between is never mentioned.           *)
(*                                                                         *)
(* A service has a cluster IP, None when it is headless, and a sequence of *)
(* ports, each a number and a name.  Endpoints are a sequence of addresses *)
(* with a port: subsets are flattened.  An index maps an address and port  *)
(* to the service that owns it; the services that share a port number of a *)
(* namespace are a slice, of which how often each occurs is kept and the   *)
(* order is not.  Selectors, which only ServicesForPod reads, and          *)
(* protocols are left out.                                                 *)
(***************************************************************************)
EXTENDS Common, Integers, Sequences, FiniteSets

CONSTANTS
  Services,      \* services: a namespace and a name each
  nsOf,          \* the namespace of each service
  specsOf,       \* what each service may look like: clusterIP, ports
  endpointsOf,   \* the endpoints each service may have: ip, port, name
  MaxWrites, MaxBreaks

VARIABLES
  apiService, apiEndpoints,      \* what the API server has
  watcher,       \* per goroutine: "closed", "open" or "done"
  events,        \* per goroutine, the events of its watch
  cancelled,     \* ctx
  services, ipToService, portToServices, endpointToService,
  writes, breaks,                \* bounds of the instance
  seenWith,      \* the service entry with which its endpoints were last read
  held,          \* the endpoints each service ever had
  contested,     \* addresses of a service that another one had as well
  unseen,        \* services deleted between two watches
  lost           \* addresses of the endpoints a service lost without a DELETED event

api == <<apiService, apiEndpoints, writes, held>>
watches == <<watcher, events, cancelled, breaks, unseen>>
map == <<services, ipToService, portToServices, endpointToService, seenWith, contested>>
mapVars == <<api, watches, map, lost>>

Kinds == {"services", "endpoints"}

Elements(seq) == {seq[i] : i \in DOMAIN seq}
Last(indexes) == CHOOSE i \in indexes : \A j \in indexes : j <= i

Specs == UNION {specsOf[s] : s \in Services}
PortNumbers == UNION {{p.port : p \in Elements(spec.ports)} : spec \in Specs}
PortKeys == {nsOf[s] : s \in Services} \X PortNumbers
EmptyIndex(keys) == [key \in keys |-> None]

(* ServiceInfo: one for each port of a service.                            *)
Ports(spec) == IF spec = None THEN {} ELSE DOMAIN spec.ports
Info(s, spec, i) == [service |-> s, port |-> spec.ports[i].port, name |-> spec.ports[i].name, ip |-> spec.clusterIP]
Infos(s, spec) == {Info(s, spec, i) : i \in Ports(spec)}
ServiceInfo == UNION {Infos(s, spec) : s \in Services, spec \in Specs}

(* formatIPPort.                                                           *)
Key(ip, port) == <<ip, port>>
KeyOf(e) == Key(e.ip, e.port)
KeysOf(es) == {KeyOf(e) : e \in es}
EndpointKeys == UNION {KeysOf(Elements(es)) : es \in UNION {endpointsOf[s] : s \in Services}}
ServiceKeys == {Key(spec.clusterIP, p) : spec \in {spec \in Specs : spec.clusterIP # None}, p \in PortNumbers}

(* The ports of a service differ in number or name, and cluster IPs are    *)
(* not addresses of pods.                                                  *)
ASSUME ServiceMapAssumption ==
  /\ \A some \in SUBSET Services : Cardinality(some) \in Nat
  /\ None \notin ServiceInfo
  /\ \A s \in Services : None \notin specsOf[s] /\ None \notin endpointsOf[s]
  /\ \A spec \in Specs :
       /\ spec.ports \in Seq(Elements(spec.ports))
       /\ \A i, j \in DOMAIN spec.ports :
            spec.ports[i].port = spec.ports[j].port /\ spec.ports[i].name = spec.ports[j].name => i = j
  /\ \A s \in Services : \A es \in endpointsOf[s] : es \in Seq(Elements(es))
  /\ ServiceKeys \intersect EndpointKeys = {}

MapInit ==
  /\ apiService = [s \in Services |-> None]
  /\ apiEndpoints = [s \in Services |-> None]
  /\ watcher = [kind \in Kinds |-> "closed"]
  /\ events = [kind \in Kinds |-> <<>>]
  /\ cancelled = FALSE
  /\ services = [s \in Services |-> None]
  /\ ipToService = EmptyIndex(ServiceKeys)
  /\ portToServices = [key \in PortKeys |-> [info \in ServiceInfo |-> 0]]
  /\ endpointToService = EmptyIndex(EndpointKeys)
  /\ writes = 0 /\ breaks = 0
  /\ seenWith = [s \in Services |-> None]
  /\ held = [s \in Services |-> {}]
  /\ contested = {} /\ unseen = {}
  /\ lost = [s \in Services |-> {}]

-----------------------------------------------------------------------------
(* The API server.  No two services have one cluster IP at a time.  An     *)
(* event has the object it shows, None when it is DELETED.                 *)
Tell(kind, s, object) ==
  events' = IF watcher[kind] = "open"
            THEN [events EXCEPT ![kind] = Append(@, [service |-> s, object |-> object])] ELSE events

EndpointsOf(s) == IF apiEndpoints[s] = None THEN {} ELSE Elements(apiEndpoints[s])

WriteService(s, spec) ==
  /\ apiService[s] # spec
  /\ \A t \in Services \ {s} :
       apiService[t] # None => apiService[t].clusterIP = None \/ apiService[t].clusterIP # spec.clusterIP
  /\ apiService' = [apiService EXCEPT ![s] = spec]
  /\ Tell("services", s, spec)
  /\ UNCHANGED <<apiEndpoints, held, lost>>

DeleteService(s) ==
  /\ apiService[s] # None
  /\ apiService' = [apiService EXCEPT ![s] = None]
  /\ Tell("services", s, None)
  /\ UNCHANGED <<apiEndpoints, held, lost>>

WriteEndpoints(s, es) ==
  /\ apiService[s] # None /\ apiEndpoints[s] # es
  /\ apiEndpoints' = [apiEndpoints EXCEPT ![s] = es]
  /\ held' = [held EXCEPT ![s] = @ \union Elements(es)]
  /\ lost' = [lost EXCEPT ![s] = @ \union KeysOf(EndpointsOf(s) \ Elements(es))]
  /\ Tell("endpoints", s, es)
  /\ UNCHANGED apiService

DeleteEndpoints(s) ==
  /\ apiEndpoints[s] # None
  /\ apiEndpoints' = [apiEndpoints EXCEPT ![s] = None]
  /\ Tell("endpoints", s, None)
  /\ UNCHANGED <<apiService, held, lost>>

Write(s) ==
  /\ writes < MaxWrites /\ writes' = writes + 1
  /\ \/ \E spec \in specsOf[s] : WriteService(s, spec)
     \/ DeleteService(s)
     \/ \E es \in endpointsOf[s] : WriteEndpoints(s, es)
     \/ DeleteEndpoints(s)
  /\ UNCHANGED <<watcher, cancelled, breaks, unseen, map>>

-----------------------------------------------------------------------------
(* watchServices, watchEndpoints.                                          *)
Listed(kind) == IF kind = "services" THEN apiService ELSE apiEndpoints

(* Watch: an ADDED event for each object, in any order.                    *)
Added(listed) ==
  LET there == {s \in Services : listed[s] # None}
      orders == {order \in [1..Cardinality(there) -> there] : \A s \in there : \E i \in DOMAIN order : order[i] = s}
  IN  {[i \in DOMAIN order |-> [service |-> order[i], object |-> listed[order[i]]]] : order \in orders}

OpenWatch(kind) ==
  /\ watcher[kind] = "closed" /\ ~cancelled
  /\ watcher' = [watcher EXCEPT ![kind] = "open"]
  /\ \E added \in Added(Listed(kind)) : events' = [events EXCEPT ![kind] = added]
  /\ unseen' = IF kind = "services"
               THEN {s \in Services : services[s] # None /\ apiService[s] = None} ELSE unseen
  /\ lost' = IF kind = "endpoints"
             THEN [s \in Services |-> lost[s] \union KeysOf(held[s] \ EndpointsOf(s))] ELSE lost
  /\ UNCHANGED <<api, cancelled, breaks, map>>

(* The watch is closed, with what it had still to tell.                    *)
WatchEnds(kind) ==
  /\ watcher[kind] = "open" /\ breaks < MaxBreaks
  /\ watcher' = [watcher EXCEPT ![kind] = "closed"]
  /\ events' = [events EXCEPT ![kind] = <<>>]
  /\ breaks' = breaks + 1
  /\ UNCHANGED <<api, cancelled, unseen, map, lost>>

Cancel ==
  /\ ~cancelled
  /\ cancelled' = TRUE
  /\ UNCHANGED <<api, watcher, events, breaks, unseen, map, lost>>

(* The context is seen by select, or by the Watch call that fails.         *)
Stop(kind) ==
  /\ cancelled /\ watcher[kind] # "done"
  /\ watcher' = [watcher EXCEPT ![kind] = "done"]
  /\ UNCHANGED <<api, events, cancelled, breaks, unseen, map, lost>>

-----------------------------------------------------------------------------
(* The map.                                                                *)
Serves(spec, key) ==
  spec # None /\ spec.clusterIP # None /\ \E i \in DOMAIN spec.ports : Key(spec.clusterIP, spec.ports[i].port) = key

(* removeServiceFromIndexes: an address goes, whoever it belongs to.       *)
WithoutAddresses(ips, old) == [key \in ServiceKeys |-> IF Serves(old, key) THEN None ELSE ips[key]]

WithoutPorts(ports, s, old) ==
  [key \in PortKeys |->
     [info \in ServiceInfo |->
        IF key[1] = nsOf[s] /\ info.service = s /\ \E i \in Ports(old) : old.ports[i].port = key[2]
        THEN 0 ELSE ports[key][info]]]

(* The loop over the ports of upsertService: the last one with a number    *)
(* gets the address, and each, as no two are alike, is one more entry.     *)
WithAddresses(ips, s, spec) ==
  [key \in ServiceKeys |->
     IF Serves(spec, key) THEN Info(s, spec, Last({i \in DOMAIN spec.ports : spec.ports[i].port = key[2]}))
     ELSE ips[key]]

WithPorts(ports, s, spec) ==
  [key \in PortKeys |->
     [info \in ServiceInfo |->
        IF key = <<nsOf[s], info.port>> /\ info \in Infos(s, spec) THEN ports[key][info] + 1 ELSE ports[key][info]]]

upsertService_KeepsOld(s, spec) ==
  /\ ipToService' = WithAddresses(ipToService, s, spec)
  /\ portToServices' = WithPorts(portToServices, s, spec)
  /\ services' = [services EXCEPT ![s] = spec]

upsertService(s, spec) ==
  /\ ipToService' = WithAddresses(WithoutAddresses(ipToService, services[s]), s, spec)
  /\ portToServices' = WithPorts(WithoutPorts(portToServices, s, services[s]), s, spec)
  /\ services' = [services EXCEPT ![s] = spec]

(* A service that is not there leaves everything as it is.                 *)
deleteService(s) ==
  /\ ipToService' = WithoutAddresses(ipToService, services[s])
  /\ portToServices' = WithoutPorts(portToServices, s, services[s])
  /\ services' = [services EXCEPT ![s] = None]

Matches(e, p) == p.name = e.name \/ p.port = e.port
MatchingPorts(spec, e) == {i \in Ports(spec) : Matches(e, spec.ports[i])}
Matching(spec, es, key) == {i \in DOMAIN es : KeyOf(es[i]) = key /\ MatchingPorts(spec, es[i]) # {}}

(* upsertEndpoints: nothing without the service, and nothing is taken out. *)
(* Of several matches the last one stays.                                  *)
upsertEndpoints(s, es) ==
  /\ endpointToService' =
       [key \in EndpointKeys |->
          LET matching == Matching(services[s], es, key)
          IN  IF matching = {} THEN endpointToService[key]
              ELSE Info(s, services[s], Last(MatchingPorts(services[s], es[Last(matching)])))]
  /\ seenWith' = [seenWith EXCEPT ![s] = services[s]]

deleteEndpoints_ByPort(s) ==
  endpointToService' =
    [key \in EndpointKeys |->
       IF \E i \in Ports(services[s]) : services[s].ports[i].port = key[2] THEN None
       ELSE endpointToService[key]]

deleteEndpoints(s) ==
  endpointToService' =
    [key \in EndpointKeys |->
       IF endpointToService[key] # None /\ endpointToService[key].service = s THEN None ELSE endpointToService[key]]

ServiceEvent ==
  /\ watcher["services"] = "open" /\ events["services"] # <<>>
  /\ LET e == Head(events["services"])
     IN  IF e.object # None
         THEN /\ upsertService(e.service, e.object)
              /\ contested' = contested \union {key \in ServiceKeys : Serves(e.object, key)
                                 /\ \E t \in Services \ {e.service} : Serves(services[t], key)}
         ELSE deleteService(e.service) /\ UNCHANGED contested
  /\ events' = [events EXCEPT !["services"] = Tail(@)]
  /\ UNCHANGED <<api, watcher, cancelled, breaks, unseen, endpointToService, seenWith, lost>>

EndpointsEvent ==
  /\ watcher["endpoints"] = "open" /\ events["endpoints"] # <<>>
  /\ LET e == Head(events["endpoints"])
     IN  IF e.object # None THEN upsertEndpoints(e.service, e.object)
         ELSE deleteEndpoints(e.service) /\ UNCHANGED seenWith
  /\ events' = [events EXCEPT !["endpoints"] = Tail(@)]
  /\ UNCHANGED <<api, watcher, cancelled, breaks, unseen, services, ipToService, portToServices, contested, lost>>

(* Lookups.                                                                *)
GetService(s) == Infos(s, services[s])
ResolvePortInNamespace(ns, port) == portToServices[<<ns, port>>]

Look(lookup, key) == IF key \in DOMAIN lookup THEN lookup[key] ELSE None
ResolvePort(key) == IF Look(ipToService, key) # None THEN Look(ipToService, key) ELSE Look(endpointToService, key)

MapNext ==
  \/ \E s \in Services : Write(s)
  \/ \E kind \in Kinds : OpenWatch(kind) \/ WatchEnds(kind) \/ Stop(kind)
  \/ Cancel \/ ServiceEvent \/ EndpointsEvent

MapSpec == MapInit /\ [][MapNext]_mapVars

-----------------------------------------------------------------------------
(* Properties.                                                             *)

CaughtUp(kind) == watcher[kind] = "open" /\ events[kind] = <<>>

(* The port index lists every port of every known service once, and no     *)
(* other, through edits and deletions; an address resolves to a service    *)
(* that has it, and fails to only if two services had it one after the     *)
(* other and the map was not told of the end of the first; and once the    *)
(* watch has caught up a service that is no more is known only if it went  *)
(* between two watches.                                                    *)
ServiceIndexesExact ==
  /\ \A key \in PortKeys : \A info \in ServiceInfo :
       ResolvePortInNamespace(key[1], key[2])[info] =
         IF key = <<nsOf[info.service], info.port>> /\ info \in GetService(info.service) THEN 1 ELSE 0
  /\ \A key \in ServiceKeys :
       LET owners == {s \in Services : Serves(services[s], key)}
       IN  IF ResolvePort(key) = None THEN owners = {} \/ key \in contested
           ELSE ResolvePort(key).service \in owners
  /\ CaughtUp("services") =>
       \A s \in Services : services[s] = apiService[s] \/ (apiService[s] = None /\ s \in unseen)

(* Once the watch of Endpoints has caught up, an endpoint of a service     *)
(* resolves unless the service was unknown, or was another, when its       *)
(* Endpoints were read, or another service had the endpoint as well.  What *)
(* it resolves to is a service that has it, unless the service lost it to  *)
(* an edit or between two watches, or is gone or was edited since.         *)
EndpointsExplained ==
  CaughtUp("endpoints") => \A key \in EndpointKeys :
    LET info == ResolvePort(key)
        current == {s \in Services : apiEndpoints[s] # None /\ Matching(services[s], apiEndpoints[s], key) # {}}
        holders == {s \in Services : key \in KeysOf(held[s])}
    IN  IF info = None THEN \A s \in current : seenWith[s] # services[s] \/ holders # {s}
        ELSE info.service \in current \/ key \in lost[info.service] \/ info \notin GetService(info.service)

=============================================================================
