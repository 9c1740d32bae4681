-------------------------- MODULE ServiceMapProofs --------------------------
(***************************************************************************)
(* Proofs about the service map (ServiceMap): its indexes are exact for    *)
(* the services it knows, it knows the services there are once its watch   *)
(* has caught up, and an endpoint resolves as it should or for a reason    *)
(* that can be named.  The invariant is in two parts, as two goroutines    *)
(* each follow a watch of their own; each part relates the queue of events *)
(* to what the API server has and to what the map holds.                   *)
(***************************************************************************)
EXTENDS ServiceMap, WellFoundedInduction, TLAPS

(* What the Endpoints of a service may be.                                 *)
Lists == UNION {endpointsOf[s] : s \in Services}

(* The types of the state; of the indexes only the keys, as what they hold *)
(* is said below.                                                          *)
MapType ==
  /\ {apiService, services, seenWith} \subseteq [Services -> Specs \union {None}]
  /\ apiEndpoints \in [Services -> Lists \union {None}]
  /\ watcher \in [Kinds -> {"closed", "open", "done"}]
  /\ DOMAIN events = Kinds
  /\ events["services"] \in Seq([service : Services, object : Specs \union {None}])
  /\ events["endpoints"] \in Seq([service : Services, object : Lists \union {None}])
  /\ DOMAIN ipToService = ServiceKeys /\ DOMAIN endpointToService = EndpointKeys
  /\ DOMAIN held = Services /\ DOMAIN lost = Services

(* A nonempty set of positions has a last one: the order of the numbers    *)
(* below n, turned round, is well-founded.                                 *)
LEMMA Greatest ==
  ASSUME NEW n \in Nat, NEW I \in SUBSET (1..n), I # {}
  PROVE  Last(I) \in I
<1> DEFINE T == {n - i : i \in I}
<1>1. \A i \in I : i \in Int /\ 1 <= i /\ i <= n
  OBVIOUS
<1>2. T \subseteq Nat /\ T # {}
  <2>1. \A i \in I : n - i \in Nat
    BY <1>1
  <2>2. T \subseteq Nat
    BY <2>1, Zenon
  <2>3. T # {}
    BY Zenon
  <2> QED
    BY <2>2, <2>3, Zenon
<1>3. PICK x \in T : \A y \in T : ~ (<<y, x>> \in OpToRel(<, Nat))
  BY <1>2, NatLessThanWellFounded, WFMin, Zenon
<1>4. \A y \in T : ~(y < x)
  BY <1>2, <1>3, Zenon DEF OpToRel
<1>5. PICK i \in I : x = n - i
  BY Zenon
<1>6. \A j \in I : j <= i
  <2> TAKE j \in I
  <2>1. ~(n - j < x)
    BY <1>4, Zenon
  <2> QED
    BY <1>1, <1>5, <2>1
<1> QED
  BY <1>6, Zenon DEF Last

(* What an element, the tail and the extension of a sequence are.          *)
LEMMA ElementOf ==
  ASSUME NEW S, NEW q \in Seq(S), NEW i \in 1..Len(q)
  PROVE  q[i] \in S
OBVIOUS

(* The first element leaves the others in their order.                     *)
LEMMA TailOf ==
  ASSUME NEW S, NEW q \in Seq(S), q # <<>>
  PROVE  /\ Tail(q) \in Seq(S) /\ Len(Tail(q)) = Len(q) - 1 /\ Len(q) \in Nat \ {0}
         /\ Head(q) = q[1] /\ q[1] \in S
         /\ \A i \in 1..(Len(q) - 1) : Tail(q)[i] = q[i + 1]
OBVIOUS

(* An element that is added is behind the others.                          *)
LEMMA AppendOf ==
  ASSUME NEW S, NEW q \in Seq(S), NEW x \in S
  PROVE  /\ Append(q, x) \in Seq(S) /\ Len(Append(q, x)) = Len(q) + 1 /\ Len(q) \in Nat
         /\ Append(q, x)[Len(q) + 1] = x
         /\ \A i \in 1..Len(q) : Append(q, x)[i] = q[i]
OBVIOUS

(* The last event about a service shows it as the API server has it.       *)
Behind(queue, listed) ==
  \A i \in 1..Len(queue) :
    (\A j \in 1..Len(queue) : j > i => queue[j].service # queue[i].service)
      => queue[i].object = listed[queue[i].service]

(* No event is about the service.                                          *)
Silent(queue, s) == \A i \in 1..Len(queue) : queue[i].service # s

(* After an event about s, a service that no event is about is another     *)
(* one.                                                                    *)
LEMMA AppendSilent ==
  ASSUME NEW O, NEW queue \in Seq([service : Services, object : O]), NEW s \in Services, NEW x \in O,
         NEW queue2, queue2 = Append(queue, [service |-> s, object |-> x]),
         NEW t, Silent(queue2, t)
  PROVE  t # s /\ Silent(queue, t)
<1> DEFINE e == [service |-> s, object |-> x]
<1>1. e \in [service : Services, object : O] /\ e.service = s
  BY Zenon
<1>2. /\ Len(queue2) = Len(queue) + 1 /\ Len(queue) \in Nat
      /\ queue2[Len(queue) + 1] = e
      /\ \A i \in 1..Len(queue) : queue2[i] = queue[i]
  BY <1>1, AppendOf
<1> HIDE DEF e
<1> QED
  BY <1>1, <1>2 DEF Silent

(* All that changed is that s is now x.                                    *)
Updated(listed2, listed, s, x) == \A t \in Services : listed2[t] = IF t = s THEN x ELSE listed[t]

(* An event that shows the change keeps the queue as near to the API       *)
(* server as it was.                                                       *)
LEMMA AppendBehind ==
  ASSUME NEW O, NEW queue \in Seq([service : Services, object : O]), NEW s \in Services, NEW x \in O,
         NEW listed, Behind(queue, listed),
         NEW queue2, queue2 = Append(queue, [service |-> s, object |-> x]),
         NEW listed2, Updated(listed2, listed, s, x)
  PROVE  Behind(queue2, listed2)
<1> DEFINE e == [service |-> s, object |-> x]
<1>1. e \in [service : Services, object : O] /\ e.service = s /\ e.object = x
  BY Zenon
<1>2. /\ Len(queue2) = Len(queue) + 1 /\ Len(queue) \in Nat
      /\ queue2[Len(queue) + 1] = e
      /\ \A i \in 1..Len(queue) : queue2[i] = queue[i]
  BY <1>1, AppendOf
<1> HIDE DEF e
<1>3. ASSUME NEW i \in 1..Len(queue2), \A j \in 1..Len(queue2) : j > i => queue2[j].service # queue2[i].service
      PROVE  queue2[i].object = listed2[queue2[i].service]
  <2>1. CASE i = Len(queue) + 1
    BY <1>1, <1>2, <2>1, Zenon DEF Updated
  <2>2. CASE i \in 1..Len(queue)
    <3>1. queue2[i] = queue[i] /\ queue[i].service # s
      BY <1>1, <1>2, <1>3, <2>2
    <3>2. \A j \in 1..Len(queue) : j > i => queue[j].service # queue[i].service
      BY <1>2, <1>3, <2>2
    <3>3. queue[i].object = listed[queue[i].service]
      BY <2>2, <3>2, Zenon DEF Behind
    <3>4. queue[i].service \in Services
      <4>1. queue[i] \in [service : Services, object : O]
        BY <2>2, ElementOf, Zenon
      <4> QED
        BY <4>1, Zenon
    <3> QED
      BY <3>1, <3>3, <3>4, Zenon DEF Updated
  <2> QED
    BY <1>2, <2>1, <2>2
<1> QED
  BY <1>3, Zenon DEF Behind

(* Once the first event is applied, a service that no event is about was   *)
(* so before, or that event showed it as it is.                            *)
LEMMA TailBehind ==
  ASSUME NEW O, NEW queue \in Seq([service : Services, object : O]), queue # <<>>,
         NEW listed, Behind(queue, listed), NEW s, Silent(Tail(queue), s)
  PROVE  \/ Silent(queue, s)
         \/ Head(queue).service = s /\ Head(queue).object = listed[s]
<1> DEFINE E == [service : Services, object : O]
<1>1. /\ Tail(queue) \in Seq(E) /\ Len(Tail(queue)) = Len(queue) - 1 /\ Len(queue) \in Nat \ {0}
      /\ Head(queue) = queue[1]
      /\ \A i \in 1..(Len(queue) - 1) : Tail(queue)[i] = queue[i + 1]
  BY TailOf, Zenon
<1>2. \A j \in 1..Len(queue) : j > 1 => queue[j].service # s
  <2> TAKE j \in 1..Len(queue)
  <2> HAVE j > 1
  <2>1. j - 1 \in 1..(Len(queue) - 1) /\ Tail(queue)[j - 1] = queue[j]
    BY <1>1
  <2> QED
    BY <1>1, <2>1, Zenon DEF Silent
<1>3. CASE queue[1].service = s
  BY <1>1, <1>2, <1>3 DEF Behind
<1>4. CASE queue[1].service # s
  BY <1>1, <1>2, <1>4 DEF Silent
<1> QED
  BY <1>3, <1>4, Zenon

(* The events that remain are as near to the API server as they were.      *)
LEMMA TailKeepsBehind ==
  ASSUME NEW O, NEW queue \in Seq([service : Services, object : O]), queue # <<>>,
         NEW listed, Behind(queue, listed)
  PROVE  Behind(Tail(queue), listed)
<1> DEFINE E == [service : Services, object : O]
<1>1. /\ Tail(queue) \in Seq(E) /\ Len(Tail(queue)) = Len(queue) - 1 /\ Len(queue) \in Nat \ {0}
      /\ \A i \in 1..(Len(queue) - 1) : Tail(queue)[i] = queue[i + 1]
  BY TailOf, Zenon
<1>2. SUFFICES ASSUME NEW i \in 1..Len(Tail(queue)),
                      \A j \in 1..Len(Tail(queue)) : j > i => Tail(queue)[j].service # Tail(queue)[i].service
               PROVE  Tail(queue)[i].object = listed[Tail(queue)[i].service]
  BY Zenon DEF Behind
<1>3. i + 1 \in 1..Len(queue) /\ Tail(queue)[i] = queue[i + 1]
  BY <1>1
<1>4. \A j \in 1..Len(queue) : j > i + 1 => queue[j].service # queue[i + 1].service
  <2> TAKE j \in 1..Len(queue)
  <2> HAVE j > i + 1
  <2>1. j - 1 \in 1..Len(Tail(queue)) /\ j - 1 > i /\ Tail(queue)[j - 1] = queue[j]
    BY <1>1
  <2> QED
    BY <1>2, <1>3, <2>1, Zenon
<1> QED
  BY <1>3, <1>4, Zenon DEF Behind

(* A new watch tells of every object there is, as it is, and of no other.  *)
Anew(queue, listed, O) ==
  /\ queue \in Seq([service : Services, object : O])
  /\ Behind(queue, listed)
  /\ \A s \in Services : Silent(queue, s) => listed[s] = None
  /\ \A i \in 1..Len(queue) : queue[i].object # None /\ queue[i].object = listed[queue[i].service]

(* A watch that is opened is told of what there is, in any order.          *)
LEMMA NewWatch ==
  ASSUME NEW O, NEW listed \in [Services -> O], NEW queue \in Added(listed)
  PROVE  Anew(queue, listed, O)
<1> DEFINE there == {s \in Services : listed[s] # None}
           n == Cardinality(there)
<1>1. n \in Nat
  BY ServiceMapAssumption, Zenon DEF ServiceMapAssumption
<1>2. PICK order \in [1..n -> there] :
        /\ \A s \in there : \E i \in DOMAIN order : order[i] = s
        /\ queue = [i \in DOMAIN order |-> [service |-> order[i], object |-> listed[order[i]]]]
  BY Zenon DEF Added
<1> HIDE DEF n
<1>3. \A i \in 1..n : order[i] \in Services /\ listed[order[i]] # None /\ listed[order[i]] \in O
  BY Zenon
<1>4. \A i \in 1..n : queue[i].service = order[i] /\ queue[i].object = listed[order[i]]
                        /\ queue[i] \in [service : Services, object : O]
  BY <1>2, <1>3, Zenon
<1>5. queue \in Seq([service : Services, object : O]) /\ Len(queue) = n
  BY <1>1, <1>2, <1>4
<1> QED
  BY <1>2, <1>3, <1>4, <1>5 DEF Anew, Behind, Silent

-----------------------------------------------------------------------------
(* The ports of a service are a sequence.                                  *)
LEMMA PortsOf ==
  ASSUME NEW spec \in Specs
  PROVE  /\ spec # None /\ Ports(spec) = DOMAIN spec.ports
         /\ Len(spec.ports) \in Nat /\ DOMAIN spec.ports = 1..Len(spec.ports)
<1>1. spec.ports \in Seq(Elements(spec.ports))
  BY ServiceMapAssumption, Zenon DEF ServiceMapAssumption
<1>2. spec # None
  BY ServiceMapAssumption, Zenon DEF ServiceMapAssumption, Specs
<1> QED
  BY <1>1, <1>2 DEF Ports

(* The entry of the last of some ports of a service is one of its entries. *)
LEMMA LastPort ==
  ASSUME NEW s \in Services, NEW spec \in Specs, NEW I \in SUBSET DOMAIN spec.ports, I # {}
  PROVE  /\ Last(I) \in I
         /\ Info(s, spec, Last(I)) \in Infos(s, spec)
         /\ Info(s, spec, Last(I)) \in ServiceInfo
<1>1. Last(I) \in I
  BY PortsOf, Greatest, Zenon
<1>2. Info(s, spec, Last(I)) \in Infos(s, spec)
  BY <1>1, PortsOf, Zenon DEF Infos
<1> QED
  BY <1>1, <1>2 DEF ServiceInfo

(* An entry names the service it is of.                                    *)
LEMMA InfoOf ==
  ASSUME NEW info \in ServiceInfo
  PROVE  info # None /\ info.service \in Services
<1>1. PICK s \in Services, spec \in Specs : info \in Infos(s, spec)
  BY DEF ServiceInfo
<1>2. info.service = s
  BY <1>1 DEF Infos, Info
<1> QED
  BY <1>2, ServiceMapAssumption, Zenon DEF ServiceMapAssumption

(* upsertEndpoints gives an endpoint that matches a port of the service an *)
(* entry of the service, for an endpoint with that address.                *)
LEMMA UpsertEntries ==
  ASSUME MapType, NEW s \in Services, NEW es \in Lists, upsertEndpoints(s, es),
         NEW key \in EndpointKeys, Matching(services[s], es, key) # {}
  PROVE  /\ endpointToService'[key] # None /\ endpointToService'[key].service = s
         /\ \E e \in Elements(es) : KeyOf(e) = key /\ Matches(e, endpointToService'[key])
<1> DEFINE spec == services[s]
           m == Last(Matching(spec, es, key))
           p == Last(MatchingPorts(spec, es[m]))
<1>1. Matching(spec, es, key) \in SUBSET (1..Len(es)) /\ Len(es) \in Nat
  BY ServiceMapAssumption DEF ServiceMapAssumption, Lists, Matching
<1>2. m \in Matching(spec, es, key)
  BY <1>1, Greatest, Zenon
<1>3. m \in DOMAIN es /\ KeyOf(es[m]) = key /\ MatchingPorts(spec, es[m]) # {}
  BY <1>2, Zenon DEF Matching
<1>4. spec \in Specs /\ MatchingPorts(spec, es[m]) \in SUBSET DOMAIN spec.ports
  BY <1>3, PortsOf, Zenon DEF MatchingPorts, Ports, MapType
<1>5. p \in MatchingPorts(spec, es[m]) /\ Info(s, spec, p) \in ServiceInfo
  BY <1>3, <1>4, LastPort, Zenon
<1>6. endpointToService'[key] = Info(s, spec, p)
  BY Zenon DEF upsertEndpoints
<1> HIDE DEF m, p
<1>7. Matches(es[m], Info(s, spec, p)) /\ Info(s, spec, p).service = s
  BY <1>5, Zenon DEF MatchingPorts, Matches, Info
<1> QED
  BY <1>3, <1>5, <1>6, <1>7, InfoOf, Zenon DEF Elements

(* The queues: what the API server tells, and what a new watch tells.      *)
LEMMA TellType ==
  ASSUME MapType, NEW kind \in Kinds, NEW s \in Services,
         NEW x, x \in (IF kind = "services" THEN Specs ELSE Lists) \union {None}, Tell(kind, s, x)
  PROVE  /\ DOMAIN events' = Kinds
         /\ events'["services"] \in Seq([service : Services, object : Specs \union {None}])
         /\ events'["endpoints"] \in Seq([service : Services, object : Lists \union {None}])
<1>1. CASE watcher[kind] # "open"
  BY <1>1, Zenon DEF Tell, MapType
<1>2. CASE watcher[kind] = "open" /\ kind = "services"
  <2>1. events' = [events EXCEPT !["services"] = Append(@, [service |-> s, object |-> x])]
    BY <1>2, Zenon DEF Tell
  <2>2. [service |-> s, object |-> x] \in [service : Services, object : Specs \union {None}]
    BY <1>2, Zenon
  <2> QED
    BY <2>1, <2>2, AppendOf, Zenon DEF MapType, Kinds
<1>3. CASE watcher[kind] = "open" /\ kind = "endpoints"
  <2>1. events' = [events EXCEPT !["endpoints"] = Append(@, [service |-> s, object |-> x])]
    BY <1>3, Zenon DEF Tell
  <2>2. [service |-> s, object |-> x] \in [service : Services, object : Lists \union {None}]
    BY <1>3, Zenon
  <2> QED
    BY <2>1, <2>2, AppendOf, Zenon DEF MapType, Kinds
<1> QED
  BY <1>1, <1>2, <1>3, Zenon DEF Kinds

(* A write to the API server keeps the types of the state.                 *)
LEMMA WriteType ==
  ASSUME MapType, NEW s \in Services, Write(s)
  PROVE  MapType'
<1> USE DEF Write, map
<1>1. ASSUME NEW spec \in specsOf[s], WriteService(s, spec) PROVE MapType'
  <2>1. spec \in Specs
    BY Zenon DEF Specs
  <2>2. /\ DOMAIN events' = Kinds
        /\ events'["services"] \in Seq([service : Services, object : Specs \union {None}])
        /\ events'["endpoints"] \in Seq([service : Services, object : Lists \union {None}])
    BY <1>1, <2>1, TellType, Zenon DEF WriteService, Kinds
  <2>3. apiService' \in [Services -> Specs \union {None}]
    BY <1>1, <2>1, Zenon DEF MapType, WriteService
  <2>4. UNCHANGED <<apiEndpoints, held, lost>>
    BY <1>1, Zenon DEF WriteService
  <2> QED
    BY <2>2, <2>3, <2>4, Zenon DEF MapType
<1>2. CASE DeleteService(s)
  <2>2. /\ DOMAIN events' = Kinds
        /\ events'["services"] \in Seq([service : Services, object : Specs \union {None}])
        /\ events'["endpoints"] \in Seq([service : Services, object : Lists \union {None}])
    BY <1>2, TellType, Zenon DEF DeleteService, Kinds
  <2>3. apiService' \in [Services -> Specs \union {None}]
    BY <1>2, Zenon DEF MapType, DeleteService
  <2>4. UNCHANGED <<apiEndpoints, held, lost>>
    BY <1>2, Zenon DEF DeleteService
  <2> QED
    BY <2>2, <2>3, <2>4, Zenon DEF MapType
<1>3. ASSUME NEW es \in endpointsOf[s], WriteEndpoints(s, es) PROVE MapType'
  <2>1. es \in Lists
    BY Zenon DEF Lists
  <2> QED
    BY <1>3, <2>1, TellType, Zenon DEF MapType, WriteEndpoints, Kinds
<1>4. CASE DeleteEndpoints(s)
  BY <1>4, TellType, Zenon DEF MapType, DeleteEndpoints, Kinds
<1> QED
  BY <1>1, <1>2, <1>3, <1>4, Zenon

(* So does the handler of Services, which is given a service and what it   *)
(* looks like.                                                             *)
LEMMA ServiceEventType ==
  ASSUME MapType, ServiceEvent
  PROVE  /\ MapType'
         /\ Head(events["services"]).service \in Services
         /\ Head(events["services"]).object \in Specs \union {None}
<1> DEFINE q == events["services"]
           E == [service : Services, object : Specs \union {None}]
<1>1. q \in Seq(E) /\ q # <<>>
  BY Zenon DEF MapType, ServiceEvent
<1>2. Tail(q) \in Seq(E) /\ Head(q) \in E
  <2> HIDE DEF q, E
  <2> QED
    BY <1>1, TailOf, Zenon
<1>3. Head(q).service \in Services /\ Head(q).object \in Specs \union {None}
  BY <1>2, Zenon
<1>4. services' \in [Services -> Specs \union {None}] /\ DOMAIN ipToService' = ServiceKeys
  BY <1>3, Zenon DEF ServiceEvent, upsertService, deleteService, MapType, WithAddresses, WithoutAddresses
<1>5. events' = [events EXCEPT !["services"] = Tail(q)]
  BY Zenon DEF ServiceEvent
<1>6. UNCHANGED <<apiService, apiEndpoints, watcher, endpointToService, seenWith, held, lost>>
  BY Zenon DEF ServiceEvent, api
<1>7. MapType'
  BY <1>2, <1>4, <1>5, <1>6, Zenon DEF MapType, Kinds
<1> QED
  BY <1>3, <1>7, Zenon

(* So does the handler of Endpoints.                                       *)
LEMMA EndpointsEventType ==
  ASSUME MapType, EndpointsEvent
  PROVE  /\ MapType'
         /\ Head(events["endpoints"]).service \in Services
         /\ Head(events["endpoints"]).object \in Lists \union {None}
<1> DEFINE q == events["endpoints"]
           E == [service : Services, object : Lists \union {None}]
<1>1. q \in Seq(E) /\ q # <<>>
  BY Zenon DEF MapType, EndpointsEvent
<1>2. Tail(q) \in Seq(E) /\ Head(q) \in E
  <2> HIDE DEF q, E
  <2> QED
    BY <1>1, TailOf, Zenon
<1>3. Head(q).service \in Services /\ Head(q).object \in Lists \union {None}
  BY <1>2, Zenon
<1>4. seenWith' \in [Services -> Specs \union {None}] /\ DOMAIN endpointToService' = EndpointKeys
  BY <1>3, Zenon DEF EndpointsEvent, upsertEndpoints, deleteEndpoints, MapType
<1>5. events' = [events EXCEPT !["endpoints"] = Tail(q)]
  BY Zenon DEF EndpointsEvent
<1>6. UNCHANGED <<apiService, apiEndpoints, watcher, services, ipToService, held, lost>>
  BY Zenon DEF EndpointsEvent, api
<1>7. MapType'
  BY <1>2, <1>4, <1>5, <1>6 DEF MapType, Kinds
<1> QED
  BY <1>3, <1>7, Zenon

(* So does the opening of a watch, whose events are anew; the other watch  *)
(* has the events it had.                                                  *)
LEMMA OpenWatchType ==
  ASSUME MapType, NEW kind \in Kinds, OpenWatch(kind)
  PROVE  /\ MapType'
         /\ Behind(events'[kind], Listed(kind))
         /\ \A s \in Services : Silent(events'[kind], s) => Listed(kind)[s] = None
         /\ \A i \in 1..Len(events'[kind]) :
              events'[kind][i].object # None /\ events'[kind][i].object = Listed(kind)[events'[kind][i].service]
         /\ \A other \in Kinds \ {kind} : events'[other] = events[other]
<1> DEFINE O == IF kind = "services" THEN Specs \union {None} ELSE Lists \union {None}
<1>1. Listed(kind) \in [Services -> O]
  BY Zenon DEF MapType, Listed, Kinds
<1>2. PICK q \in Added(Listed(kind)) : events' = [events EXCEPT ![kind] = q]
  BY Zenon DEF OpenWatch
<1>3. Anew(q, Listed(kind), O)
  <2> HIDE DEF O
  <2> QED
    BY <1>1, NewWatch, Zenon
<1>4. events'[kind] = q /\ (\A other \in Kinds \ {kind} : events'[other] = events[other]) /\ DOMAIN events' = Kinds
  BY <1>2, Zenon DEF MapType
<1>5. UNCHANGED <<apiService, apiEndpoints, services, ipToService, endpointToService, seenWith, held>>
  BY Zenon DEF OpenWatch, api, map
<1>6. watcher' \in [Kinds -> {"closed", "open", "done"}] /\ DOMAIN lost' = Services
  BY Zenon DEF OpenWatch, MapType
<1>7. MapType'
  BY <1>3, <1>4, <1>5, <1>6, Zenon DEF MapType, Kinds, Anew
<1> QED
  BY <1>3, <1>4, <1>7, Zenon DEF Anew

(* So do the end of a watch and the end of its goroutine.                  *)
LEMMA WatcherType ==
  ASSUME MapType, NEW kind \in Kinds, WatchEnds(kind) \/ Stop(kind)
  PROVE  MapType'
<1>1. CASE WatchEnds(kind)
  <2>1. events' = [events EXCEPT ![kind] = <<>>]
    BY <1>1, Zenon DEF WatchEnds
  <2>2. \A S : <<>> \in Seq(S)
    OBVIOUS
  <2> QED
    BY <1>1, <2>1, <2>2 DEF MapType, WatchEnds, api, map, Kinds
<1>2. CASE Stop(kind)
  BY <1>2, Zenon DEF MapType, Stop, api, map
<1> QED
  BY <1>1, <1>2, Zenon

(* Every step keeps the types of the state.                                *)
LEMMA TypeStep == MapType /\ [MapNext]_mapVars => MapType'
<1> SUFFICES ASSUME MapType, [MapNext]_mapVars PROVE MapType'
  BY Zenon
<1>1. CASE Cancel
  BY <1>1, Zenon DEF MapType, Cancel, api, map
<1>2. CASE UNCHANGED mapVars
  BY <1>2, Zenon DEF MapType, mapVars, api, map, watches
<1> QED
  BY <1>1, <1>2, WriteType, OpenWatchType, WatcherType, ServiceEventType, EndpointsEventType, Zenon DEF MapNext

-----------------------------------------------------------------------------
(* The services.  When its watch is open, the last event about a service   *)
(* shows it as it is; one that no event is about is known as it is, or is  *)
(* gone since before the watch was opened.                                 *)
Follows ==
  watcher["services"] = "open" =>
    /\ Behind(events["services"], apiService)
    /\ \A s \in Services : Silent(events["services"], s) =>
         services[s] = apiService[s] \/ (apiService[s] = None /\ s \in unseen)

(* The port index has an entry once for each port of the services known.   *)
PortsExact ==
  \A key \in PortKeys : \A info \in ServiceInfo :
    portToServices[key][info] =
      IF key = <<nsOf[info.service], info.port>> /\ info \in Infos(info.service, services[info.service]) THEN 1 ELSE 0

(* An address belongs to a service that is known with it, and to none only *)
(* if it is contested or nobody is.                                        *)
Addressed ==
  \A key \in ServiceKeys :
    /\ ipToService[key] # None => ipToService[key].service \in Services /\ Serves(services[ipToService[key].service], key)
    /\ ipToService[key] = None => key \in contested \/ \A s \in Services : ~Serves(services[s], key)

(* Two services that are known with one address make it contested.         *)
Shared ==
  \A key \in ServiceKeys : \A s, t \in Services :
    s # t /\ Serves(services[s], key) /\ Serves(services[t], key) => key \in contested

(* The inductive invariant of the services.                                *)
ServicesInv == MapType /\ Follows /\ PortsExact /\ Addressed /\ Shared

-----------------------------------------------------------------------------
(* The endpoints.  What an event shows a service has had; an endpoint that *)
(* the n-th event of the watch has shown is there still, is lost, or is    *)
(* about to go with a DELETED event.                                       *)
Heard ==
  /\ \A s \in Services : EndpointsOf(s) \subseteq held[s]
  /\ \A i \in 1..Len(events["endpoints"]) :
       events["endpoints"][i].object # None =>
         Elements(events["endpoints"][i].object) \subseteq held[events["endpoints"][i].service]

(* An endpoint that an event shows, the n-th one, is there still, is lost, *)
(* or is about to go with a DELETED event behind the n-th.                 *)
Accounted(s, e, n) ==
  \/ e \in EndpointsOf(s)
  \/ KeyOf(e) \in lost[s]
  \/ \E j \in 1..Len(events["endpoints"]) :
       j > n /\ events["endpoints"][j].service = s /\ events["endpoints"][j].object = None

(* While the watch is open this holds of the endpoints that its events     *)
(* show.                                                                   *)
Kept ==
  watcher["endpoints"] = "open" =>
    /\ Behind(events["endpoints"], apiEndpoints)
    /\ \A i \in 1..Len(events["endpoints"]) :
         events["endpoints"][i].object # None =>
           \A e \in Elements(events["endpoints"][i].object) : Accounted(events["endpoints"][i].service, e, i)

(* An entry of the map comes from an endpoint that its service has had, and*)
(* that is accounted for while the watch is open.                          *)
Traced ==
  \A key \in EndpointKeys : endpointToService[key] # None =>
    endpointToService[key].service \in Services /\ \E e \in held[endpointToService[key].service] :
      /\ KeyOf(e) = key /\ Matches(e, endpointToService[key])
      /\ watcher["endpoints"] = "open" => Accounted(endpointToService[key].service, e, 0)

(* The endpoints of a service that no event is about have been read.       *)
Taken ==
  watcher["endpoints"] = "open" =>
    \A s \in Services : Silent(events["endpoints"], s) /\ apiEndpoints[s] # None =>
      \A key \in EndpointKeys : Matching(seenWith[s], apiEndpoints[s], key) # {} =>
        endpointToService[key] # None \/ \E t \in Services \ {s} : key \in KeysOf(held[t])

(* The inductive invariant of the endpoints.                               *)
EndpointsInv == MapType /\ Heard /\ Kept /\ Traced /\ Taken

-----------------------------------------------------------------------------
(* What the API server tells one watch the other does not hear.            *)
LEMMA ToldOne ==
  ASSUME MapType, NEW kind \in Kinds, NEW s, NEW x, Tell(kind, s, x)
  PROVE  /\ watcher[kind] = "open" => events'[kind] = Append(events[kind], [service |-> s, object |-> x])
         /\ watcher[kind] # "open" => events'[kind] = events[kind]
         /\ \A other \in Kinds \ {kind} : events'[other] = events[other]
  BY Zenon DEF MapType, Tell

(* A write reaches the watch of services or that of endpoints, and shows   *)
(* the object as it now is.                                                *)
LEMMA WriteShown ==
  ASSUME MapType, NEW s \in Services, Write(s)
  PROVE  /\ UNCHANGED <<watcher, unseen, services, ipToService, portToServices, contested, endpointToService, seenWith>>
         /\ \/ /\ \E x \in Specs \union {None} :
                    apiService' = [apiService EXCEPT ![s] = x] /\ Tell("services", s, x)
               /\ UNCHANGED <<apiEndpoints, held, lost>>
            \/ /\ \/ \E es \in Lists : WriteEndpoints(s, es)
                  \/ DeleteEndpoints(s)
               /\ UNCHANGED apiService
<1>1. UNCHANGED <<watcher, unseen, services, ipToService, portToServices, contested, endpointToService, seenWith>>
  BY Zenon DEF Write, map
<1>2. ASSUME NEW spec \in specsOf[s], WriteService(s, spec)
      PROVE  /\ \E x \in Specs \union {None} :
                  apiService' = [apiService EXCEPT ![s] = x] /\ Tell("services", s, x)
             /\ UNCHANGED <<apiEndpoints, held, lost>>
  BY <1>2, Zenon DEF WriteService, Specs
<1>3. ASSUME DeleteService(s)
      PROVE  /\ \E x \in Specs \union {None} :
                  apiService' = [apiService EXCEPT ![s] = x] /\ Tell("services", s, x)
             /\ UNCHANGED <<apiEndpoints, held, lost>>
  BY <1>3, Zenon DEF DeleteService
<1>4. ASSUME NEW es \in endpointsOf[s], WriteEndpoints(s, es)
      PROVE  es \in Lists /\ UNCHANGED apiService
  BY <1>4, Zenon DEF WriteEndpoints, Lists
<1>5. ASSUME DeleteEndpoints(s) PROVE UNCHANGED apiService
  BY <1>5, Zenon DEF DeleteEndpoints
<1> QED
  BY <1>1, <1>2, <1>3, <1>4, <1>5, Zenon DEF Write

(* A watch is left as it is, or is not open any more.                      *)
Calm(kind) ==
  \/ watcher'[kind] = watcher[kind] /\ events'[kind] = events[kind]
  \/ watcher'[kind] # "open" /\ events'[kind] \in {events[kind], <<>>}

(* A step that leaves the watch of Services alone, or closes it, keeps the *)
(* services following.                                                     *)
LEMMA FollowsQuiet ==
  ASSUME Follows, Calm("services"), UNCHANGED <<services, apiService, unseen>>
  PROVE  Follows'
BY Zenon DEF Follows, Calm

(* So does a write, as the watch is told of it.                            *)
LEMMA FollowsWrite ==
  ASSUME MapType, Follows, NEW s \in Services, Write(s)
  PROVE  Follows'
<1> DEFINE q == events["services"]
<1>1. UNCHANGED <<watcher, unseen, services>>
  BY WriteShown, Zenon
<1>2. ASSUME NEW x \in Specs \union {None}, apiService' = [apiService EXCEPT ![s] = x], Tell("services", s, x)
      PROVE  Follows'
  <2>1. CASE watcher["services"] # "open"
    BY <1>1, <2>1, Zenon DEF Follows
  <2>2. CASE watcher["services"] = "open"
    <3>1. events'["services"] = Append(q, [service |-> s, object |-> x])
      BY <1>2, <2>2, ToldOne, Zenon DEF Kinds
    <3>2. q \in Seq([service : Services, object : Specs \union {None}]) /\ apiService \in [Services -> Specs \union {None}]
      BY Zenon DEF MapType
    <3>3. Behind(q, apiService)
      BY <2>2, Zenon DEF Follows
    <3>4. Updated(apiService', apiService, s, x)
      BY <1>2, <3>2, Zenon DEF Updated
    <3>5. Behind(events'["services"], apiService')
      <4> HIDE DEF q
      <4> QED
        BY <3>1, <3>2, <3>3, <3>4, AppendBehind, Zenon
    <3>6. \A t \in Services : Silent(events'["services"], t) => t # s /\ Silent(q, t)
      <4> HIDE DEF q
      <4> QED
        BY <3>1, <3>2, AppendSilent, Zenon
    <3> QED
      BY <1>1, <2>2, <3>4, <3>5, <3>6, Zenon DEF Follows, Updated
  <2> QED
    BY <2>1, <2>2, Zenon
<1>3. ASSUME UNCHANGED apiService, (\E es \in Lists : WriteEndpoints(s, es)) \/ DeleteEndpoints(s)
      PROVE  Follows'
  <2>1. events'["services"] = events["services"]
    BY <1>3, ToldOne, Zenon DEF WriteEndpoints, DeleteEndpoints, Kinds
  <2> QED
    BY <1>1, <1>3, <2>1, FollowsQuiet, Zenon DEF Calm
<1> QED
  BY <1>2, <1>3, WriteShown, Zenon

(* So does a new watch, which says nothing of the services that went       *)
(* before it.                                                              *)
LEMMA FollowsOpenWatch ==
  ASSUME MapType, Follows, NEW kind \in Kinds, OpenWatch(kind)
  PROVE  Follows'
<1>1. UNCHANGED <<apiService, services>>
  BY Zenon DEF OpenWatch, api, map
<1>2. CASE kind = "services"
  <2>1. /\ Behind(events'["services"], apiService)
        /\ \A s \in Services : Silent(events'["services"], s) => apiService[s] = None
    BY <1>2, OpenWatchType, Zenon DEF Listed
  <2>2. unseen' = {s \in Services : services[s] # None /\ apiService[s] = None}
    BY <1>2, Zenon DEF OpenWatch
  <2> QED
    BY <1>1, <2>1, <2>2, Zenon DEF Follows
<1>3. CASE kind = "endpoints"
  <2>1. events'["services"] = events["services"]
    BY <1>3, OpenWatchType, Zenon DEF Kinds
  <2>2. watcher'["services"] = watcher["services"] /\ unseen' = unseen
    BY <1>3, Zenon DEF OpenWatch, MapType, Kinds
  <2> QED
    BY <1>1, <2>1, <2>2, FollowsQuiet, Zenon DEF Calm
<1> QED
  BY <1>2, <1>3, Zenon DEF Kinds

(* So does the handler, which takes one event and applies it.              *)
LEMMA FollowsServiceEvent ==
  ASSUME MapType, Follows, ServiceEvent
  PROVE  Follows'
<1> DEFINE q == events["services"]
           E == [service : Services, object : Specs \union {None}]
<1>1. q \in Seq(E) /\ q # <<>> /\ watcher["services"] = "open" /\ services \in [Services -> Specs \union {None}]
  BY Zenon DEF MapType, ServiceEvent
<1>2. events'["services"] = Tail(q)
  BY Zenon DEF ServiceEvent, MapType, Kinds
<1>3. UNCHANGED <<apiService, watcher, unseen>>
  BY Zenon DEF ServiceEvent, api
<1>4. services' = [services EXCEPT ![Head(q).service] = Head(q).object]
  BY Zenon DEF ServiceEvent, upsertService, deleteService
<1>5. Behind(q, apiService)
  BY <1>1, Zenon DEF Follows
<1>6. Behind(Tail(q), apiService)
  <2> HIDE DEF q
  <2> QED
    BY <1>1, <1>5, TailKeepsBehind, Zenon
<1>7. ASSUME NEW s \in Services, Silent(Tail(q), s)
      PROVE  services'[s] = apiService[s] \/ (apiService[s] = None /\ s \in unseen)
  <2>1. \/ Silent(q, s)
        \/ Head(q).service = s /\ Head(q).object = apiService[s]
    <3> HIDE DEF q
    <3> QED
      BY <1>1, <1>5, <1>7, TailBehind, Zenon
  <2>2. CASE Silent(q, s)
    <3>1. Head(q).service # s
      <4>1. Len(q) \in Nat \ {0} /\ Head(q) = q[1]
        <5> HIDE DEF q, E
        <5> QED
          BY <1>1, TailOf, Zenon
      <4> QED
        BY <2>2, <4>1 DEF Silent
    <3>2. services[s] = apiService[s] \/ (apiService[s] = None /\ s \in unseen)
      BY <1>1, <2>2, Zenon DEF Follows
    <3> QED
      BY <1>1, <1>4, <3>1, <3>2, Zenon
  <2> QED
    BY <1>1, <1>4, <2>1, <2>2, Zenon
<1> QED
  BY <1>2, <1>3, <1>6, <1>7, Zenon DEF Follows

-----------------------------------------------------------------------------
(* What leaves the indexes of the services alone keeps what they say.      *)
LEMMA ServicesQuiet ==
  ASSUME ServicesInv, MapType', Follows', UNCHANGED <<services, ipToService, portToServices, contested>>
  PROVE  ServicesInv'
BY Zenon DEF ServicesInv, PortsExact, Addressed, Shared

(* Taking a service out of the port index leaves none of its entries.      *)
LEMMA PortsRemoved ==
  ASSUME PortsExact, NEW s \in Services, NEW key \in PortKeys, NEW info \in ServiceInfo
  PROVE  WithoutPorts(portToServices, s, services[s])[key][info] =
           IF info.service = s THEN 0 ELSE portToServices[key][info]
<1> DEFINE old == services[s]
           gone == key[1] = nsOf[s] /\ info.service = s /\ \E i \in Ports(old) : old.ports[i].port = key[2]
<1>1. WithoutPorts(portToServices, s, old)[key][info] = IF gone THEN 0 ELSE portToServices[key][info]
  BY Zenon DEF WithoutPorts
<1>2. ASSUME info.service = s, key = <<nsOf[s], info.port>>, info \in Infos(s, old) PROVE gone
  BY <1>2 DEF Infos, Info
<1>3. info.service = s /\ ~gone => portToServices[key][info] = 0
  BY <1>2, Zenon DEF PortsExact
<1> QED
  BY <1>1, <1>3, Zenon

(* upsertService and deleteService take the old ports out of the port      *)
(* index, and put the new ones in once.                                    *)
LEMMA PortsServiceEvent ==
  ASSUME MapType, PortsExact, ServiceEvent
  PROVE  PortsExact'
<1> DEFINE s == Head(events["services"]).service
           x == Head(events["services"]).object
           without == WithoutPorts(portToServices, s, services[s])
<1>1. s \in Services /\ services' = [services EXCEPT ![s] = x] /\ services \in [Services -> Specs \union {None}]
  BY ServiceEventType, Zenon DEF ServiceEvent, upsertService, deleteService, MapType
<1>2. portToServices' = IF x = None THEN without ELSE WithPorts(without, s, x)
  BY Zenon DEF ServiceEvent, upsertService, deleteService
<1> HIDE DEF s, x
<1>3. SUFFICES ASSUME NEW key \in PortKeys, NEW info \in ServiceInfo
               PROVE  portToServices'[key][info] =
                        IF key = <<nsOf[info.service], info.port>> /\ info \in Infos(info.service, services'[info.service])
                        THEN 1 ELSE 0
  BY Zenon DEF PortsExact
<1>4. without[key][info] = IF info.service = s THEN 0 ELSE portToServices[key][info]
  BY <1>1, PortsRemoved, Zenon
<1> HIDE DEF without
<1>5. /\ info.service \in Services
      /\ info \in Infos(s, x) => info.service = s
      /\ x = None => Infos(s, x) = {}
  BY InfoOf DEF Infos, Info, Ports
<1>6. portToServices'[key][info] =
        IF key = <<nsOf[s], info.port>> /\ info \in Infos(s, x) THEN without[key][info] + 1 ELSE without[key][info]
  BY <1>2, <1>5, Zenon DEF WithPorts
<1>7. CASE info.service = s
  BY <1>1, <1>4, <1>6, <1>7
<1>8. CASE info.service # s
  BY <1>1, <1>4, <1>5, <1>6, <1>8, Zenon DEF PortsExact
<1> QED
  BY <1>7, <1>8, Zenon

(* They give the new addresses to the service, and take its old ones away  *)
(* from whoever has them: an address that is left to nobody while a        *)
(* service has it is contested.                                            *)
LEMMA AddressesServiceEvent ==
  ASSUME MapType, Addressed, Shared, ServiceEvent
  PROVE  Addressed' /\ Shared'
<1> DEFINE s == Head(events["services"]).service
           x == Head(events["services"]).object
           old == services[s]
<1>1. /\ s \in Services /\ x \in Specs \union {None}
      /\ services' = [services EXCEPT ![s] = x] /\ services \in [Services -> Specs \union {None}]
  BY ServiceEventType, Zenon DEF ServiceEvent, upsertService, deleteService, MapType
<1>2. /\ contested \subseteq contested'
      /\ x # None => \A key \in ServiceKeys : \A t \in Services \ {s} :
           Serves(x, key) /\ Serves(services[t], key) => key \in contested'
      /\ ipToService' = IF x = None THEN WithoutAddresses(ipToService, old)
                        ELSE WithAddresses(WithoutAddresses(ipToService, old), s, x)
  BY Zenon DEF ServiceEvent, upsertService, deleteService
<1> HIDE DEF s, x
<1>3. /\ services'[s] = x
      /\ \A t \in Services : t # s => services'[t] = services[t]
      /\ \A key : ~Serves(None, key)
  BY <1>1, Zenon DEF Serves
<1>5. ASSUME NEW key \in ServiceKeys, Serves(x, key)
      PROVE  ipToService'[key] # None /\ ipToService'[key].service = s
  <2> DEFINE I == {i \in DOMAIN x.ports : x.ports[i].port = key[2]}
  <2>1. x \in Specs /\ x # None
    BY <1>1, <1>3, <1>5, Zenon
  <2>2. ipToService'[key] = Info(s, x, Last(I)) /\ I # {} /\ I \in SUBSET DOMAIN x.ports
    BY <1>2, <1>5, <2>1 DEF WithAddresses, Serves, Key
  <2> HIDE DEF I
  <2>3. Info(s, x, Last(I)) \in ServiceInfo /\ Info(s, x, Last(I)).service = s
    BY <1>1, <2>1, <2>2, LastPort, Zenon DEF Info
  <2> QED
    BY <2>2, <2>3, InfoOf, Zenon
<1>6. ASSUME NEW key \in ServiceKeys, ~Serves(x, key)
      PROVE  ipToService'[key] = IF Serves(old, key) THEN None ELSE ipToService[key]
  BY <1>2, <1>6, Zenon DEF WithAddresses, WithoutAddresses
<1>7. Shared'
  BY <1>1, <1>2, <1>3 DEF Shared
<1>8. ASSUME NEW key \in ServiceKeys, ~Serves(x, key), ipToService'[key] # None
      PROVE  ipToService'[key].service \in Services /\ Serves(services'[ipToService'[key].service], key)
  BY <1>3, <1>6, <1>8, Zenon DEF Addressed
<1>9. ASSUME NEW key \in ServiceKeys, ~Serves(x, key), ipToService'[key] = None, key \notin contested'
      PROVE  \A t \in Services : ~Serves(services'[t], key)
  BY <1>1, <1>2, <1>3, <1>6, <1>9 DEF Addressed, Shared
<1> QED
  BY <1>1, <1>3, <1>5, <1>7, <1>8, <1>9 DEF Addressed

(* The initial state has its types.                                        *)
LEMMA MapTypeInit == MapInit => MapType
<1> SUFFICES ASSUME MapInit PROVE MapType
  BY Zenon
<1>1. \A S : <<>> \in Seq(S)
  OBVIOUS
<1>2. events["services"] = <<>> /\ events["endpoints"] = <<>> /\ DOMAIN events = Kinds
  BY Zenon DEF MapInit, Kinds
<1> QED
  BY <1>1, <1>2, Zenon DEF MapInit, MapType, EmptyIndex

(* An empty map is right about no services.                                *)
LEMMA ServicesStart == MapInit => ServicesInv
<1> SUFFICES ASSUME MapInit PROVE ServicesInv
  BY Zenon
<1>1. Follows
  BY Zenon DEF MapInit, Follows, Kinds
<1>2. PortsExact
  <2>1. \A info \in ServiceInfo : services[info.service] = None
    BY InfoOf, Zenon DEF MapInit
  <2> QED
    BY <2>1, Zenon DEF MapInit, PortsExact, Infos, Ports
<1>3. Addressed /\ Shared
  BY Zenon DEF MapInit, Addressed, Shared, Serves, EmptyIndex
<1> QED
  BY <1>1, <1>2, <1>3, MapTypeInit, Zenon DEF ServicesInv

(* What the invariant says of the indexes is what the lookups answer.      *)
LEMMA ServicesMean == ServicesInv => ServiceIndexesExact
<1> SUFFICES ASSUME ServicesInv PROVE ServiceIndexesExact
  BY Zenon
<1>1. \A key \in PortKeys : key = <<key[1], key[2]>>
  BY DEF PortKeys
<1>2. \A key \in PortKeys : \A info \in ServiceInfo :
        ResolvePortInNamespace(key[1], key[2])[info] =
          IF key = <<nsOf[info.service], info.port>> /\ info \in GetService(info.service) THEN 1 ELSE 0
  BY <1>1, Zenon DEF ResolvePortInNamespace, GetService, ServicesInv, PortsExact
<1>3. \A key \in ServiceKeys : ResolvePort(key) = ipToService[key]
  BY ServiceMapAssumption, Zenon DEF ServiceMapAssumption, ResolvePort, Look, ServicesInv, MapType
<1>4. CaughtUp("services") =>
        \A s \in Services : services[s] = apiService[s] \/ (apiService[s] = None /\ s \in unseen)
  BY DEF CaughtUp, ServicesInv, Follows, Silent
<1>5. \A key \in ServiceKeys :
        LET owners == {s \in Services : Serves(services[s], key)}
        IN  IF ResolvePort(key) = None THEN owners = {} \/ key \in contested
            ELSE ResolvePort(key).service \in owners
  BY <1>3, Zenon DEF ServicesInv, Addressed
<1> QED
  BY <1>2, <1>4, <1>5, Zenon DEF ServiceIndexesExact

-----------------------------------------------------------------------------
(* A step that leaves the endpoints and their watch alone, or closes the   *)
(* watch, keeps their invariant.                                           *)
LEMMA EndpointsQuiet ==
  ASSUME EndpointsInv, MapType', UNCHANGED <<apiEndpoints, endpointToService, seenWith, held, lost>>,
         Calm("endpoints")
  PROVE  EndpointsInv'
<1> USE DEF EndpointsInv
<1>1. CASE watcher'["endpoints"] # "open" /\ events'["endpoints"] \in {events["endpoints"], <<>>}
  <2>1. Heard'
    <3>1. \A s \in Services : EndpointsOf(s)' \subseteq held'[s]
      BY Zenon DEF Heard, EndpointsOf
    <3>2. CASE events'["endpoints"] = <<>>
      BY <3>1, <3>2 DEF Heard
    <3> QED
      BY <1>1, <3>1, <3>2, Zenon DEF Heard
  <2> QED
    BY <1>1, <2>1, Zenon DEF Kept, Traced, Taken
<1>2. CASE watcher'["endpoints"] = watcher["endpoints"] /\ events'["endpoints"] = events["endpoints"]
  <2>1. \A s, e, n : Accounted(s, e, n)' <=> Accounted(s, e, n)
    BY <1>2, Zenon DEF Accounted, EndpointsOf
  <2>2. Heard' /\ Taken'
    BY <1>2, Zenon DEF Heard, EndpointsOf, Taken
  <2> QED
    BY <1>2, <2>1, <2>2, Zenon DEF Kept, Traced
<1> QED
  BY <1>1, <1>2, Zenon DEF Calm

(* A change of the Endpoints of s to x: what they were is kept or lost.    *)
Changed(s, x) ==
  /\ apiEndpoints' = [apiEndpoints EXCEPT ![s] = x]
  /\ \A t \in Services : held'[t] = IF t = s THEN held[s] \union EndpointsOf(s)' ELSE held[t]
  /\ \A t \in Services : lost[t] \subseteq lost'[t]
  /\ x # None => \A e \in EndpointsOf(s) : e \in EndpointsOf(s)' \/ KeyOf(e) \in lost'[s]
  /\ Tell("endpoints", s, x)
  /\ UNCHANGED <<watcher, endpointToService, seenWith>>

(* A write changes the Endpoints of its service, or nothing that concerns  *)
(* them.                                                                   *)
LEMMA WriteChanges ==
  ASSUME MapType, NEW s \in Services, Write(s)
  PROVE  \/ /\ UNCHANGED <<apiEndpoints, watcher, endpointToService, seenWith, held, lost>>
            /\ events'["endpoints"] = events["endpoints"]
         \/ \E x \in Lists \union {None} : Changed(s, x)
<1>0. UNCHANGED <<watcher, endpointToService, seenWith>>
  BY WriteShown, Zenon
<1>1. ASSUME NEW x, Tell("services", s, x) PROVE events'["endpoints"] = events["endpoints"]
  BY <1>1, ToldOne, Zenon DEF Kinds
<1>2. ASSUME NEW es \in Lists, WriteEndpoints(s, es) PROVE Changed(s, es)
  <2>1. apiEndpoints' = [apiEndpoints EXCEPT ![s] = es] /\ apiEndpoints'[s] = es /\ es # None
    BY <1>2, ServiceMapAssumption, Zenon DEF WriteEndpoints, MapType, ServiceMapAssumption, Lists
  <2>2. EndpointsOf(s)' = Elements(es)
    BY <2>1, Zenon DEF EndpointsOf
  <2>3. lost' = [lost EXCEPT ![s] = @ \union KeysOf(EndpointsOf(s) \ Elements(es))] /\ DOMAIN lost = Services
    BY <1>2, Zenon DEF WriteEndpoints, MapType
  <2>4. \A e \in EndpointsOf(s) : e \in EndpointsOf(s)' \/ KeyOf(e) \in lost'[s]
    BY <2>2, <2>3, Zenon DEF KeysOf
  <2>5. \A t \in Services : held'[t] = IF t = s THEN held[s] \union EndpointsOf(s)' ELSE held[t]
    BY <1>2, <2>2, Zenon DEF WriteEndpoints, MapType
  <2> QED
    BY <1>0, <1>2, <2>1, <2>3, <2>4, <2>5, Zenon DEF Changed, WriteEndpoints
<1>3. ASSUME DeleteEndpoints(s) PROVE Changed(s, None)
  <2>1. apiEndpoints' = [apiEndpoints EXCEPT ![s] = None] /\ apiEndpoints'[s] = None
    BY <1>3, Zenon DEF DeleteEndpoints, MapType
  <2>2. EndpointsOf(s)' = {}
    BY <2>1, Zenon DEF EndpointsOf
  <2>3. \A t \in Services : held'[t] = IF t = s THEN held[s] \union EndpointsOf(s)' ELSE held[t]
    BY <1>3, <2>2, Zenon DEF DeleteEndpoints
  <2> QED
    BY <1>0, <1>3, <2>1, <2>3, Zenon DEF Changed, DeleteEndpoints
<1> QED
  BY <1>0, <1>1, <1>2, <1>3, WriteShown, Zenon

(* A change adds to what the service has had, and the event shows no more. *)
LEMMA ChangeHeard ==
  ASSUME MapType, Heard, NEW s \in Services, NEW x \in Lists \union {None}, Changed(s, x)
  PROVE  /\ Heard'
         /\ \A t \in Services : held[t] \subseteq held'[t]
         /\ \A t \in Services : t # s => EndpointsOf(t)' = EndpointsOf(t) /\ apiEndpoints'[t] = apiEndpoints[t]
<1> DEFINE q == events["endpoints"]
           E == [service : Services, object : Lists \union {None}]
           f == [service |-> s, object |-> x]
<1>1. \A t \in Services : held[t] \subseteq held'[t]
  BY Zenon DEF Changed, MapType
<1>2. \A t \in Services : t # s => EndpointsOf(t)' = EndpointsOf(t) /\ apiEndpoints'[t] = apiEndpoints[t] /\ held'[t] = held[t]
  BY Zenon DEF Changed, MapType, EndpointsOf
<1>3. EndpointsOf(s)' \subseteq held'[s]
  BY Zenon DEF Changed, MapType
<1>4. x # None => EndpointsOf(s)' = Elements(x)
  BY Zenon DEF Changed, MapType, EndpointsOf
<1>5. q \in Seq(E) /\ f \in E
  BY Zenon DEF MapType
<1>6. ASSUME NEW i \in 1..Len(q) PROVE q[i].service \in Services
  <2>1. q[i] \in E
    <3> HIDE DEF q, E
    <3> QED
      BY <1>5, <1>6, ElementOf, Zenon
  <2> QED
    BY <2>1, Zenon
<1>7. ASSUME NEW i \in 1..Len(q), q[i].object # None PROVE Elements(q[i].object) \subseteq held'[q[i].service]
  BY <1>1, <1>6, <1>7, Zenon DEF Heard
<1>8. CASE events'["endpoints"] = q
  BY <1>2, <1>3, <1>7, <1>8, <1>1, Zenon DEF Heard
<1>9. CASE events'["endpoints"] = Append(q, f)
  <2> DEFINE q2 == events'["endpoints"]
  <2>1. /\ Len(q2) = Len(q) + 1 /\ Len(q) \in Nat
        /\ q2[Len(q) + 1] = f
        /\ \A i \in 1..Len(q) : q2[i] = q[i]
    <3> HIDE DEF q, f, E
    <3> QED
      BY <1>5, <1>9, AppendOf
  <2>2. ASSUME NEW i \in 1..Len(q2), q2[i].object # None PROVE Elements(q2[i].object) \subseteq held'[q2[i].service]
    <3>1. CASE i \in 1..Len(q)
      BY <1>7, <2>1, <2>2, <3>1, Zenon
    <3>2. CASE i = Len(q) + 1
      <4>1. q2[i].service = s /\ q2[i].object = x
        BY <2>1, <3>2
      <4> QED
        BY <1>3, <1>4, <2>2, <4>1, Zenon
    <3> QED
      BY <2>1, <3>1, <3>2
  <2>3. \A t \in Services : EndpointsOf(t)' \subseteq held'[t]
    BY <1>2, <1>3, Zenon DEF Heard
  <2> QED
    BY <1>1, <1>2, <2>2, <2>3, Zenon DEF Heard
<1>10. events'["endpoints"] = q \/ events'["endpoints"] = Append(q, f)
  BY ToldOne, Zenon DEF Changed, Kinds
<1> QED
  BY <1>8, <1>9, <1>10, Zenon

(* What is accounted for stays so through a change: an endpoint that goes  *)
(* is lost to the edit or has a DELETED event coming.                      *)
LEMMA ChangeAccounted ==
  ASSUME MapType, NEW s \in Services, NEW x \in Lists \union {None}, Changed(s, x), watcher["endpoints"] = "open",
         NEW t \in Services, NEW e, NEW n \in 0..Len(events["endpoints"]), Accounted(t, e, n)
  PROVE  Accounted(t, e, n)'
<1> DEFINE q == events["endpoints"]
           q2 == events'["endpoints"]
           E == [service : Services, object : Lists \union {None}]
           f == [service |-> s, object |-> x]
<1>1. q \in Seq(E) /\ f \in E
  BY Zenon DEF MapType
<1>2. q2 = Append(q, f)
  BY ToldOne, Zenon DEF Changed, Kinds
<1>3. /\ Len(q2) = Len(q) + 1 /\ Len(q) \in Nat
      /\ q2[Len(q) + 1] = f
      /\ \A i \in 1..Len(q) : q2[i] = q[i]
  <2> HIDE DEF q, f, E
  <2> QED
    BY <1>1, <1>2, AppendOf
<1>4. CASE e \in EndpointsOf(t)
  <2>1. CASE t # s
    BY <1>4, <2>1, Zenon DEF Changed, MapType, EndpointsOf, Accounted
  <2>2. CASE t = s /\ x # None
    BY <1>4, <2>2, Zenon DEF Changed, Accounted
  <2>3. CASE t = s /\ x = None
    <3>1. Len(q) + 1 > n /\ Len(q) + 1 \in 1..Len(q2)
      BY <1>3
    <3>2. q2[Len(q) + 1].service = t /\ q2[Len(q) + 1].object = None
      BY <1>3, <2>3
    <3> QED
      BY <3>1, <3>2, Zenon DEF Accounted
  <2> QED
    BY <2>1, <2>2, <2>3, Zenon
<1>5. CASE KeyOf(e) \in lost[t]
  BY <1>5, Zenon DEF Changed, Accounted
<1>6. ASSUME NEW j \in 1..Len(q), j > n, q[j].service = t, q[j].object = None
      PROVE  Accounted(t, e, n)'
  <2>1. j \in 1..Len(q2) /\ q2[j] = q[j]
    BY <1>3
  <2> QED
    BY <1>6, <2>1, Zenon DEF Accounted
<1> QED
  BY <1>4, <1>5, <1>6, Zenon DEF Accounted

(* An event is about a service.                                            *)
LEMMA EventOf ==
  ASSUME MapType, NEW i \in 1..Len(events["endpoints"])
  PROVE  events["endpoints"][i].service \in Services /\ events["endpoints"][i].object \in Lists \union {None}
<1> DEFINE q == events["endpoints"]
           E == [service : Services, object : Lists \union {None}]
<1>1. q \in Seq(E)
  BY Zenon DEF MapType
<1>2. q[i] \in E
  <2> HIDE DEF q, E
  <2> QED
    BY <1>1, ElementOf, Zenon DEF q
<1> QED
  BY <1>2, Zenon

(* So the endpoints that the events show are accounted for, those of the   *)
(* new event included.                                                     *)
LEMMA ChangeKept ==
  ASSUME MapType, Kept, NEW s \in Services, NEW x \in Lists \union {None}, Changed(s, x)
  PROVE  Kept'
<1> DEFINE q == events["endpoints"]
           q2 == events'["endpoints"]
           E == [service : Services, object : Lists \union {None}]
           f == [service |-> s, object |-> x]
<1>0. SUFFICES ASSUME watcher'["endpoints"] = "open" PROVE Kept'
  BY Zenon DEF Kept
<1>1. watcher["endpoints"] = "open" /\ q2 = Append(q, f)
  BY <1>0, ToldOne, Zenon DEF Changed, Kinds
<1>2. q \in Seq(E) /\ f \in E /\ apiEndpoints \in [Services -> Lists \union {None}]
  BY Zenon DEF MapType
<1>3. /\ Len(q2) = Len(q) + 1 /\ Len(q) \in Nat
      /\ q2[Len(q) + 1] = f
      /\ \A i \in 1..Len(q) : q2[i] = q[i]
  <2> HIDE DEF q, f, E
  <2> QED
    BY <1>1, <1>2, AppendOf
<1>4. Behind(q2, apiEndpoints')
  <2>1. Behind(q, apiEndpoints)
    BY <1>1, Zenon DEF Kept
  <2>2. q2 = Append(q, [service |-> s, object |-> x])
    BY <1>1, Zenon
  <2>3. Updated(apiEndpoints', apiEndpoints, s, x)
    BY <1>2, Zenon DEF Changed, Updated
  <2> HIDE DEF q, q2, f
  <2> QED
    BY <1>2, <2>1, <2>2, <2>3, AppendBehind, Zenon
<1>5. ASSUME NEW i \in 1..Len(q2), q2[i].object # None, NEW e \in Elements(q2[i].object)
      PROVE  Accounted(events["endpoints"][i].service, e, i)'
  <2>1. CASE i \in 1..Len(q)
    <3>1. q2[i] = q[i] /\ q[i].service \in Services /\ i \in 0..Len(q)
      BY <1>3, <2>1, EventOf
    <3>2. Accounted(q[i].service, e, i)
      BY <1>1, <1>5, <2>1, <3>1, Zenon DEF Kept
    <3>3. Accounted(q[i].service, e, i)'
      BY <1>1, <3>1, <3>2, ChangeAccounted, Zenon
    <3> QED
      BY <3>1, <3>3, Zenon DEF Accounted
  <2>2. CASE i = Len(q) + 1
    <3>1. q2[i].service = s /\ q2[i].object = x
      BY <1>3, <2>2
    <3>2. e \in EndpointsOf(s)'
      BY <1>5, <3>1, Zenon DEF Changed, EndpointsOf, MapType
    <3> QED
      BY <3>1, <3>2, Zenon DEF Accounted
  <2> QED
    BY <1>3, <2>1, <2>2
<1> QED
  BY <1>4, <1>5, Zenon DEF Kept

(* So are those that the map's entries come from, and an endpoint that has *)
(* been read still has its entry.                                          *)
LEMMA ChangeTraced ==
  ASSUME EndpointsInv, NEW s \in Services, NEW x \in Lists \union {None}, Changed(s, x)
  PROVE  Traced' /\ Taken'
<1> USE DEF EndpointsInv
<1>1. UNCHANGED <<watcher, endpointToService, seenWith>>
  BY Zenon DEF Changed
<1>2. /\ \A t \in Services : held[t] \subseteq held'[t]
      /\ \A t \in Services : t # s => apiEndpoints'[t] = apiEndpoints[t]
  BY ChangeHeard, Zenon
<1>3. ASSUME NEW key \in EndpointKeys, endpointToService[key] # None
      PROVE  endpointToService[key].service \in Services /\ \E e \in held'[endpointToService[key].service] :
               /\ KeyOf(e) = key /\ Matches(e, endpointToService[key])
               /\ watcher["endpoints"] = "open" => Accounted(endpointToService[key].service, e, 0)'
  <2>1. PICK t \in Services : t = endpointToService[key].service
    BY <1>3, Zenon DEF Traced
  <2>2. PICK e \in held[t] : /\ KeyOf(e) = key /\ Matches(e, endpointToService[key])
                             /\ watcher["endpoints"] = "open" => Accounted(t, e, 0)
    BY <1>3, <2>1, Zenon DEF Traced
  <2>3. 0 \in 0..Len(events["endpoints"])
    BY DEF MapType
  <2>4. watcher["endpoints"] = "open" => Accounted(t, e, 0)'
    BY <2>1, <2>2, <2>3, ChangeAccounted, Zenon
  <2>5. t = (endpointToService[key].service)'
    BY <1>1, <2>1, Zenon
  <2>6. watcher["endpoints"] = "open" => Accounted(endpointToService[key].service, e, 0)'
    BY <2>4, <2>5, Zenon DEF Accounted
  <2> QED
    BY <1>2, <2>1, <2>2, <2>6, Zenon
<1>4. Traced'
  BY <1>1, <1>3, Zenon DEF Traced
<1>5. ASSUME watcher["endpoints"] = "open", NEW t \in Services, Silent(events'["endpoints"], t), apiEndpoints'[t] # None,
             NEW key \in EndpointKeys, Matching(seenWith[t], apiEndpoints'[t], key) # {}
      PROVE  endpointToService[key] # None \/ \E u \in Services \ {t} : key \in KeysOf(held'[u])
  <2> DEFINE q == events["endpoints"]
             q2 == events'["endpoints"]
  <2>1. q2 = Append(q, [service |-> s, object |-> x])
    BY <1>5, ToldOne, Zenon DEF Changed, Kinds
  <2>2. q \in Seq([service : Services, object : Lists \union {None}]) /\ apiEndpoints \in [Services -> Lists \union {None}]
    BY Zenon DEF MapType
  <2>3. Behind(q, apiEndpoints)
    BY <1>5, Zenon DEF Kept
  <2>4. t # s /\ Silent(q, t)
    <3> HIDE DEF q, q2
    <3> QED
      BY <1>5, <2>1, <2>2, AppendSilent, ZenonT(30) DEF q2
  <2>5. endpointToService[key] # None \/ \E u \in Services \ {t} : key \in KeysOf(held[u])
    BY <1>2, <1>5, <2>4, Zenon DEF Taken
  <2> QED
    BY <1>2, <2>5, Zenon DEF KeysOf
<1>6. Taken'
  BY <1>1, <1>5, Zenon DEF Taken
<1> QED
  BY <1>4, <1>6, Zenon

(* A watch that is opened has lost every endpoint that went before, so all *)
(* are accounted for.                                                      *)
LEMMA EndpointsOpenWatch ==
  ASSUME EndpointsInv, OpenWatch("endpoints")
  PROVE  EndpointsInv'
<1> USE DEF EndpointsInv
<1> DEFINE q2 == events'["endpoints"]
<1>1. /\ MapType'
      /\ Behind(q2, apiEndpoints)
      /\ \A s \in Services : Silent(q2, s) => apiEndpoints[s] = None
      /\ \A i \in 1..Len(q2) : q2[i].object # None /\ q2[i].object = apiEndpoints[q2[i].service]
  BY OpenWatchType, Zenon DEF Kinds, Listed
<1>2. UNCHANGED <<apiEndpoints, endpointToService, seenWith, held>>
  BY Zenon DEF OpenWatch, api, map
<1>3. \A s \in Services : \A e \in held[s] : e \in EndpointsOf(s) \/ KeyOf(e) \in lost'[s]
  BY Zenon DEF OpenWatch, KeysOf
<1>4. \A s : EndpointsOf(s)' = EndpointsOf(s)
  BY <1>2, Zenon DEF EndpointsOf
<1>5. \A s \in Services : \A e \in held[s] : Accounted(s, e, 0)'
  BY <1>3, <1>4, Zenon DEF Accounted
<1>6. ASSUME NEW i \in 1..Len(q2) PROVE q2[i].service \in Services /\ Elements(q2[i].object) = EndpointsOf(q2[i].service)
  <2>1. q2[i].service \in Services /\ q2[i].object # None
    <3>1. q2 \in Seq([service : Services, object : Lists \union {None}])
      BY <1>1, Zenon DEF MapType
    <3>2. q2[i] \in [service : Services, object : Lists \union {None}]
      <4> HIDE DEF q2
      <4> QED
        BY <1>6, <3>1, ElementOf, Zenon
    <3> QED
      BY <1>1, <3>2, Zenon
  <2>2. q2[i].object = apiEndpoints[q2[i].service]
    BY <1>1, <1>6, Zenon
  <2> QED
    BY <2>1, <2>2, Zenon DEF EndpointsOf
<1>7. Heard'
  BY <1>2, <1>4, <1>6, Zenon DEF Heard
<1>8. Kept'
  BY <1>1, <1>2, <1>4, <1>6, Zenon DEF Kept, Accounted
<1>9. Traced'
  BY <1>2, <1>5, Zenon DEF Traced
<1>10. Taken'
  BY <1>1, <1>2, Zenon DEF Taken
<1> QED
  BY <1>1, <1>7, <1>8, <1>9, <1>10, Zenon

(* The event that is applied leaves the ones behind it where they were.    *)
LEMMA HeadApplied ==
  ASSUME EndpointsInv, EndpointsEvent
  PROVE  /\ watcher["endpoints"] = "open" /\ Len(events["endpoints"]) \in Nat \ {0}
         /\ events["endpoints"][1].service \in Services
         /\ events["endpoints"][1].object \in Lists \union {None}
         /\ Len(events'["endpoints"]) = Len(events["endpoints"]) - 1
         /\ \A i \in 1..(Len(events["endpoints"]) - 1) : events'["endpoints"][i] = events["endpoints"][i + 1]
         /\ Behind(events'["endpoints"], apiEndpoints)
         /\ \A s \in Services : Silent(events'["endpoints"], s) =>
              \/ Silent(events["endpoints"], s) /\ events["endpoints"][1].service # s
              \/ events["endpoints"][1].service = s /\ events["endpoints"][1].object = apiEndpoints[s]
         /\ IF events["endpoints"][1].object # None
            THEN upsertEndpoints(events["endpoints"][1].service, events["endpoints"][1].object)
            ELSE deleteEndpoints(events["endpoints"][1].service) /\ UNCHANGED seenWith
         /\ UNCHANGED <<apiEndpoints, watcher, held, lost>>
<1> DEFINE q == events["endpoints"]
           q2 == events'["endpoints"]
           E == [service : Services, object : Lists \union {None}]
<1>1. q \in Seq(E) /\ q # <<>> /\ watcher["endpoints"] = "open"
  BY Zenon DEF EndpointsInv, MapType, EndpointsEvent
<1>2. q2 = Tail(q) /\ UNCHANGED <<apiEndpoints, watcher, held, lost>>
  BY Zenon DEF EndpointsInv, MapType, EndpointsEvent, Kinds, api
<1>3. Behind(q, apiEndpoints)
  BY <1>1, Zenon DEF EndpointsInv, Kept
<1>4. /\ Len(Tail(q)) = Len(q) - 1 /\ Len(q) \in Nat \ {0}
      /\ Head(q) = q[1] /\ q[1] \in E
      /\ \A i \in 1..(Len(q) - 1) : Tail(q)[i] = q[i + 1]
  <2> HIDE DEF q, E
  <2> QED
    BY <1>1, TailOf, Zenon
<1>5. Behind(Tail(q), apiEndpoints)
  <2> HIDE DEF q
  <2> QED
    BY <1>1, <1>3, TailKeepsBehind, Zenon
<1>6. ASSUME NEW s \in Services, Silent(Tail(q), s)
      PROVE  Silent(q, s) \/ (Head(q).service = s /\ Head(q).object = apiEndpoints[s])
  <2> HIDE DEF q
  <2> QED
    BY <1>1, <1>3, <1>6, TailBehind, Zenon
<1>7. \A s : Silent(q, s) => q[1].service # s
  BY <1>4 DEF Silent
<1>8. IF q[1].object # None THEN upsertEndpoints(q[1].service, q[1].object)
      ELSE deleteEndpoints(q[1].service) /\ UNCHANGED seenWith
  BY <1>4, Zenon DEF EndpointsEvent
<1>9. q[1].service \in Services /\ q[1].object \in Lists \union {None}
  BY <1>4, Zenon
<1> HIDE DEF q, E
<1>10. \A s \in Services : Silent(q2, s) =>
         \/ Silent(q, s) /\ q[1].service # s
         \/ q[1].service = s /\ q[1].object = apiEndpoints[s]
  BY <1>2, <1>4, <1>6, <1>7, Zenon
<1> QED
  BY <1>1, <1>2, <1>4, <1>5, <1>8, <1>9, <1>10, Zenon DEF q

(* What is accounted for stays so, unless it is the DELETED event that     *)
(* accounts for it.                                                        *)
LEMMA AppliedAccounted ==
  ASSUME EndpointsInv, EndpointsEvent, NEW s, NEW e, NEW n \in Nat, Accounted(s, e, n),
         n > 0 \/ events["endpoints"][1].object # None \/ events["endpoints"][1].service # s,
         NEW m \in Nat, m = IF n = 0 THEN 0 ELSE n - 1
  PROVE  Accounted(s, e, m)'
<1> DEFINE q == events["endpoints"]
           q2 == events'["endpoints"]
<1>1. /\ Len(q2) = Len(q) - 1 /\ Len(q) \in Nat \ {0}
      /\ \A i \in 1..(Len(q) - 1) : q2[i] = q[i + 1]
      /\ UNCHANGED <<apiEndpoints, lost>>
  BY HeadApplied, Zenon
<1>2. CASE e \in EndpointsOf(s) \/ KeyOf(e) \in lost[s]
  BY <1>1, <1>2, Zenon DEF Accounted, EndpointsOf
<1>3. ASSUME NEW j \in 1..Len(q), j > n, q[j].service = s, q[j].object = None
      PROVE  Accounted(s, e, m)'
  <2>1. j # 1
    BY <1>3
  <2>2. j - 1 \in 1..(Len(q) - 1) /\ (j - 1) + 1 = j /\ j - 1 > m
    BY <1>1, <1>3, <2>1
  <2>3. q2[j - 1] = q[j] /\ j - 1 \in 1..Len(q2)
    BY <1>1, <2>2, Zenon
  <2> QED
    BY <1>3, <2>2, <2>3, Zenon DEF Accounted
<1> QED
  BY <1>2, <1>3, Zenon DEF Accounted

(* What the event that is applied shows is accounted for afterwards.       *)
LEMMA AppliedShown ==
  ASSUME EndpointsInv, EndpointsEvent, NEW s, NEW e, Accounted(s, e, 1)
  PROVE  Accounted(s, e, 0)'
<1>1. 1 \in Nat /\ 0 \in Nat /\ 1 > 0 /\ 0 = IF 1 = 0 THEN 0 ELSE 1 - 1
  OBVIOUS
<1> QED
  BY <1>1, AppliedAccounted, Zenon

(* And so is what was, unless the event is the DELETED one of its service. *)
LEMMA AppliedBefore ==
  ASSUME EndpointsInv, EndpointsEvent, NEW s, NEW e, Accounted(s, e, 0),
         events["endpoints"][1].object # None \/ events["endpoints"][1].service # s
  PROVE  Accounted(s, e, 0)'
<1>1. 0 \in Nat /\ 0 = IF 0 = 0 THEN 0 ELSE 0 - 1
  BY Zenon
<1> QED
  BY <1>1, AppliedAccounted, Zenon

(* The endpoints that the events behind it show are accounted for as       *)
(* before.                                                                 *)
LEMMA AppliedKept ==
  ASSUME EndpointsInv, EndpointsEvent
  PROVE  Heard' /\ Kept'
<1> DEFINE q == events["endpoints"]
           q2 == events'["endpoints"]
<1>1. /\ watcher["endpoints"] = "open" /\ Len(q) \in Nat \ {0} /\ Len(q2) = Len(q) - 1
      /\ \A i \in 1..(Len(q) - 1) : q2[i] = q[i + 1]
      /\ Behind(q2, apiEndpoints)
      /\ UNCHANGED <<apiEndpoints, watcher, held, lost>>
  BY HeadApplied, Zenon
<1>2. \A i \in 1..Len(q2) : i \in 1..(Len(q) - 1) /\ i + 1 \in 1..Len(q) /\ q2[i] = q[i + 1]
  BY <1>1
<1>3. \A s \in Services : EndpointsOf(s)' \subseteq held'[s]
  BY <1>1, Zenon DEF EndpointsInv, Heard, EndpointsOf
<1>4. ASSUME NEW i \in 1..Len(q2), q2[i].object # None
      PROVE  Elements(q2[i].object) \subseteq held'[q2[i].service]
  <2>1. i + 1 \in 1..Len(q) /\ q2[i] = q[i + 1]
    BY <1>2, <1>4, Zenon
  <2>2. Elements(q[i + 1].object) \subseteq held[q[i + 1].service]
    BY <1>4, <2>1, Zenon DEF EndpointsInv, Heard
  <2> QED
    BY <1>1, <2>1, <2>2, Zenon
<1>5. Heard'
  BY <1>3, <1>4, Zenon DEF Heard
<1>6. ASSUME NEW i \in 1..Len(q2), q2[i].object # None, NEW e \in Elements(q2[i].object)
      PROVE  Accounted(events["endpoints"][i].service, e, i)'
  <2>1. i + 1 \in 1..Len(q) /\ q2[i] = q[i + 1] /\ i \in Nat
    BY <1>2, <1>6
  <2>2. PICK s : s = q[i + 1].service
    BY Zenon
  <2>3. Accounted(s, e, i + 1)
    BY <1>1, <1>6, <2>1, <2>2, Zenon DEF EndpointsInv, Kept
  <2>4. i + 1 \in Nat /\ i + 1 > 0 /\ i = IF i + 1 = 0 THEN 0 ELSE (i + 1) - 1
    BY <2>1
  <2>5. Accounted(s, e, i)'
    BY <2>1, <2>3, <2>4, AppliedAccounted, Zenon
  <2>6. (events["endpoints"][i].service)' = s
    BY <2>1, <2>2, Zenon
  <2> QED
    BY <2>5, <2>6, Zenon DEF Accounted
<1>7. Kept'
  BY <1>1, <1>6, Zenon DEF Kept
<1> QED
  BY <1>5, <1>7, Zenon

(* The handler's entries are those of the endpoints shown; it clears only  *)
(* the entries of the service that has none any more.                      *)
LEMMA AppliedEntries ==
  ASSUME EndpointsInv, EndpointsEvent, NEW key \in EndpointKeys
  PROVE  LET s == events["endpoints"][1].service
             es == events["endpoints"][1].object
             old == endpointToService[key]
             new == endpointToService'[key]
         IN  \/ es # None /\ new = old /\ Matching(services[s], es, key) = {}
             \/ es # None /\ new # None /\ new.service = s /\ \E e \in Elements(es) : KeyOf(e) = key /\ Matches(e, new)
             \/ es = None /\ new = old /\ (old # None => old.service # s)
             \/ es = None /\ new = None /\ old # None /\ old.service = s
<1> DEFINE s == events["endpoints"][1].service
           es == events["endpoints"][1].object
<1>1. s \in Services /\ es \in Lists \union {None}
  BY HeadApplied, Zenon
<1>2. CASE es # None
  <2>1. es \in Lists /\ upsertEndpoints(s, es)
    BY <1>1, <1>2, HeadApplied, Zenon
  <2> HIDE DEF s, es
  <2>2. IF Matching(services[s], es, key) = {} THEN endpointToService'[key] = endpointToService[key]
        ELSE /\ endpointToService'[key] # None /\ endpointToService'[key].service = s
             /\ \E e \in Elements(es) : KeyOf(e) = key /\ Matches(e, endpointToService'[key])
    <3>1. Matching(services[s], es, key) = {} => endpointToService'[key] = endpointToService[key]
      BY <2>1, Zenon DEF upsertEndpoints
    <3> QED
      BY <1>1, <2>1, <3>1, UpsertEntries, Zenon DEF EndpointsInv
  <2> QED
    BY <1>2, <2>2, Zenon DEF s, es
<1>3. CASE es = None
  <2>1. deleteEndpoints(s)
    BY <1>3, HeadApplied, Zenon
  <2> HIDE DEF s, es
  <2>2. endpointToService'[key] = IF endpointToService[key] # None /\ endpointToService[key].service = s
                                  THEN None ELSE endpointToService[key]
    BY <2>1, Zenon DEF deleteEndpoints
  <2> QED
    BY <1>3, <2>2, Zenon DEF s, es
<1> QED
  BY <1>2, <1>3, Zenon

(* An entry the handler makes comes from an endpoint the event shows; one  *)
(* that it keeps is not the concern of a DELETED event.                    *)
LEMMA AppliedTraced ==
  ASSUME EndpointsInv, EndpointsEvent
  PROVE  Traced'
<1>0. /\ watcher["endpoints"] = "open" /\ 1 \in 1..Len(events["endpoints"])
      /\ UNCHANGED <<apiEndpoints, watcher, held, lost>>
  BY HeadApplied
<1>1. SUFFICES ASSUME NEW key \in EndpointKeys, endpointToService'[key] # None
               PROVE  endpointToService'[key].service \in Services /\ \E e \in held[endpointToService'[key].service] :
                        /\ KeyOf(e) = key /\ Matches(e, endpointToService'[key])
                        /\ Accounted(endpointToService[key].service, e, 0)'
  BY <1>0, Zenon DEF Traced
<1>2. PICK t : t = endpointToService'[key].service
  BY Zenon
<1>3. SUFFICES t \in Services /\ \E e \in held[t] : KeyOf(e) = key /\ Matches(e, endpointToService'[key]) /\ Accounted(t, e, 0)'
  BY <1>2, Zenon DEF Accounted
<1>4. CASE /\ endpointToService'[key] = endpointToService[key]
           /\ events["endpoints"][1].object # None \/ events["endpoints"][1].service # t
  <2>1. PICK e \in held[t] : KeyOf(e) = key /\ Matches(e, endpointToService[key]) /\ Accounted(t, e, 0)
    BY <1>0, <1>1, <1>2, <1>4, Zenon DEF EndpointsInv, Traced
  <2>2. Accounted(t, e, 0)' /\ t \in Services
    <3>1. Accounted(t, e, 0)'
      BY <1>4, <2>1, AppliedBefore, Zenon
    <3>2. t \in Services
      BY <1>1, <1>2, <1>4, Zenon DEF EndpointsInv, Traced
    <3> QED
      BY <3>1, <3>2, Zenon
  <2> QED
    BY <1>4, <2>1, <2>2, Zenon
<1>5. ASSUME events["endpoints"][1].object # None, t = events["endpoints"][1].service,
             NEW e \in Elements(events["endpoints"][1].object), KeyOf(e) = key, Matches(e, endpointToService'[key])
      PROVE  e \in held[t] /\ Accounted(t, e, 0)'
  <2>1. e \in held[t]
    BY <1>0, <1>5, Zenon DEF EndpointsInv, Heard
  <2>2. Accounted(t, e, 1)
    BY <1>0, <1>5, Zenon DEF EndpointsInv, Kept
  <2>3. Accounted(t, e, 0)'
    BY <2>2, AppliedShown, Zenon
  <2> QED
    BY <2>1, <2>3, Zenon
<1> QED
  BY <1>1, <1>2, <1>4, <1>5, AppliedEntries, HeadApplied, Zenon

(* An endpoint that has been read has its entry, unless another service    *)
(* took it over and then lost it.                                          *)
LEMMA AppliedTaken ==
  ASSUME EndpointsInv, EndpointsEvent
  PROVE  Taken'
<1> DEFINE q == events["endpoints"]
<1>0. /\ watcher["endpoints"] = "open"
      /\ UNCHANGED <<apiEndpoints, watcher, held, lost>>
      /\ q[1].service \in Services
  BY HeadApplied, Zenon
<1>1. SUFFICES ASSUME NEW s \in Services, Silent(events'["endpoints"], s), apiEndpoints[s] # None,
                      NEW key \in EndpointKeys, Matching(seenWith'[s], apiEndpoints[s], key) # {},
                      endpointToService'[key] = None
               PROVE  \E t \in Services \ {s} : key \in KeysOf(held[t])
  BY <1>0, Zenon DEF Taken
<1>2. seenWith' = IF q[1].object # None THEN [seenWith EXCEPT ![q[1].service] = services[q[1].service]] ELSE seenWith
  BY HeadApplied, Zenon DEF upsertEndpoints
<1>3. CASE q[1].service = s /\ q[1].object = apiEndpoints[s]
  <2>1. seenWith'[s] = services[s]
    BY <1>1, <1>2, <1>3, Zenon DEF EndpointsInv, MapType
  <2> QED
    BY <1>1, <1>3, <2>1, AppliedEntries, Zenon
<1>4. CASE Silent(q, s) /\ q[1].service # s
  <2>1. seenWith'[s] = seenWith[s]
    BY <1>2, <1>4, Zenon DEF EndpointsInv, MapType
  <2>2. endpointToService[key] # None \/ \E t \in Services \ {s} : key \in KeysOf(held[t])
    BY <1>0, <1>1, <1>4, <2>1, Zenon DEF EndpointsInv, Taken
  <2>3. ASSUME endpointToService[key] # None PROVE key \in KeysOf(held[q[1].service])
    <3>1. endpointToService[key].service = q[1].service
      BY <1>1, <2>3, AppliedEntries, Zenon
    <3> QED
      BY <2>3, <3>1, Zenon DEF EndpointsInv, Traced, KeysOf
  <2> QED
    BY <1>0, <1>4, <2>2, <2>3, Zenon
<1> QED
  BY <1>1, <1>3, <1>4, HeadApplied, Zenon

(* The inductive invariant of the map.                                     *)
MapInv == ServicesInv /\ EndpointsInv

(* A write keeps the invariant: it reaches one watch, and the map not at   *)
(* all.                                                                    *)
LEMMA WriteStep ==
  ASSUME MapInv, NEW s \in Services, Write(s)
  PROVE  MapInv'
<1>1. MapType /\ MapType' /\ Follows'
  BY WriteType, FollowsWrite, Zenon DEF MapInv, ServicesInv
<1>2. ServicesInv'
  BY <1>1, WriteShown, ServicesQuiet, Zenon DEF MapInv
<1>3. ASSUME NEW x \in Lists \union {None}, Changed(s, x) PROVE EndpointsInv'
  BY <1>1, <1>3, ChangeHeard, ChangeKept, ChangeTraced, Zenon DEF MapInv, EndpointsInv
<1>4. ASSUME UNCHANGED <<apiEndpoints, watcher, endpointToService, seenWith, held, lost>>,
             events'["endpoints"] = events["endpoints"]
      PROVE  EndpointsInv'
  BY <1>1, <1>4, EndpointsQuiet, Zenon DEF MapInv, Calm
<1> QED
  BY <1>1, <1>2, <1>3, <1>4, WriteChanges, Zenon DEF MapInv

(* A watch that is opened keeps the invariant.                             *)
LEMMA OpenWatchStep ==
  ASSUME MapInv, NEW kind \in Kinds, OpenWatch(kind)
  PROVE  MapInv'
<1>1. MapType /\ MapType' /\ Follows'
  BY OpenWatchType, FollowsOpenWatch, Zenon DEF MapInv, ServicesInv
<1>2. /\ UNCHANGED <<apiEndpoints, services, ipToService, portToServices, contested, endpointToService, seenWith, held>>
      /\ kind = "services" => UNCHANGED lost
  BY Zenon DEF OpenWatch, api, map
<1>3. ServicesInv'
  BY <1>1, <1>2, ServicesQuiet, Zenon DEF MapInv
<1>4. CASE kind = "services"
  <2>1. Calm("endpoints")
    BY <1>1, <1>4, OpenWatchType, Zenon DEF OpenWatch, Calm, MapType, Kinds
  <2> QED
    BY <1>1, <1>2, <1>3, <1>4, <2>1, EndpointsQuiet, Zenon DEF MapInv
<1>5. CASE kind = "endpoints"
  BY <1>3, <1>5, EndpointsOpenWatch, Zenon DEF MapInv
<1> QED
  BY <1>4, <1>5, Zenon DEF Kinds

(* Every step keeps the invariant.                                         *)
LEMMA MapStep == MapInv /\ [MapNext]_mapVars => MapInv'
<1> SUFFICES ASSUME MapInv, [MapNext]_mapVars PROVE MapInv'
  BY Zenon
<1>0. MapType /\ MapType' /\ Follows
  BY TypeStep, Zenon DEF MapInv, ServicesInv
<1>1. CASE ServiceEvent
  <2>1. ServicesInv'
    BY <1>0, <1>1, FollowsServiceEvent, PortsServiceEvent, AddressesServiceEvent, Zenon DEF MapInv, ServicesInv
  <2>2. UNCHANGED <<apiEndpoints, endpointToService, seenWith, held, lost>> /\ Calm("endpoints")
    BY <1>0, <1>1, Zenon DEF ServiceEvent, api, Calm, MapType, Kinds
  <2> QED
    BY <1>0, <2>1, <2>2, EndpointsQuiet, Zenon DEF MapInv
<1>2. CASE EndpointsEvent
  <2>1. EndpointsInv'
    BY <1>0, <1>2, AppliedKept, AppliedTraced, AppliedTaken, Zenon DEF MapInv, EndpointsInv
  <2>2. UNCHANGED <<apiService, unseen, services, ipToService, portToServices, contested>> /\ Calm("services")
    BY <1>0, <1>2, Zenon DEF EndpointsEvent, api, Calm, MapType, Kinds
  <2> QED
    BY <1>0, <2>1, <2>2, FollowsQuiet, ServicesQuiet, Zenon DEF MapInv
<1>3. ASSUME UNCHANGED <<apiService, apiEndpoints, held, unseen, map, lost>>, \A kind \in Kinds : Calm(kind)
      PROVE  MapInv'
  BY <1>0, <1>3, FollowsQuiet, ServicesQuiet, EndpointsQuiet, Zenon DEF MapInv, map, Kinds
<1>4. ASSUME NEW kind \in Kinds, WatchEnds(kind) \/ Stop(kind) PROVE MapInv'
  BY <1>0, <1>3, <1>4, Zenon DEF WatchEnds, Stop, api, Calm, MapType
<1>5. CASE Cancel \/ UNCHANGED mapVars
  BY <1>3, <1>5, Zenon DEF Cancel, mapVars, watches, api, Calm
<1> QED
  BY <1>1, <1>2, <1>4, <1>5, WriteStep, OpenWatchStep, Zenon DEF MapNext

(* Nothing is there and nothing is known at first.                         *)
LEMMA EndpointsStart == MapInit => EndpointsInv
<1> SUFFICES ASSUME MapInit PROVE EndpointsInv
  BY Zenon
<1>1. watcher["endpoints"] = "closed" /\ events["endpoints"] = <<>>
  BY Zenon DEF MapInit, Kinds
<1>2. Heard
  BY <1>1 DEF MapInit, Heard, EndpointsOf
<1>3. Kept /\ Taken
  BY <1>1, Zenon DEF Kept, Taken
<1>4. Traced
  BY Zenon DEF MapInit, Traced, EmptyIndex
<1> QED
  BY <1>2, <1>3, <1>4, MapTypeInit, Zenon DEF EndpointsInv

(* Once no event is left, an entry's endpoint is there still or is lost,   *)
(* and what is there and was read has an entry.                            *)
LEMMA EndpointsMean == EndpointsInv => EndpointsExplained
<1> SUFFICES ASSUME EndpointsInv, CaughtUp("endpoints"), NEW key \in EndpointKeys
             PROVE  LET info == ResolvePort(key)
                        current == {s \in Services : apiEndpoints[s] # None /\ Matching(services[s], apiEndpoints[s], key) # {}}
                        holders == {s \in Services : key \in KeysOf(held[s])}
                    IN  IF info = None THEN \A s \in current : seenWith[s] # services[s] \/ holders # {s}
                        ELSE info.service \in current \/ key \in lost[info.service] \/ info \notin GetService(info.service)
  BY Zenon DEF EndpointsExplained
<1>1. ResolvePort(key) = endpointToService[key]
  BY ServiceMapAssumption, Zenon DEF ServiceMapAssumption, ResolvePort, Look, EndpointsInv, MapType
<1>2. watcher["endpoints"] = "open" /\ events["endpoints"] = <<>>
  BY Zenon DEF CaughtUp
<1>3. ASSUME endpointToService[key] = None, NEW s \in Services, apiEndpoints[s] # None,
             Matching(services[s], apiEndpoints[s], key) # {}, seenWith[s] = services[s]
      PROVE  \E t \in Services \ {s} : key \in KeysOf(held[t])
  <2>1. Silent(events["endpoints"], s)
    BY <1>2 DEF Silent
  <2> QED
    BY <1>2, <1>3, <2>1, Zenon DEF EndpointsInv, Taken
<1>4. ASSUME endpointToService[key] # None, key \notin lost[endpointToService[key].service],
             endpointToService[key] \in GetService(endpointToService[key].service)
      PROVE  LET s == endpointToService[key].service
             IN  s \in Services /\ apiEndpoints[s] # None /\ Matching(services[s], apiEndpoints[s], key) # {}
  <2>1. PICK s \in Services : s = endpointToService[key].service
    BY <1>4, Zenon DEF EndpointsInv, Traced
  <2>2. PICK e \in held[s] : KeyOf(e) = key /\ Matches(e, endpointToService[key]) /\ Accounted(s, e, 0)
    BY <1>2, <1>4, <2>1, Zenon DEF EndpointsInv, Traced
  <2>3. e \in EndpointsOf(s)
    BY <1>2, <1>4, <2>1, <2>2 DEF Accounted
  <2>4. PICK i \in DOMAIN apiEndpoints[s] : apiEndpoints[s] # None /\ apiEndpoints[s][i] = e
    BY <2>3, Zenon DEF EndpointsOf, Elements
  <2>5. PICK p \in Ports(services[s]) : endpointToService[key] = Info(s, services[s], p)
    BY <1>4, <2>1, Zenon DEF GetService, Infos
  <2>6. Matches(e, services[s].ports[p])
    BY <2>2, <2>5 DEF Matches, Info
  <2>7. i \in Matching(services[s], apiEndpoints[s], key)
    BY <2>2, <2>4, <2>6, Zenon DEF Matching, MatchingPorts
  <2> QED
    BY <2>1, <2>4, <2>7, Zenon
<1>5. CASE endpointToService[key] = None
  BY <1>1, <1>3, <1>5, Zenon
<1>6. CASE endpointToService[key] # None
  BY <1>1, <1>4, <1>6, Zenon
<1> QED
  BY <1>5, <1>6, Zenon

(* The invariant holds throughout.                                         *)
LEMMA MapInvHolds == MapSpec => []MapInv
<1>1. MapInit => MapInv
  BY ServicesStart, EndpointsStart, Zenon DEF MapInv
<1> QED
  BY <1>1, MapStep, PTL DEF MapSpec

(* The port index lists every port of every known service once and no      *)
(* other, an address resolves to a service that has it unless two had it   *)
(* one after the other, and once the watch has caught up the services      *)
(* known are those there are, but for what went between two watches        *)
(* (upsertService, removeServiceFromIndexes, watchServices): for any       *)
(* services, ports, edits and number of watches.                           *)
THEOREM ServicesIndexed == MapSpec => []ServiceIndexesExact
<1>1. MapInv => ServiceIndexesExact
  BY ServicesMean, Zenon DEF MapInv
<1> QED
  BY <1>1, MapInvHolds, PTL

(* Once the watch of Endpoints has caught up, an endpoint resolves to a    *)
(* service that has it, and one that does not resolve, or resolves to what *)
(* is no more, is one of the cases the code is known to leave              *)
(* (upsertEndpoints never takes out an entry, deleteEndpoints needs the    *)
(* event): for any services, endpoints, edits and number of watches.       *)
THEOREM EndpointsResolved == MapSpec => []EndpointsExplained
<1>1. MapInv => EndpointsExplained
  BY EndpointsMean, Zenon DEF MapInv
<1> QED
  BY <1>1, MapInvHolds, PTL

=============================================================================
