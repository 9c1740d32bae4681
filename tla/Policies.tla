------------------------------ MODULE Policies ------------------------------
(***************************************************************************)
(* From a policy object to the answers about it: the adapter registry, the *)
(* informer handlers of the engine (internal/discovery/engine.go), the     *)
(* parsers of the adapters, the index and the views.                       *)
(*                                                                         *)
(* Each GVR has one informer that calls its handlers one event at a time.  *)
(* It sees the versions of an object in order, or, after a broken watch,   *)
(* only the last one; a deletion it missed it reports with the version it  *)
(* had cached.  The 30 minute resync passes on what is cached.  Discovery  *)
(* models how informers start and stop: every GVR is watched here from the *)
(* start, a profile is registered for a watched GVR and enabled, and a GVR *)
(* that UnregisterProfile stops is not watched again.                      *)
(***************************************************************************)
EXTENDS Registry

CONSTANTS
  BootOrder,     \* the adapters, in the order in which main registers them
  gvrOf, kindOf, nameOf, namespaceOf,      \* the metadata of each object key
  contentOf,     \* the content and annotations of each version of an object
  Versions,      \* the versions each object key may have
  Profiles,      \* names of ConstraintProfiles
  Configs,       \* what a profile may say: gvr, adapter, severity, selectorPath
  Namespaces, Labels, Requests, pluralOf, gvrOfKind, ClusterScope, NoConstraint,
  MaxIncarnations, MaxParts,
  MaxWrites, MaxProfileChanges

VARIABLES
  booted,        \* how many adapters main has registered; -1: it gave up
  stored,        \* the objects of the API server: None, or incarnation and version
  cached,        \* what the informer has of each object
  log,           \* per object, what the informer has still to see
  job,           \* per GVR, the handler call in progress
  watched,       \* watchedGVRs
  profiles,      \* the enabled profiles
  cleaning,      \* GVRs whose constraints UnregisterProfile is about to remove
  byUID, answer,
  created, writes, profileChanges,         \* bounds of the instance
  kept, replaced, late, renamed            \* history, see the properties

registry == <<adapters, gvrMap, groupMap>>
cluster == <<stored, cached, log, created, writes>>
engine == <<watched, profiles, cleaning, profileChanges>>
history == <<kept, replaced, late, renamed>>
all == <<registry, booted, cluster, job, engine, byUID, answer, history>>

P == INSTANCE Parsers
V == INSTANCE Views

Keys == DOMAIN stored

UIDsUnder(k, inc) == {<<k, inc, p>> : p \in (-MaxParts)..MaxParts}

UIDs(keys) == UNION {UIDsUnder(k, inc) : k \in keys, inc \in 1..MaxIncarnations}

(* keys: the objects that come and go in a behaviour.                      *)
InitOver(keys) ==
  /\ RegistryInit
  /\ booted = 0
  /\ stored = [k \in keys |-> None]
  /\ cached = [k \in keys |-> None]
  /\ log = [k \in keys |-> <<>>]
  /\ watched = {gvrOf[k] : k \in keys}
  /\ job = [g \in watched |-> None]
  /\ profiles = [p \in Profiles |-> None]
  /\ cleaning = {}
  /\ byUID = [u \in UIDs(keys) |-> NoConstraint]
  /\ answer = None
  /\ created = [k \in keys |-> 0]
  /\ writes = 0 /\ profileChanges = 0
  /\ kept = {} /\ replaced = {} /\ late = {} /\ renamed = {}

(* mustRegister.                                                           *)
Boot ==
  /\ 0 <= booted /\ booted < Len(BootOrder)
  /\ Register(BootOrder[booted + 1])
  /\ booted' = IF Accepted(BootOrder[booted + 1]) THEN booted + 1 ELSE -1
  /\ answer' = None
  /\ UNCHANGED <<cluster, job, engine, byUID, history>>

Running == booted = Len(BootOrder)

-----------------------------------------------------------------------------
(* parseObject.  Of several profiles for the GVR the map's order picks one.*)
Object(k, s) ==
  [uid |-> <<k, s.inc>>, gvr |-> gvrOf[k], kind |-> kindOf[k], name |-> nameOf[k],
   namespace |-> namespaceOf[k], annotations |-> contentOf[s.version].annotations,
   content |-> contentOf[s.version].content]

ProfilesOf(g) == {p \in Profiles : profiles[p] # None /\ profiles[p].gvr = g}
ProfileConfigs(g) == IF ProfilesOf(g) = {} THEN {None} ELSE {profiles[p] : p \in ProfilesOf(g)}

AdapterFor(g, cfg) ==
  IF cfg # None /\ cfg.adapter \in adapters THEN cfg.adapter
  ELSE IF gvrMap[g] # None THEN gvrMap[g] ELSE groupMap[groupOf[g]]

ParseWith(adapter, k, s, cfg) ==
  IF adapter # None THEN P!AdapterParse(adapter, Object(k, s)) ELSE P!genericParse(Object(k, s), gvrOf[k], cfg)

parseObject(k, s, cfg) == ParseWith(AdapterFor(gvrOf[k], cfg), k, s, cfg)

(* What handleDelete removes: the UID of the object when parsing it fails  *)
(* or yields nothing.                                                      *)
UIDsIn(constraints, objectUID) ==
  IF constraints = <<>> THEN <<objectUID>> ELSE [i \in DOMAIN constraints |-> constraints[i].uid]

DeletedUIDs(k, s, cfg) == UIDsIn(parseObject(k, s, cfg).constraints, P!Whole(Object(k, s)))

-----------------------------------------------------------------------------
(* History.  Claims: what a deletion of that version removes, whichever of *)
(* the profiles' configurations is picked.                                 *)
Claimed(k, s, cfg) == P!ToSet(DeletedUIDs(k, s, cfg))

InAll(uids, claims) == {u \in uids : \A claim \in claims : u \in claim}

Claims(k, s, cfgs) == InAll(UIDsUnder(k, s.inc), {Claimed(k, s, cfg) : cfg \in cfgs})

(* The versions of an object that may still be handled.                    *)
Alive(k) ==
  ({stored[k], cached[k]} \union {log[k][i].state : i \in DOMAIN log[k]}
   \union (IF job[gvrOf[k]] # None /\ job[gvrOf[k]].key = k THEN {job[gvrOf[k]].state} ELSE {})) \ {None}

(* What is still kept when the profiles have changed.                      *)
KeptAfterwards ==
  {u \in kept : \A s \in Alive(u[1]) : s.inc = u[2] => u \in Claims(u[1], s, ProfileConfigs(gvrOf[u[1]])')}

-----------------------------------------------------------------------------
(* The API server.                                                         *)
Observe(k, entry) == log' = [log EXCEPT ![k] = Append(@, entry)]

Create(k, v) ==
  LET s == [inc |-> created[k] + 1, version |-> v]
  IN  /\ stored[k] = None /\ created[k] < MaxIncarnations
      /\ stored' = [stored EXCEPT ![k] = s]
      /\ created' = [created EXCEPT ![k] = @ + 1]
      /\ Observe(k, [gone |-> FALSE, state |-> s])
      /\ kept' = kept \union Claims(k, s, ProfileConfigs(gvrOf[k]))

Edit(k, v) ==
  LET s == [stored[k] EXCEPT !.version = v]
  IN  /\ stored[k] # None /\ stored[k].version # v
      /\ stored' = [stored EXCEPT ![k] = s]
      /\ Observe(k, [gone |-> FALSE, state |-> s])
      /\ kept' = (kept \ UIDsUnder(k, s.inc)) \union (kept \intersect Claims(k, s, ProfileConfigs(gvrOf[k])))
      /\ UNCHANGED created

Remove(k) ==
  /\ stored[k] # None
  /\ stored' = [stored EXCEPT ![k] = None]
  /\ Observe(k, [gone |-> TRUE, state |-> stored[k]])
  /\ UNCHANGED <<created, kept>>

Change(k) ==
  /\ Running /\ writes < MaxWrites
  /\ Remove(k) \/ \E v \in Versions[k] : Create(k, v) \/ Edit(k, v)
  /\ writes' = writes + 1
  /\ answer' = None
  /\ UNCHANGED <<registry, booted, cached, job, engine, byUID, replaced, late, renamed>>

-----------------------------------------------------------------------------
(* The informer.                                                           *)

(* The watch breaks and the informer lists: it keeps the net change.       *)
Relist(k) ==
  /\ Running /\ Len(log[k]) > 1
  /\ log' = [log EXCEPT ![k] =
               IF stored[k] # None THEN <<[gone |-> FALSE, state |-> stored[k]]>>
               ELSE IF cached[k] # None THEN <<[gone |-> TRUE, state |-> cached[k]]>> ELSE <<>>]
  /\ replaced' = IF stored[k] # None /\ cached[k] # None /\ stored[k].inc # cached[k].inc
                 THEN replaced \union {<<k, cached[k].inc>>} ELSE replaced
  /\ answer' = None
  /\ UNCHANGED <<registry, booted, stored, cached, created, writes, job, engine, byUID,
                 kept, late, renamed>>

Call(k, verb, s) == job' = [job EXCEPT ![gvrOf[k]] = [verb |-> verb, key |-> k, state |-> s, todo |-> None]]

(* handleAdd, handleUpdate: nothing unless the GVR is watched.             *)
handleAdd(k, s) == IF gvrOf[k] \in watched THEN Call(k, "add", s) ELSE UNCHANGED job

handleUpdate(k, s) == handleAdd(k, s)

handleDelete(k, s) == Call(k, "delete", s)

Deliver(k) ==
  /\ Running /\ job[gvrOf[k]] = None /\ log[k] # <<>>
  /\ LET e == Head(log[k])
     IN  /\ cached' = [cached EXCEPT ![k] = IF e.gone THEN None ELSE e.state]
         /\ IF e.gone THEN handleDelete(k, e.state)
            ELSE IF cached[k] = None THEN handleAdd(k, e.state) ELSE handleUpdate(k, e.state)
  /\ log' = [log EXCEPT ![k] = Tail(@)]
  /\ answer' = None
  /\ UNCHANGED <<registry, booted, stored, created, writes, engine, byUID, history>>

Resync(k) ==
  /\ Running /\ job[gvrOf[k]] = None /\ cached[k] # None
  /\ handleUpdate(k, cached[k])
  /\ answer' = None
  /\ UNCHANGED <<registry, booted, cluster, engine, byUID, history>>

-----------------------------------------------------------------------------
(* The rest of a handler: it parses, then goes through the constraints.    *)
Todo_SourceUID(verb, k, s, cfg) ==
  IF verb = "add" THEN parseObject(k, s, cfg).constraints ELSE <<P!Whole(Object(k, s))>>

Todo_IfAbsent(verb, k, s, cfg) ==
  IF verb = "add" THEN SelectSeq(parseObject(k, s, cfg).constraints, LAMBDA c : byUID[c.uid] = NoConstraint)
  ELSE DeletedUIDs(k, s, cfg)

Todo(verb, k, s, cfg) ==
  IF verb = "add" THEN parseObject(k, s, cfg).constraints ELSE DeletedUIDs(k, s, cfg)

Parse(g) ==
  /\ job[g] # None /\ job[g].todo = None
  /\ \E cfg \in ProfileConfigs(g) :
       job' = [job EXCEPT ![g].todo = Todo(job[g].verb, job[g].key, job[g].state, cfg)]
  /\ answer' = None
  /\ UNCHANGED <<registry, booted, cluster, engine, byUID, history>>

Apply(g) ==
  /\ job[g] # None /\ job[g].todo # None
  /\ IF job[g].todo = <<>>
     THEN job' = [job EXCEPT ![g] = None] /\ UNCHANGED byUID
     ELSE /\ job' = [job EXCEPT ![g].todo = Tail(@)]
          /\ byUID' = IF job[g].verb = "add" THEN V!Upsert(byUID, Head(job[g].todo))
                      ELSE V!Delete(byUID, Head(job[g].todo))
  /\ answer' = None
  /\ UNCHANGED <<registry, booted, cluster, engine, history>>

-----------------------------------------------------------------------------
(* Profiles.                                                               *)
RegisterProfile(p, cfg) ==
  /\ Running /\ profileChanges < MaxProfileChanges
  /\ cfg.gvr \in watched /\ profiles[p] # cfg
  /\ profiles' = [profiles EXCEPT ![p] = cfg]
  /\ profileChanges' = profileChanges + 1
  /\ kept' = KeptAfterwards
  /\ renamed' = IF cfg.adapter \in adapters \ {gvrMap[cfg.gvr]} THEN renamed \union {cfg.gvr} ELSE renamed
  /\ answer' = None
  /\ UNCHANGED <<registry, booted, cluster, job, watched, cleaning, byUID, replaced, late>>

(* UnregisterProfile: under the lock, then, once it is released, cleanup.  *)
UnregisterProfile(p) ==
  /\ Running /\ profileChanges < MaxProfileChanges
  /\ profiles[p] # None
  /\ LET g == profiles[p].gvr
         needed == ProfilesOf(g) # {p}
     IN  /\ watched' = IF needed THEN watched ELSE watched \ {g}
         /\ cleaning' = IF needed THEN cleaning ELSE cleaning \union {g}
  /\ profiles' = [profiles EXCEPT ![p] = None]
  /\ kept' = KeptAfterwards
  /\ profileChanges' = profileChanges + 1
  /\ answer' = None
  /\ UNCHANGED <<registry, booted, cluster, job, byUID, replaced, late, renamed>>

Cleanup(g) ==
  /\ g \in cleaning
  /\ cleaning' = cleaning \ {g}
  /\ byUID' = V!DeleteBySource(byUID, g)
  /\ answer' = None
  /\ late' = IF job[g] # None /\ job[g].verb = "add" THEN late \union {<<job[g].key, job[g].state.inc>>} ELSE late
  /\ UNCHANGED <<registry, booted, cluster, job, watched, profiles, profileChanges, kept, replaced, renamed>>

(* A question, answered from the index.                                    *)
Ask ==
  /\ Running
  /\ V!Answers
  /\ UNCHANGED <<registry, booted, cluster, job, engine, history>>

Handle == \E g \in DOMAIN job : Parse(g) \/ Apply(g) \/ Cleanup(g)

Work ==
  \/ Boot
  \/ \E k \in Keys : Change(k) \/ Relist(k) \/ Deliver(k) \/ Resync(k)
  \/ Handle
  \/ \E p \in Profiles : UnregisterProfile(p) \/ \E cfg \in Configs : RegisterProfile(p, cfg)

NextPolicies == Work \/ Ask

-----------------------------------------------------------------------------
(* Properties.                                                             *)

Settled(k) == log[k] = <<>> /\ cached[k] = stored[k] /\ job[gvrOf[k]] = None /\ cleaning = {}

(* The GVR of a constraint's source is not the object's own when the       *)
(* adapter was found by its group or named by a profile.                   *)
Misfiled(g) == g \in renamed \/ (gvrMap[g] = None /\ groupMap[groupOf[g]] # None)

(* Once the informer of an object has caught up, what the index holds for  *)
(* it is claimed by the object as it is; anything else is there for one of *)
(* four reasons: a version of the object, or an adapter that was put in    *)
(* charge, did not yield it; a relist showed a deletion and a creation as  *)
(* one update; the profile of the GVR is gone and its constraints are      *)
(* filed under another one; or their handler was still at work when        *)
(* UnregisterProfile cleaned up.  handleDelete finds all the rest.         *)
LeftoversExplained ==
  \A k \in Keys : Settled(k) =>
    LET g == gvrOf[k]
        claimed == IF stored[k] = None \/ g \notin watched THEN {}
                   ELSE UNION {Claimed(k, stored[k], cfg) : cfg \in ProfileConfigs(g)}
    IN  \A u \in {u \in DOMAIN byUID : u[1] = k /\ byUID[u] # NoConstraint} :
          \/ u \in claimed
          \/ u \notin kept
          \/ <<k, u[2]>> \in replaced
          \/ g \notin watched /\ (Misfiled(g) \/ <<k, u[2]>> \in late)

(* The index has a constraint for each UID that parsing yields; the last   *)
(* one, except while a handler goes through them again: a network policy   *)
(* for both directions yields two with one UID.                            *)
Holds(constraints, handling) ==
  \A i \in DOMAIN constraints :
    LET twins == {j \in DOMAIN constraints : constraints[j].uid = constraints[i].uid}
    IN  \E j \in twins :
          /\ byUID[constraints[i].uid] = constraints[j]
          /\ handling \/ \A l \in twins : l <= j

Indexed(k) ==
  stored[k] # None /\ gvrOf[k] \in watched =>
    \E cfg \in ProfileConfigs(gvrOf[k]) :
      Holds(parseObject(k, stored[k], cfg).constraints, job[gvrOf[k]] # None)

(* When changes cease, every object of a watched GVR ends up in the index  *)
(* as its adapter reads it now: through a change of adapter by a profile,  *)
(* broken watches, and the cleanup of another GVR that removes more than   *)
(* its own.  Nothing but the resync brings the last two back.              *)
ObjectsIndexed == <>[](\A k \in Keys : Indexed(k))

(* The properties of the registry and the views, of the adapters and the   *)
(* index that are there.                                                   *)
Forewarned == V!Forewarned
CountsAgree == V!CountsAgree

=============================================================================
