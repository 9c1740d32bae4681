----------------------------- MODULE Discovery -----------------------------
(***************************************************************************)
(* The discovery engine (internal/discovery/engine.go) with the            *)
(* ConstraintProfile reconciler that drives it                             *)
(* (internal/controller/constraintprofile_controller.go) and the index it  *)
(* fills (module Indexer).                                                 *)
(*                                                                         *)
(* Four kinds of goroutines interleave: the periodic scan, the profile     *)
(* reconciler (one at a time), the event handlers of the informers, and    *)
(* the environment that changes objects, profiles and CRD annotations.     *)
(* A handler checks watchedGVRs in one critical section and parses and     *)
(* upserts later; a scan decides in one critical section what is           *)
(* constraint-like and starts informers in another; UnregisterProfile      *)
(* cleans the index after it has released the engine's mutex.              *)
(*                                                                         *)
(* A listener is one event-handler registration on a dynamic informer      *)
(* (external code): it receives an add for every existing object when it   *)
(* starts, then every change of an object of its GVR in order, and, every  *)
(* resync period, an update for every object.  When its stop channel is    *)
(* closed it loses what it has not handed to the handler.                  *)
(*                                                                         *)
(* The content of an object is a number: for an adapter that makes one     *)
(* constraint per rule it is the number of rules (such an adapter refuses  *)
(* an object without rules), for the others the revision of the object.    *)
(* Engine.informers is written and never read; it is left out.             *)
(***************************************************************************)
EXTENDS Common, Integers, Sequences, FiniteSets, Functions

CONSTANTS
  GVRs,           \* the resources the API server offers
  Native,         \* those that are constraint-like by group, adapter or name
  RuleGVRs,       \* those whose registered adapter makes one constraint per rule
  RuleSource,     \* the Source that adapter writes into its constraints
  Objects,        \* policy objects
  gvrOf,          \* the GVR of each object
  MaxVal,         \* bound on the content of an object
  ProfileNames,   \* names of ConstraintProfiles
  ProfileSpecs,   \* the specs each of them may have
  Annotatable,    \* GVRs whose CRD may carry the is-policy annotation
  MaxListeners,   \* bound on listeners that exist at one time
  MaxChanges,     \* bound on changes of objects, profiles and annotations
  CanStop,        \* whether Stop may be called
  NoConstraint, ClusterScope

INSTANCE Indexer

(* The orders in which a set can be listed.                                *)
Orders(S) == {order \in [1..Cardinality(S) -> S] : \A x \in S : \E i \in DOMAIN order : order[i] = x}

(* There are finitely many objects: they have a number and can be listed.  *)
ASSUME ConstantsAssumption ==
  /\ Native \subseteq GVRs /\ RuleGVRs \subseteq GVRs /\ Annotatable \subseteq GVRs
  /\ RuleSource \in GVRs
  /\ gvrOf \in [Objects -> GVRs]
  /\ MaxVal \in Nat \ {0} /\ MaxListeners \in Nat /\ MaxChanges \in Nat
  /\ CanStop \in BOOLEAN
  /\ \A some \in SUBSET Objects : Cardinality(some) \in Nat /\ Orders(some) # {}

ProfileSpec == [gvr : GVRs, adapter : {"generic", "rules"}, enabled : BOOLEAN]
ASSUME ProfileSpecsAssumption == ProfileSpecs \in [ProfileNames -> SUBSET ProfileSpec]

ListenerIds == 1..MaxListeners
profileState ==
  [gvr : GVRs, adapter : {"generic", "rules"}, enabled : BOOLEAN,
   stopCh : ListenerIds \union {None}]

UIDs == Objects \X (0..MaxVal)
Vals == 0..MaxVal
Constraint == [uid : UIDs, source : GVRs, val : Vals]
Event == [obj : Objects, deleted : BOOLEAN, val : Vals]
Parsed == [obj : Objects, deleted : BOOLEAN, cs : SUBSET Constraint]
Listener == [gvr : GVRs \union {None}, own : BOOLEAN, running : BOOLEAN,
             queue : Seq(Event), hand : Event \union Parsed \union {None}]
NoListener == [gvr |-> None, own |-> FALSE, running |-> FALSE, queue |-> <<>>, hand |-> None]

VARIABLES
  objects,        \* cluster: content of every object, or None
  desired,        \* cluster: spec of every ConstraintProfile, or None
  crdAnnotated,   \* cluster: GVRs whose CRD carries the annotation
  dirty,          \* profiles whose reconcile request is queued
  profiles,       \* Engine.profiles
  watchedGVRs,    \* Engine.watchedGVRs
  annotatedCRDs,  \* Engine.annotatedCRDs
  listeners,      \* event-handler registrations, NoListener where unused
  discovered,     \* what a running scan found, None between scans
  cleanup,        \* GVR UnregisterProfile is about to clean up, or None
  byUID,          \* the index
  stopped,        \* the engine's stop channel is closed
  panicked,       \* a stop channel was closed twice
  changes         \* changes made by the environment so far

vars == <<objects, desired, crdAnnotated, dirty, profiles, watchedGVRs, annotatedCRDs,
          listeners, discovered, cleanup, byUID, stopped, panicked, changes>>

TypeOK ==
  /\ objects \in [Objects -> Vals \union {None}]
  /\ desired \in [ProfileNames -> ProfileSpec \union {None}]
  /\ crdAnnotated \subseteq Annotatable /\ annotatedCRDs \subseteq Annotatable
  /\ dirty \subseteq ProfileNames
  /\ profiles \in [ProfileNames -> profileState \union {None}]
  /\ watchedGVRs \subseteq GVRs
  /\ listeners \in [ListenerIds -> Listener]
  /\ discovered \in (SUBSET GVRs) \union {None}
  /\ cleanup \in GVRs \union {None}
  /\ byUID \in [UIDs -> Constraint \union {NoConstraint}]
  /\ stopped \in BOOLEAN /\ panicked \in BOOLEAN
  /\ changes \in 0..MaxChanges

Init ==
  /\ objects = [o \in Objects |-> None]
  /\ desired = [p \in ProfileNames |-> None]
  /\ crdAnnotated = {} /\ annotatedCRDs = {}
  /\ dirty = {}
  /\ profiles = [p \in ProfileNames |-> None]
  /\ watchedGVRs = {}
  /\ listeners = [l \in ListenerIds |-> NoListener]
  /\ discovered = None
  /\ cleanup = None
  /\ byUID = [u \in UIDs |-> NoConstraint]
  /\ stopped = FALSE /\ panicked = FALSE
  /\ changes = 0

-----------------------------------------------------------------------------
(* The cluster: objects, profiles and annotations change.                  *)

Running(l) == listeners[l].running

(* The API server tells every running listener of the object's GVR.        *)
Notify(e) ==
  listeners' = [l \in ListenerIds |->
    IF Running(l) /\ listeners[l].gvr = gvrOf[e.obj]
    THEN [listeners[l] EXCEPT !.queue = Append(@, e)]
    ELSE listeners[l]]

WriteObject(o, v) ==
  /\ changes < MaxChanges
  /\ objects[o] # v
  /\ objects' = [objects EXCEPT ![o] = v]
  /\ changes' = changes + 1
  /\ Notify([obj |-> o, deleted |-> FALSE, val |-> v])
  /\ UNCHANGED <<desired, crdAnnotated, dirty, profiles, watchedGVRs, annotatedCRDs,
                 discovered, cleanup, byUID, stopped, panicked>>

DeleteObject(o) ==
  /\ changes < MaxChanges
  /\ objects[o] # None
  /\ objects' = [objects EXCEPT ![o] = None]
  /\ changes' = changes + 1
  /\ Notify([obj |-> o, deleted |-> TRUE, val |-> objects[o]])
  /\ UNCHANGED <<desired, crdAnnotated, dirty, profiles, watchedGVRs, annotatedCRDs,
                 discovered, cleanup, byUID, stopped, panicked>>

(* A ConstraintProfile is created, updated (s a spec) or deleted (s None), *)
(* and a reconcile request for it is queued.                               *)
WriteProfile(p, s) ==
  /\ changes < MaxChanges
  /\ desired[p] # None \/ s # None
  /\ desired' = [desired EXCEPT ![p] = s]
  /\ dirty' = dirty \union {p}
  /\ changes' = changes + 1
  /\ UNCHANGED <<objects, crdAnnotated, profiles, watchedGVRs, annotatedCRDs, listeners,
                 discovered, cleanup, byUID, stopped, panicked>>

Annotate(g) ==
  /\ changes < MaxChanges
  /\ crdAnnotated' = IF g \in crdAnnotated THEN crdAnnotated \ {g} ELSE crdAnnotated \union {g}
  /\ changes' = changes + 1
  /\ UNCHANGED <<objects, desired, dirty, profiles, watchedGVRs, annotatedCRDs, listeners,
                 discovered, cleanup, byUID, stopped, panicked>>

-----------------------------------------------------------------------------
(* Starting and stopping informers.                                        *)

EnabledOn(g) == {p \in ProfileNames : profiles[p] # None /\ profiles[p].enabled /\ profiles[p].gvr = g}

Existing(g) ==
  LET order == CHOOSE order \in Orders({o \in Objects : gvrOf[o] = g /\ objects[o] # None}) : TRUE
  IN  [i \in DOMAIN order |-> [obj |-> order[i], deleted |-> FALSE, val |-> objects[order[i]]]]

(* A registration: the handler is told of every object there is.  It runs  *)
(* at once unless its stop channel is closed already.                      *)
NewListener(g, own) ==
  [gvr |-> g, own |-> own, running |-> own \/ ~stopped,
   queue |-> IF own \/ ~stopped THEN Existing(g) ELSE <<>>, hand |-> None]

(* A slot no goroutine uses: never started, or stopped and drained.        *)
Free == {l \in ListenerIds : ~listeners[l].running /\ listeners[l].hand = None}

FreeSlot == CHOOSE l \in Free : TRUE

Stop1(lis) == [lis EXCEPT !.running = FALSE, !.queue = <<>>]

(* stopProfileInformerLocked: close the profile's channel, if it has one.  *)
CloseStopCh(lss, ps) ==
  IF ps = None \/ ps.stopCh = None THEN lss
  ELSE [lss EXCEPT ![ps.stopCh] = Stop1(@)]

(* Closing a closed channel is a run-time panic.                           *)
ClosesTwice(ps) == ps # None /\ ps.stopCh # None /\ ~listeners[ps.stopCh].running

-----------------------------------------------------------------------------
(* The profile reconciler.                                                 *)

(* RegisterProfile when the old profile of that name must lose its         *)
(* informer: its GVR changed or the profile is disabled now.               *)
MustStopOld(p, s) == profiles[p] # None /\ (profiles[p].gvr # s.gvr \/ ~s.enabled)

RegisterDisabled_StillWatched(p, s) ==
  /\ ~s.enabled
  /\ panicked' = (panicked \/ ClosesTwice(profiles[p]))
  /\ listeners' = CloseStopCh(listeners, profiles[p])
  /\ profiles' = [profiles EXCEPT ![p] =
       [gvr |-> s.gvr, adapter |-> s.adapter, enabled |-> FALSE, stopCh |-> None]]
  /\ UNCHANGED watchedGVRs

RegisterDisabled_KeepsChannel(p, s) ==
  /\ ~s.enabled
  /\ panicked' = (panicked \/ ClosesTwice(profiles[p]))
  /\ listeners' = CloseStopCh(listeners, profiles[p])
  /\ profiles' = [profiles EXCEPT ![p] =
       [gvr |-> s.gvr, adapter |-> s.adapter, enabled |-> FALSE,
        stopCh |-> IF @ = None THEN None ELSE @.stopCh]]
  /\ watchedGVRs' = watchedGVRs \ {s.gvr}

(* RegisterProfile for a disabled spec: the GVR is no longer watched.      *)
RegisterDisabled(p, s) ==
  /\ ~s.enabled
  /\ panicked' = (panicked \/ ClosesTwice(profiles[p]))
  /\ listeners' = CloseStopCh(listeners, profiles[p])
  /\ profiles' = [profiles EXCEPT ![p] =
       [gvr |-> s.gvr, adapter |-> s.adapter, enabled |-> FALSE, stopCh |-> None]]
  /\ watchedGVRs' = watchedGVRs \ {s.gvr}

(* RegisterProfile for an enabled spec: start an informer with a stop      *)
(* channel of its own unless the GVR is watched already.                   *)
RegisterEnabled(p, s) ==
  /\ s.enabled
  /\ LET old == IF MustStopOld(p, s) THEN profiles[p] ELSE None
         kept == CloseStopCh(listeners, old)
         fresh == s.gvr \notin watchedGVRs
     IN  /\ fresh => Free # {}
         /\ panicked' = (panicked \/ ClosesTwice(old))
         /\ listeners' = IF fresh THEN [kept EXCEPT ![FreeSlot] = NewListener(s.gvr, TRUE)] ELSE kept
         /\ profiles' = [profiles EXCEPT ![p] =
              [gvr |-> s.gvr, adapter |-> s.adapter, enabled |-> TRUE,
               stopCh |-> IF fresh THEN FreeSlot ELSE None]]
         /\ watchedGVRs' = watchedGVRs \union {s.gvr}

(* Reconcile of a profile that exists.                                     *)
ReconcileRegister(p) ==
  /\ ~stopped /\ cleanup = None
  /\ p \in dirty /\ desired[p] # None
  /\ dirty' = dirty \ {p}
  /\ RegisterDisabled(p, desired[p]) \/ RegisterEnabled(p, desired[p])
  /\ UNCHANGED <<objects, desired, crdAnnotated, annotatedCRDs, discovered, cleanup, byUID,
                 stopped, changes>>

NeededByOther(p, g) == EnabledOn(g) \ {p} # {}

(* Reconcile of a profile that is gone: UnregisterProfile up to the point  *)
(* where it releases the mutex.                                            *)
ReconcileUnregister(p) ==
  /\ ~stopped /\ cleanup = None
  /\ p \in dirty /\ desired[p] = None
  /\ dirty' = dirty \ {p}
  /\ IF profiles[p] = None
     THEN UNCHANGED <<profiles, watchedGVRs, listeners, cleanup, panicked>>
     ELSE LET g == profiles[p].gvr
              needed == NeededByOther(p, g)
          IN  /\ panicked' = (panicked \/ ClosesTwice(profiles[p]))
              /\ listeners' = CloseStopCh(listeners, profiles[p])
              /\ profiles' = [profiles EXCEPT ![p] = None]
              /\ watchedGVRs' = IF needed THEN watchedGVRs ELSE watchedGVRs \ {g}
              /\ cleanup' = IF needed THEN None ELSE g
  /\ UNCHANGED <<objects, desired, crdAnnotated, annotatedCRDs, discovered, byUID, stopped,
                 changes>>

(* The rest of UnregisterProfile: DeleteBySource, outside the mutex.       *)
UnregisterCleanup ==
  /\ cleanup # None
  /\ byUID' = DeleteBySource(byUID, cleanup)
  /\ cleanup' = None
  /\ UNCHANGED <<objects, desired, crdAnnotated, dirty, profiles, watchedGVRs, annotatedCRDs,
                 listeners, discovered, stopped, panicked, changes>>

-----------------------------------------------------------------------------
(* The scan.                                                               *)

isConstraintLike(g) == g \in Native \/ EnabledOn(g) # {} \/ g \in annotatedCRDs

(* The annotated CRDs; the engine keeps what it had when it cannot list    *)
(* them.                                                                   *)
refreshAnnotatedCRDs(listed) == annotatedCRDs' = IF listed THEN crdAnnotated ELSE annotatedCRDs

(* The first half of scan: which of the offered resources are              *)
(* constraint-like (ServerPreferredResources may return only part of       *)
(* them), then the annotations, which only the next scan will see.         *)
ScanDiscover(offered, crdsListed) ==
  /\ discovered = None
  /\ discovered' = {g \in offered : isConstraintLike(g)}
  /\ refreshAnnotatedCRDs(crdsListed)
  /\ UNCHANGED <<objects, desired, crdAnnotated, dirty, profiles, watchedGVRs, listeners,
                 cleanup, byUID, stopped, panicked, changes>>

Suppressed == {profiles[p].gvr : p \in {q \in ProfileNames : profiles[q] # None /\ ~profiles[q].enabled}}

(* The second half, under the mutex: start an informer of the shared       *)
(* factory for what is neither suppressed nor watched.                     *)
ScanStart ==
  /\ discovered # None
  /\ LET new == (discovered \ Suppressed) \ watchedGVRs
         slot == CHOOSE f \in Injection(new, Free) : TRUE
     IN  /\ Injection(new, Free) # {}
         /\ listeners' = [l \in ListenerIds |->
              IF \E g \in new : slot[g] = l
              THEN NewListener(CHOOSE g \in new : slot[g] = l, FALSE)
              ELSE listeners[l]]
         /\ watchedGVRs' = watchedGVRs \union new
  /\ discovered' = None
  /\ UNCHANGED <<objects, desired, crdAnnotated, dirty, profiles, annotatedCRDs, cleanup,
                 byUID, stopped, panicked, changes>>

-----------------------------------------------------------------------------
(* The event handlers.                                                     *)

(* parseObject: the adapter an enabled profile names, else the registered  *)
(* one.  Which of several profiles of a GVR decides is the map's order.    *)
Adapters(g) ==
  LET default == IF g \in RuleGVRs THEN "rules" ELSE "generic"
  IN  IF EnabledOn(g) = {} THEN {default}
      ELSE {IF profiles[p].adapter = "generic" THEN default ELSE profiles[p].adapter :
            p \in EnabledOn(g)}

Parse(adapter, o, v) ==
  IF adapter = "rules"
  THEN {[uid |-> <<o, i>>, source |-> RuleSource, val |-> v] : i \in 1..v}
  ELSE {[uid |-> <<o, 0>>, source |-> gvrOf[o], val |-> v]}

(* An add or update reaches the handler and its GVR is watched; a delete   *)
(* is handled in any case.                                                 *)
HandlerTakes(l) ==
  /\ Running(l) /\ listeners[l].hand = None /\ listeners[l].queue # <<>>
  /\ LET e == Head(listeners[l].queue)
         watched == e.deleted \/ listeners[l].gvr \in watchedGVRs
     IN  listeners' = [listeners EXCEPT ![l].queue = Tail(@),
                                        ![l].hand = IF watched THEN e ELSE None]
  /\ UNCHANGED <<objects, desired, crdAnnotated, dirty, profiles, watchedGVRs, annotatedCRDs,
                 discovered, cleanup, byUID, stopped, panicked, changes>>

(* parseObject, in a critical section of its own.                          *)
HandlerParses(l) ==
  /\ listeners[l].hand \in Event
  /\ \E a \in Adapters(listeners[l].gvr) :
       listeners' = [listeners EXCEPT ![l].hand =
         [obj |-> @.obj, deleted |-> @.deleted, cs |-> Parse(a, @.obj, @.val)]]
  /\ UNCHANGED <<objects, desired, crdAnnotated, dirty, profiles, watchedGVRs, annotatedCRDs,
                 discovered, cleanup, byUID, stopped, panicked, changes>>

HasParsed(l) == listeners[l].hand \in Parsed

(* The rest of handleAdd and handleUpdate: upsert what was parsed.         *)
(* Nothing the object no longer produces is removed.                       *)
HandlerUpserts(l) ==
  /\ HasParsed(l) /\ ~listeners[l].hand.deleted
  /\ byUID' = UpsertAll(byUID, listeners[l].hand.cs)
  /\ listeners' = [listeners EXCEPT ![l].hand = None]
  /\ UNCHANGED <<objects, desired, crdAnnotated, dirty, profiles, watchedGVRs, annotatedCRDs,
                 discovered, cleanup, stopped, panicked, changes>>

HandlerDeletes_Skips(l) ==
  /\ HasParsed(l) /\ listeners[l].hand.deleted
  /\ listeners' = [listeners EXCEPT ![l].hand = None]
  /\ UNCHANGED <<objects, desired, crdAnnotated, dirty, profiles, watchedGVRs, annotatedCRDs,
                 discovered, cleanup, byUID, stopped, panicked, changes>>

(* The rest of handleDelete: remove what the deleted object parses to, or  *)
(* the UID of the object itself when it parses to nothing.                 *)
HandlerDeletes(l) ==
  /\ HasParsed(l) /\ listeners[l].hand.deleted
  /\ LET cs == listeners[l].hand.cs
     IN  byUID' = IF cs = {} THEN Delete(byUID, <<listeners[l].hand.obj, 0>>)
                  ELSE DeleteAll(byUID, {c.uid : c \in cs})
  /\ listeners' = [listeners EXCEPT ![l].hand = None]
  /\ UNCHANGED <<objects, desired, crdAnnotated, dirty, profiles, watchedGVRs, annotatedCRDs,
                 discovered, cleanup, stopped, panicked, changes>>

(* The informer's resync: an update for every object it knows.             *)
Resync(l) ==
  /\ Running(l) /\ listeners[l].queue = <<>>
  /\ listeners' = [listeners EXCEPT ![l].queue = Existing(listeners[l].gvr)]
  /\ UNCHANGED <<objects, desired, crdAnnotated, dirty, profiles, watchedGVRs, annotatedCRDs,
                 discovered, cleanup, byUID, stopped, panicked, changes>>

-----------------------------------------------------------------------------
(* Stop: close the shared channel, then the channel of every profile.  The *)
(* program calls it when the manager and with it the reconciler has ended. *)
Owned == {profiles[p].stopCh : p \in {q \in ProfileNames : profiles[q] # None}} \ {None}

Stop ==
  /\ CanStop /\ ~stopped /\ cleanup = None
  /\ stopped' = TRUE
  /\ listeners' = [l \in ListenerIds |->
       IF ~listeners[l].own \/ l \in Owned
       THEN Stop1(listeners[l]) ELSE listeners[l]]
  /\ panicked' = (panicked \/ \E p \in ProfileNames : ClosesTwice(profiles[p]))
  /\ profiles' = [p \in ProfileNames |->
       IF profiles[p] = None THEN None ELSE [profiles[p] EXCEPT !.stopCh = None]]
  /\ UNCHANGED <<objects, desired, crdAnnotated, dirty, watchedGVRs, annotatedCRDs, discovered,
                 cleanup, byUID, changes>>

Environment ==
  \/ \E o \in Objects : (\E v \in Vals : WriteObject(o, v)) \/ DeleteObject(o)
  \/ \E p \in ProfileNames : \E s \in ProfileSpecs[p] \union {None} : WriteProfile(p, s)
  \/ \E g \in Annotatable : Annotate(g)

Reconciler ==
  \/ \E p \in ProfileNames : ReconcileRegister(p) \/ ReconcileUnregister(p)
  \/ UnregisterCleanup

Scan ==
  \/ \E offered \in SUBSET GVRs, crdsListed \in (IF Annotatable = {} THEN {TRUE} ELSE BOOLEAN) :
       ScanDiscover(offered, crdsListed)
  \/ ScanStart

Handler(l) ==
  HandlerTakes(l) \/ HandlerParses(l) \/ HandlerUpserts(l) \/ HandlerDeletes(l)

Next ==
  \/ Environment
  \/ Reconciler
  \/ Scan
  \/ \E l \in ListenerIds : Handler(l) \/ Resync(l)
  \/ Stop

Spec == Init /\ [][Next]_vars

(* The goroutines of the engine keep running; scans recur, and not every   *)
(* discovery call fails for ever; every informer resyncs again and again.  *)
Fairness ==
  /\ WF_vars(Reconciler)
  /\ SF_vars(ScanDiscover(GVRs, TRUE))
  /\ WF_vars(ScanStart)
  /\ \A l \in ListenerIds : WF_vars(Handler(l)) /\ WF_vars(Resync(l))

FairSpec == Spec /\ Fairness

-----------------------------------------------------------------------------
(* Properties.                                                             *)

(* The constraints the index should hold: what the registered adapters     *)
(* make of the existing objects of every GVR that is constraint-like and   *)
(* not suppressed by a disabled profile.                                   *)
Wanted(g) == isConstraintLike(g) /\ g \notin Suppressed
Expected(o) ==
  IF objects[o] = None \/ ~Wanted(gvrOf[o]) THEN {}
  ELSE UNION {Parse(a, o, objects[o]) : a \in Adapters(gvrOf[o])}

(* The GVRs a profile may name.  Two profiles for one GVR, and a profile   *)
(* whose GVR is edited, leave a GVR marked as watched whose informer is    *)
(* stopped; the guarantees about informers are for the other GVRs.         *)
NamedBy(p) == {s.gvr : s \in ProfileSpecs[p]}
Apart(g) == \A p, q \in ProfileNames : g \in NamedBy(p) =>
              NamedBy(p) = {g} /\ (g \in NamedBy(q) => p = q)

(* No stop channel is closed twice, whatever the order of profile updates, *)
(* deletions and Stop (stopProfileInformerLocked sets the field to nil).   *)
NoDoubleClose == ~panicked

(* Until Stop, every GVR WatchedGVRs reports has a running informer, if at *)
(* most one profile names it and that profile names no other.              *)
WatchedIsLive ==
  ~stopped => \A g \in watchedGVRs : Apart(g) =>
    \E l \in ListenerIds : Running(l) /\ listeners[l].gvr = g

(* Once the cluster is quiet every object of a wanted GVR is in the index, *)
(* at its current content, for good: no race of reconciler, scan and       *)
(* handlers loses it for ever.                                             *)
IndexComplete ==
  <>[](stopped \/ \A o \in Objects : Apart(gvrOf[o]) => Expected(o) \subseteq All(byUID))

(* The objects of resources that only Native makes constraint-like, with   *)
(* one constraint per object.                                              *)
Plain == {o \in Objects : gvrOf[o] \in Native \ RuleGVRs /\ \A p \in ProfileNames : gvrOf[o] \notin NamedBy(p)}

(* Once the cluster is quiet the index holds of these objects exactly what *)
(* exists, whatever partial discovery results, scans and informer events   *)
(* came before: nothing is missing and nothing is left over.               *)
IndexConverges ==
  <>[](stopped \/ {c \in All(byUID) : c.uid[1] \in Plain} = UNION {Expected(o) : o \in Plain})

=============================================================================
