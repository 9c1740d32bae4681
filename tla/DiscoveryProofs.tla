-------------------------- MODULE DiscoveryProofs --------------------------
(***************************************************************************)
(* The discovery engine keeps its types and never closes a stop channel    *)
(* twice, for every set of resources, objects and profiles and whatever    *)
(* specs the profiles take: profiles that share a GVR, move to another     *)
(* GVR, or are disabled and enabled again.  What it reports as watched has *)
(* a running informer, but for the GVRs of such profiles.                  *)
(*                                                                         *)
(* The certificates of the webhook's replicas (CertManager): the CA bundle *)
(* that the API server is given vouches for them, for any number of        *)
(* replicas that start, renew, crash and are refused by the API server.    *)
(***************************************************************************)
EXTENDS Discovery, CertManager, TLAPS

HasChannel(p) == profiles[p] # None /\ profiles[p].stopCh # None

(* The channel a profile holds is the stop channel of a running informer   *)
(* of the profile's GVR.                                                   *)
ChannelsLive ==
  \A p \in ProfileNames : HasChannel(p) =>
     listeners[profiles[p].stopCh].running /\ listeners[profiles[p].stopCh].gvr = profiles[p].gvr

(* No two profiles hold the same channel.                                  *)
ChannelsApart ==
  \A p, q \in ProfileNames : HasChannel(p) /\ HasChannel(q) /\ p # q =>
     profiles[p].stopCh # profiles[q].stopCh

(* A profile has, in the cluster and in the engine, a GVR it may name.     *)
SpecsNamed == \A p \in ProfileNames : desired[p] # None => desired[p] \in ProfileSpecs[p]
ProfilesNamed == \A p \in ProfileNames : profiles[p] # None => profiles[p].gvr \in NamedBy(p)

Engine == ChannelsLive /\ ChannelsApart /\ ProfilesNamed /\ WatchedIsLive

IInv == TypeOK /\ NoDoubleClose /\ SpecsNamed /\ Engine

(* A running listener goes on running for the same GVR.                    *)
KeepsRunning(l) ==
  listeners[l].running => listeners'[l].running /\ listeners'[l].gvr = listeners[l].gvr

LEMMA EngineTypes ==
  ASSUME IInv
  PROVE  /\ listeners \in [ListenerIds -> Listener]
         /\ profiles \in [ProfileNames -> profileState \union {None}]
BY Zenon DEF IInv, TypeOK

(* What a listener is told of when it starts or resyncs.                   *)
LEMMA ExistingType ==
  ASSUME TypeOK, NEW g
  PROVE  Existing(g) \in Seq(Event)
<1> DEFINE present == {o \in Objects : gvrOf[o] = g /\ objects[o] # None}
           n == Cardinality(present)
           order == CHOOSE order \in Orders(present) : TRUE
<1>1. n \in Nat /\ Orders(present) # {}
  BY ConstantsAssumption, Zenon DEF ConstantsAssumption
<1>2. order \in [1..n -> present]
  BY <1>1, Zenon DEF Orders
<1>3. Existing(g) = [i \in DOMAIN order |-> [obj |-> order[i], deleted |-> FALSE, val |-> objects[order[i]]]]
  BY Zenon DEF Existing
<1> HIDE DEF order, n
<1>4. \A i \in 1..n : [obj |-> order[i], deleted |-> FALSE, val |-> objects[order[i]]] \in Event
  BY <1>2, Zenon DEF TypeOK, Event
<1>5. Existing(g) \in [1..n -> Event]
  BY <1>2, <1>3, <1>4, Zenon
<1> HIDE DEF present
<1> QED
  BY <1>1, <1>5

LEMMA NewListenerType ==
  ASSUME TypeOK, NEW g \in GVRs, NEW own \in BOOLEAN
  PROVE  NewListener(g, own) \in Listener
<1>1. Existing(g) \in Seq(Event)
  BY ExistingType, Zenon
<1>2. QED
  BY <1>1 DEF NewListener, Listener, TypeOK

(* Listener l does not end when the channel of profile ps is closed.       *)
Spared(ps, l) == ps = None \/ ps.stopCh = None \/ l # ps.stopCh

(* Closing a channel keeps the types and stops no other listener.          *)
LEMMA CloseStopChFacts ==
  ASSUME TypeOK, NEW ps \in profileState \union {None}
  PROVE  /\ CloseStopCh(listeners, ps) \in [ListenerIds -> Listener]
         /\ \A l \in ListenerIds : Spared(ps, l) => CloseStopCh(listeners, ps)[l] = listeners[l]
<1>1. ASSUME NEW lis \in Listener PROVE Stop1(lis) \in Listener
  <2>1. <<>> \in Seq(Event)
    OBVIOUS
  <2>2. [lis EXCEPT !.running = FALSE] \in Listener
    BY Zenon DEF Listener
  <2>3. QED
    BY <2>1, <2>2, Zenon DEF Stop1, Listener
<1>2. QED
  <2>1. CASE ps = None \/ ps.stopCh = None
    BY <2>1, Zenon DEF TypeOK, CloseStopCh, Spared
  <2>2. CASE ps # None /\ ps.stopCh # None
    <3>1. ps.stopCh \in ListenerIds
      BY <2>2, Zenon DEF profileState
    <3>2. CloseStopCh(listeners, ps) = [listeners EXCEPT ![ps.stopCh] = Stop1(listeners[ps.stopCh])]
      BY <2>2, Zenon DEF CloseStopCh
    <3>3. Stop1(listeners[ps.stopCh]) \in Listener
      BY <1>1, <3>1, Zenon DEF TypeOK
    <3>4. listeners \in [ListenerIds -> Listener]
      BY Zenon DEF TypeOK
    <3>5. QED
      BY <2>2, <3>1, <3>2, <3>3, <3>4, Zenon DEF Spared
  <2>3. QED
    BY <2>1, <2>2, Zenon

(* A step that leaves the profiles alone and stops no running listener     *)
(* keeps every channel live and owned once and every watched GVR live.     *)
LEMMA EngineKept ==
  ASSUME TypeOK, Engine, UNCHANGED <<profiles, watchedGVRs, stopped>>,
         \A l \in ListenerIds : KeepsRunning(l)
  PROVE  Engine'
<1>1. ChannelsLive' /\ ChannelsApart'
  BY DEF TypeOK, Engine, ChannelsLive, ChannelsApart, HasChannel, profileState, KeepsRunning
<1>2. ProfilesNamed'
  BY Zenon DEF Engine, ProfilesNamed
<1>3. WatchedIsLive'
  BY DEF Engine, WatchedIsLive, Running, KeepsRunning
<1>4. QED
  BY <1>1, <1>2, <1>3, Zenon DEF Engine

(* With every channel live nothing closes a channel twice.                 *)
LEMMA ClosesOnce ==
  ASSUME ChannelsLive, NEW p \in ProfileNames
  PROVE  ~ClosesTwice(profiles[p]) /\ ~ClosesTwice(None)
BY Zenon DEF ChannelsLive, HasChannel, ClosesTwice

(* An event reaches the queues of running listeners only.                  *)
LEMMA NotifyFacts ==
  ASSUME TypeOK, NEW e \in Event, Notify(e)
  PROVE  /\ listeners' \in [ListenerIds -> Listener]
         /\ \A l \in ListenerIds : KeepsRunning(l)
<1>1. ASSUME NEW l \in ListenerIds
      PROVE  /\ [listeners[l] EXCEPT !.queue = Append(@, e)] \in Listener
             /\ [listeners[l] EXCEPT !.queue = Append(@, e)].running = listeners[l].running
             /\ [listeners[l] EXCEPT !.queue = Append(@, e)].gvr = listeners[l].gvr
  <2>1. listeners[l] \in Listener
    BY Zenon DEF TypeOK
  <2>2. Append(listeners[l].queue, e) \in Seq(Event)
    BY <2>1 DEF Listener
  <2>3. QED
    BY <2>1, <2>2, Zenon DEF Listener
<1>2. listeners \in [ListenerIds -> Listener]
  BY Zenon DEF TypeOK
<1>3. QED
  BY <1>1, <1>2, Zenon DEF Notify, KeepsRunning

(* Closing the channel of a profile stops no informer of another GVR than  *)
(* the profile's.                                                          *)
LEMMA WatchedAfterClose ==
  ASSUME TypeOK, Engine, NEW p \in ProfileNames, NEW ps \in {profiles[p], None},
         NEW kept,
         \A l \in ListenerIds : Spared(ps, l) => kept[l] = listeners[l],
         NEW g \in watchedGVRs, Apart(g), ~stopped, ps = None \/ ps.gvr # g
  PROVE  \E l \in ListenerIds : Running(l) /\ kept[l].running /\ kept[l].gvr = g
<1>1. PICK l \in ListenerIds : Running(l) /\ listeners[l].gvr = g
  BY Zenon DEF Engine, WatchedIsLive
<1>2. Spared(ps, l)
  BY <1>1 DEF Engine, ChannelsLive, HasChannel, Spared
<1>3. QED
  BY <1>1, <1>2, Zenon DEF Running

LEMMA WriteObjectPreserves ==
  ASSUME IInv, NEW o \in Objects, NEW v \in Vals, WriteObject(o, v)
  PROVE  IInv'
<1> DEFINE e == [obj |-> o, deleted |-> FALSE, val |-> v]
<1>1. e \in Event /\ Notify(e)
  BY Zenon DEF WriteObject, Event
<1>2. /\ listeners' \in [ListenerIds -> Listener]
      /\ \A l \in ListenerIds : KeepsRunning(l)
  BY <1>1, NotifyFacts, Zenon DEF IInv
<1>3. TypeOK'
  BY <1>2, ConstantsAssumption DEF IInv, TypeOK, WriteObject
<1>4. Engine'
  BY <1>2, EngineKept, Zenon DEF IInv, WriteObject
<1>5. QED
  BY <1>3, <1>4, Zenon DEF IInv, NoDoubleClose, SpecsNamed, WriteObject

LEMMA DeleteObjectPreserves ==
  ASSUME IInv, NEW o \in Objects, DeleteObject(o)
  PROVE  IInv'
<1> DEFINE e == [obj |-> o, deleted |-> TRUE, val |-> objects[o]]
<1>1. e \in Event /\ Notify(e)
  BY Zenon DEF DeleteObject, Event, IInv, TypeOK
<1>2. /\ listeners' \in [ListenerIds -> Listener]
      /\ \A l \in ListenerIds : KeepsRunning(l)
  BY <1>1, NotifyFacts, Zenon DEF IInv
<1>3. TypeOK'
  BY <1>2, ConstantsAssumption DEF IInv, TypeOK, DeleteObject
<1>4. Engine'
  BY <1>2, EngineKept, Zenon DEF IInv, DeleteObject
<1>5. QED
  BY <1>3, <1>4, Zenon DEF IInv, NoDoubleClose, SpecsNamed, DeleteObject

LEMMA WriteProfilePreserves ==
  ASSUME IInv, NEW p \in ProfileNames, NEW s \in ProfileSpecs[p] \union {None}, WriteProfile(p, s)
  PROVE  IInv'
<1>1. s \in ProfileSpec \union {None}
  BY ProfileSpecsAssumption, Zenon
<1>2. TypeOK'
  BY <1>1, ConstantsAssumption DEF IInv, TypeOK, WriteProfile
<1>3. Engine'
  BY EngineKept, Zenon DEF IInv, KeepsRunning, WriteProfile
<1>4. SpecsNamed'
  BY Zenon DEF IInv, TypeOK, SpecsNamed, WriteProfile
<1>5. QED
  BY <1>2, <1>3, <1>4, Zenon DEF IInv, NoDoubleClose, WriteProfile

LEMMA AnnotatePreserves ==
  ASSUME IInv, NEW g \in Annotatable, Annotate(g)
  PROVE  IInv'
<1>1. TypeOK'
  BY ConstantsAssumption DEF IInv, TypeOK, Annotate
<1>2. Engine'
  BY EngineKept, Zenon DEF IInv, KeepsRunning, Annotate
<1>3. QED
  BY <1>1, <1>2, Zenon DEF IInv, NoDoubleClose, SpecsNamed, Annotate

(* Disabling a profile closes the channel it holds and leaves it without.  *)
LEMMA RegisterDisabledPreserves ==
  ASSUME IInv, NEW p \in ProfileNames, ReconcileRegister(p), RegisterDisabled(p, desired[p])
  PROVE  IInv'
<1> DEFINE s == desired[p]
<1>1. s \in ProfileSpec
  BY Zenon DEF IInv, TypeOK, ReconcileRegister
<1>2. profiles[p] \in profileState \union {None}
  BY EngineTypes, Zenon
<1>3. /\ listeners' \in [ListenerIds -> Listener]
      /\ \A l \in ListenerIds : Spared(profiles[p], l) => listeners'[l] = listeners[l]
  BY <1>2, CloseStopChFacts, Zenon DEF IInv, RegisterDisabled
<1>4. profiles' = [profiles EXCEPT ![p] =
        [gvr |-> s.gvr, adapter |-> s.adapter, enabled |-> FALSE, stopCh |-> None]]
  BY Zenon DEF RegisterDisabled
<1>5. [gvr |-> s.gvr, adapter |-> s.adapter, enabled |-> FALSE, stopCh |-> None] \in profileState
  BY <1>1, Zenon DEF ProfileSpec, profileState
<1>6. ~panicked'
  BY ClosesOnce, Zenon DEF IInv, Engine, NoDoubleClose, RegisterDisabled
<1>7. TypeOK'
  BY <1>3, <1>4, <1>5, <1>6, Zenon DEF IInv, TypeOK, ReconcileRegister, RegisterDisabled
<1>8. \A q \in ProfileNames : HasChannel(q)' => q # p /\ HasChannel(q) /\ profiles'[q] = profiles[q]
  BY <1>4, EngineTypes, Zenon DEF HasChannel
<1>9. ChannelsApart'
  BY <1>8, Zenon DEF IInv, Engine, ChannelsApart
<1>10. ChannelsLive'
  <2>1. ASSUME NEW q \in ProfileNames, HasChannel(q)'
        PROVE  /\ listeners'[profiles'[q].stopCh].running
               /\ listeners'[profiles'[q].stopCh].gvr = profiles'[q].gvr
    <3>1. profiles[q].stopCh \in ListenerIds
      BY <1>8, <2>1, EngineTypes, Zenon DEF HasChannel, profileState
    <3>2. Spared(profiles[p], profiles[q].stopCh)
      BY <1>8, <2>1, Zenon DEF IInv, Engine, ChannelsApart, HasChannel, Spared
    <3>3. QED
      BY <1>3, <1>8, <2>1, <3>1, <3>2 DEF IInv, Engine, ChannelsLive
  <2>2. QED
    BY <2>1, Zenon DEF ChannelsLive
<1>11. s \in ProfileSpecs[p]
  BY Zenon DEF IInv, SpecsNamed, ReconcileRegister
<1>12. ProfilesNamed'
  BY <1>4, <1>11, EngineTypes, Zenon DEF IInv, Engine, ProfilesNamed, NamedBy
<1>13. watchedGVRs' = watchedGVRs \ {s.gvr} /\ stopped' = stopped
  BY Zenon DEF RegisterDisabled, ReconcileRegister
<1>14. WatchedIsLive'
  <2>1. ASSUME NEW g \in watchedGVRs', Apart(g), ~stopped
        PROVE  profiles[p] = None \/ profiles[p].gvr # g
    <3>1. s.gvr \in NamedBy(p) /\ s.gvr # g
      BY <1>11, <1>13, Zenon DEF NamedBy
    <3>2. QED
      BY <2>1, <3>1 DEF IInv, Engine, ProfilesNamed, Apart
  <2>2. ASSUME NEW g \in watchedGVRs', Apart(g), ~stopped
        PROVE  \E l \in ListenerIds : listeners'[l].running /\ listeners'[l].gvr = g
    BY <1>3, <1>13, <2>1, <2>2, WatchedAfterClose DEF IInv
  <2>3. QED
    BY <1>13, <2>2, Zenon DEF WatchedIsLive, Running
<1>15. SpecsNamed'
  BY Zenon DEF IInv, SpecsNamed, ReconcileRegister
<1>16. QED
  BY <1>6, <1>7, <1>9, <1>10, <1>12, <1>14, <1>15, Zenon DEF IInv, Engine, NoDoubleClose

(* A slot that is free belongs to no profile.                              *)
LEMMA FreeIsUnowned ==
  ASSUME ChannelsLive, NEW p \in ProfileNames, HasChannel(p)
  PROVE  profiles[p].stopCh \notin Free
BY Zenon DEF ChannelsLive, Free

(* Enabling a profile closes the channel of its old GVR, if that changed,  *)
(* and gives it the channel of the informer it starts, which no other      *)
(* profile can hold.                                                       *)
LEMMA RegisterEnabledPreserves ==
  ASSUME IInv, NEW p \in ProfileNames, ReconcileRegister(p), RegisterEnabled(p, desired[p])
  PROVE  IInv'
<1> DEFINE s == desired[p]
           old == IF MustStopOld(p, s) THEN profiles[p] ELSE None
           kept == CloseStopCh(listeners, old)
           unwatched == s.gvr \notin watchedGVRs
           channel == IF unwatched THEN FreeSlot ELSE None
           new == [gvr |-> s.gvr, adapter |-> s.adapter, enabled |-> TRUE, stopCh |-> channel]
<1>1. s \in ProfileSpec
  BY Zenon DEF IInv, TypeOK, ReconcileRegister
<1>2. s.gvr \in GVRs /\ s.adapter \in {"generic", "rules"}
  BY <1>1, Zenon DEF ProfileSpec
<1>3. old \in profileState \union {None} /\ (old = profiles[p] \/ old = None)
  BY EngineTypes, Zenon
<1>4. /\ kept \in [ListenerIds -> Listener]
      /\ \A l \in ListenerIds : Spared(old, l) => kept[l] = listeners[l]
  BY <1>3, CloseStopChFacts, Zenon DEF IInv
<1>5. /\ unwatched => Free # {}
      /\ panicked' = (panicked \/ ClosesTwice(old))
      /\ listeners' = IF unwatched THEN [kept EXCEPT ![FreeSlot] = NewListener(s.gvr, TRUE)] ELSE kept
      /\ profiles' = [profiles EXCEPT ![p] = new]
      /\ watchedGVRs' = watchedGVRs \union {s.gvr}
  BY Zenon DEF RegisterEnabled
<1> HIDE DEF old, kept
<1>6. unwatched => FreeSlot \in Free /\ FreeSlot \in ListenerIds
  BY <1>5, Zenon DEF FreeSlot, Free
<1>7. /\ NewListener(s.gvr, TRUE) \in Listener
      /\ NewListener(s.gvr, TRUE).running /\ NewListener(s.gvr, TRUE).gvr = s.gvr
  BY <1>2, NewListenerType, Zenon DEF IInv, NewListener
<1>8. listeners' \in [ListenerIds -> Listener]
  BY <1>4, <1>5, <1>6, <1>7, Zenon
<1>9. new \in profileState
  BY <1>2, <1>6, Zenon DEF profileState
<1> HIDE DEF s, unwatched
<1>10. ~panicked'
  BY <1>3, <1>5, ClosesOnce, Zenon DEF IInv, Engine, NoDoubleClose
<1>11. TypeOK'
  <2> HIDE DEF new
  <2>1. QED
    BY <1>2, <1>5, <1>8, <1>9, <1>10, Zenon DEF IInv, TypeOK, ReconcileRegister
<1>12. \A q \in ProfileNames : q # p => profiles'[q] = profiles[q]
  BY <1>5, EngineTypes, Zenon
<1>13. profiles'[p] = new /\ profiles'[p].stopCh = channel /\ profiles'[p].gvr = s.gvr
  BY <1>5, EngineTypes, Zenon
<1> HIDE DEF new
<1>14. \A q \in ProfileNames : q # p /\ HasChannel(q) => profiles[q].stopCh \notin Free
  BY FreeIsUnowned, Zenon DEF IInv, Engine
<1>15. ChannelsApart'
  <2>1. HasChannel(p)' => profiles'[p].stopCh \in Free
    BY <1>6, <1>13, Zenon DEF HasChannel
  <2>2. QED
    BY <1>12, <1>14, <2>1 DEF IInv, Engine, ChannelsApart, HasChannel
<1>16. ChannelsLive'
  <2>1. ASSUME NEW q \in ProfileNames, HasChannel(q)', q # p
        PROVE  /\ listeners'[profiles'[q].stopCh].running
               /\ listeners'[profiles'[q].stopCh].gvr = profiles'[q].gvr
    <3>1. HasChannel(q) /\ profiles'[q] = profiles[q]
      BY <1>12, <2>1, Zenon DEF HasChannel
    <3>2. profiles[q].stopCh \in ListenerIds
      BY <3>1, EngineTypes, Zenon DEF HasChannel, profileState
    <3>3. Spared(old, profiles[q].stopCh)
      BY <1>3, <2>1, <3>1, Zenon DEF IInv, Engine, ChannelsApart, HasChannel, Spared
    <3>4. kept[profiles[q].stopCh].running /\ kept[profiles[q].stopCh].gvr = profiles[q].gvr
      BY <1>4, <3>1, <3>2, <3>3, Zenon DEF IInv, Engine, ChannelsLive
    <3>5. unwatched => FreeSlot # profiles[q].stopCh
      BY <1>6, <1>14, <2>1, <3>1, Zenon
    <3>6. QED
      BY <1>4, <1>5, <3>1, <3>2, <3>4, <3>5, Zenon
  <2>2. HasChannel(p)' => /\ listeners'[profiles'[p].stopCh].running
                          /\ listeners'[profiles'[p].stopCh].gvr = profiles'[p].gvr
    <3>1. CASE unwatched
      <4>1. listeners' = [kept EXCEPT ![FreeSlot] = NewListener(s.gvr, TRUE)]
        BY <1>5, <3>1, Zenon
      <4>2. listeners'[FreeSlot] = NewListener(s.gvr, TRUE)
        BY <1>4, <1>6, <3>1, <4>1, Zenon
      <4>3. profiles'[p].stopCh = FreeSlot
        BY <1>13, <3>1, Zenon
      <4>4. QED
        BY <1>7, <1>13, <4>2, <4>3, Zenon
    <3>2. CASE ~unwatched
      BY <1>13, <3>2, Zenon DEF HasChannel
    <3>3. QED
      BY <3>1, <3>2, Zenon
  <2>3. QED
    BY <2>1, <2>2, Zenon DEF ChannelsLive
<1>17. s.enabled /\ ~stopped
  BY Zenon DEF RegisterEnabled, ReconcileRegister, s
<1>18. s \in ProfileSpecs[p] /\ s.gvr \in NamedBy(p)
  BY Zenon DEF IInv, SpecsNamed, ReconcileRegister, NamedBy, s
<1>19. ProfilesNamed'
  BY <1>12, <1>13, <1>18, Zenon DEF IInv, Engine, ProfilesNamed
<1>20. ASSUME NEW g \in watchedGVRs', Apart(g)
       PROVE  \E l \in ListenerIds : listeners'[l].running /\ listeners'[l].gvr = g
  <2>1. CASE g \in watchedGVRs
    <3>1. old = None \/ old.gvr # g
      <4>1. old # None => old = profiles[p] /\ old.gvr # s.gvr
        BY <1>17, Zenon DEF old, MustStopOld
      <4>2. old # None => old.gvr \in NamedBy(p)
        BY <1>3, Zenon DEF IInv, Engine, ProfilesNamed
      <4>3. QED
        BY <1>18, <1>20, <4>1, <4>2, Zenon DEF Apart
    <3>2. PICK l \in ListenerIds : Running(l) /\ kept[l].running /\ kept[l].gvr = g
      BY <1>3, <1>4, <1>17, <1>20, <2>1, <3>1, WatchedAfterClose DEF IInv
    <3>3. unwatched => l # FreeSlot
      BY <1>6, <3>2, Zenon DEF Free, Running
    <3>4. QED
      BY <1>4, <1>5, <3>2, <3>3, Zenon
  <2>2. CASE g \notin watchedGVRs
    <3>1. g = s.gvr /\ unwatched
      BY <1>5, <1>20, <2>2, Zenon DEF unwatched
    <3>2. listeners' = [kept EXCEPT ![FreeSlot] = NewListener(s.gvr, TRUE)]
      BY <1>5, <3>1, Zenon
    <3>3. listeners'[FreeSlot] = NewListener(s.gvr, TRUE)
      BY <1>4, <1>6, <3>1, <3>2, Zenon
    <3>4. QED
      BY <1>6, <1>7, <3>1, <3>3, Zenon
  <2>3. QED
    BY <2>1, <2>2, Zenon
<1>21. WatchedIsLive'
  BY <1>20, Zenon DEF WatchedIsLive, Running
<1>22. SpecsNamed'
  BY Zenon DEF IInv, SpecsNamed, ReconcileRegister
<1>23. QED
  BY <1>10, <1>11, <1>15, <1>16, <1>19, <1>21, <1>22, Zenon DEF IInv, Engine, NoDoubleClose

(* Unregistering a profile closes the channel it holds and forgets it.     *)
LEMMA UnregisterPreserves ==
  ASSUME IInv, NEW p \in ProfileNames, ReconcileUnregister(p)
  PROVE  IInv'
<1>1. CASE profiles[p] = None
  <2>1. TypeOK'
    BY <1>1, Zenon DEF IInv, TypeOK, ReconcileUnregister
  <2>2. Engine'
    BY <1>1, EngineKept, Zenon DEF IInv, KeepsRunning, ReconcileUnregister
  <2>3. QED
    BY <1>1, <2>1, <2>2, Zenon DEF IInv, NoDoubleClose, SpecsNamed, ReconcileUnregister
<1>2. CASE profiles[p] # None
  <2>1. profiles[p] \in profileState
    BY <1>2, EngineTypes, Zenon
  <2>2. /\ listeners' \in [ListenerIds -> Listener]
        /\ \A l \in ListenerIds : Spared(profiles[p], l) => listeners'[l] = listeners[l]
    BY <1>2, <2>1, CloseStopChFacts DEF IInv, ReconcileUnregister
  <2>3. profiles' = [profiles EXCEPT ![p] = None]
    BY <1>2, Zenon DEF ReconcileUnregister
  <2>4. ~panicked'
    BY <1>2, ClosesOnce, Zenon DEF IInv, Engine, NoDoubleClose, ReconcileUnregister
  <2>5. watchedGVRs' \subseteq GVRs /\ cleanup' \in GVRs \union {None}
    BY <1>2, <2>1, Zenon DEF IInv, TypeOK, ReconcileUnregister, profileState
  <2>6. TypeOK'
    BY <2>2, <2>3, <2>4, <2>5, Zenon DEF IInv, TypeOK, ReconcileUnregister
  <2>7. \A q \in ProfileNames : HasChannel(q)' => q # p /\ HasChannel(q) /\ profiles'[q] = profiles[q]
    BY <2>3, EngineTypes, Zenon DEF HasChannel
  <2>8. ChannelsApart'
    BY <2>7, Zenon DEF IInv, Engine, ChannelsApart
  <2>9. ChannelsLive'
    <3>1. ASSUME NEW q \in ProfileNames, HasChannel(q)'
          PROVE  /\ listeners'[profiles'[q].stopCh].running
                 /\ listeners'[profiles'[q].stopCh].gvr = profiles'[q].gvr
      <4>1. profiles[q].stopCh \in ListenerIds
        BY <2>7, <3>1, EngineTypes, Zenon DEF HasChannel, profileState
      <4>2. Spared(profiles[p], profiles[q].stopCh)
        BY <1>2, <2>7, <3>1, Zenon DEF IInv, Engine, ChannelsApart, HasChannel, Spared
      <4>3. QED
        BY <2>2, <2>7, <3>1, <4>1, <4>2 DEF IInv, Engine, ChannelsLive
    <3>2. QED
      BY <3>1, Zenon DEF ChannelsLive
  <2>10. ProfilesNamed'
    BY <2>3, EngineTypes, Zenon DEF IInv, Engine, ProfilesNamed
  <2>11. ASSUME NEW g \in watchedGVRs', Apart(g)
         PROVE  \E l \in ListenerIds : listeners'[l].running /\ listeners'[l].gvr = g
    <3>1. g \in watchedGVRs /\ ~stopped
      BY <1>2, <2>11, Zenon DEF ReconcileUnregister
    <3>2. profiles[p].gvr # g
      <4>1. SUFFICES ASSUME profiles[p].gvr = g PROVE FALSE
        BY Zenon
      <4>2. NeededByOther(p, g)
        BY <1>2, <2>11, <4>1, Zenon DEF ReconcileUnregister
      <4>3. PICK q \in ProfileNames : q # p /\ profiles[q] # None /\ profiles[q].gvr = g
        BY <4>2, Zenon DEF NeededByOther, EnabledOn
      <4>4. QED
        BY <1>2, <2>11, <4>1, <4>3, Zenon DEF IInv, Engine, ProfilesNamed, Apart
    <3>3. QED
      BY <2>2, <2>11, <3>1, <3>2, WatchedAfterClose DEF IInv
  <2>12. WatchedIsLive'
    BY <2>11, Zenon DEF WatchedIsLive, Running
  <2>13. SpecsNamed'
    BY Zenon DEF IInv, SpecsNamed, ReconcileUnregister
  <2>14. QED
    BY <2>4, <2>6, <2>8, <2>9, <2>10, <2>12, <2>13, Zenon DEF IInv, Engine, NoDoubleClose
<1>3. QED
  BY <1>1, <1>2, Zenon

LEMMA DeleteAllType ==
  ASSUME TypeOK, NEW uids
  PROVE  DeleteAll(byUID, uids) \in [UIDs -> Constraint \union {NoConstraint}]
BY Zenon DEF TypeOK, DeleteAll

LEMMA UpsertAllType ==
  ASSUME TypeOK, NEW cs \in SUBSET Constraint
  PROVE  UpsertAll(byUID, cs) \in [UIDs -> Constraint \union {NoConstraint}]
<1>1. ASSUME NEW u \in UIDs
      PROVE  (IF \E c \in cs : c.uid = u THEN CHOOSE c \in cs : c.uid = u ELSE byUID[u])
                \in Constraint \union {NoConstraint}
  <2>1. CASE \E c \in cs : c.uid = u
    BY <2>1, Zenon
  <2>2. CASE ~\E c \in cs : c.uid = u
    BY <2>2, Zenon DEF TypeOK
  <2>3. QED
    BY <2>1, <2>2, Zenon
<1>2. DOMAIN byUID = UIDs
  BY Zenon DEF TypeOK
<1>3. QED
  BY <1>1, <1>2, Zenon DEF UpsertAll

LEMMA CleanupPreserves ==
  ASSUME IInv, UnregisterCleanup
  PROVE  IInv'
<1>1. byUID' \in [UIDs -> Constraint \union {NoConstraint}]
  BY DeleteAllType, Zenon DEF IInv, UnregisterCleanup, DeleteBySource
<1>2. TypeOK'
  BY <1>1, Zenon DEF IInv, TypeOK, UnregisterCleanup
<1>3. Engine'
  BY EngineKept, Zenon DEF IInv, KeepsRunning, UnregisterCleanup
<1>4. QED
  BY <1>2, <1>3, Zenon DEF IInv, NoDoubleClose, SpecsNamed, UnregisterCleanup

LEMMA ScanDiscoverPreserves ==
  ASSUME IInv, NEW offered \in SUBSET GVRs, NEW crdsListed \in BOOLEAN,
         ScanDiscover(offered, crdsListed)
  PROVE  IInv'
<1>1. TypeOK'
  BY Zenon DEF IInv, TypeOK, ScanDiscover, refreshAnnotatedCRDs
<1>2. Engine'
  BY EngineKept, Zenon DEF IInv, KeepsRunning, ScanDiscover, refreshAnnotatedCRDs
<1>3. QED
  BY <1>1, <1>2, Zenon DEF IInv, NoDoubleClose, SpecsNamed, ScanDiscover, refreshAnnotatedCRDs

(* A scan starts its informers in free slots.                              *)
LEMMA ScanStartPreserves ==
  ASSUME IInv, ScanStart
  PROVE  IInv'
<1> DEFINE new == (discovered \ Suppressed) \ watchedGVRs
           slot == CHOOSE f \in Injection(new, Free) : TRUE
           started(l) == NewListener(CHOOSE g \in new : slot[g] = l, FALSE)
<1>1. new \subseteq GVRs
  <2>1. discovered # None /\ discovered \in (SUBSET GVRs) \union {None}
    BY Zenon DEF IInv, TypeOK, ScanStart
  <2>2. QED
    BY <2>1, Zenon
<1>2. /\ Injection(new, Free) # {}
      /\ listeners' = [l \in ListenerIds |->
           IF \E g \in new : slot[g] = l THEN started(l) ELSE listeners[l]]
      /\ watchedGVRs' = watchedGVRs \union new
  BY Zenon DEF ScanStart
<1>3. slot \in [new -> Free]
  <2>1. slot \in Injection(new, Free)
    BY <1>2, Zenon
  <2>2. QED
    BY <2>1, Zenon DEF Injection
<1>4. ASSUME NEW l \in ListenerIds, \E g \in new : slot[g] = l
      PROVE  started(l) \in Listener
  <2>1. (CHOOSE g \in new : slot[g] = l) \in GVRs
    BY <1>1, <1>4, Zenon
  <2>2. QED
    BY <2>1, NewListenerType, Zenon DEF IInv
<1>5. listeners' \in [ListenerIds -> Listener]
  <2>1. \A l \in ListenerIds : listeners[l] \in Listener
    BY EngineTypes, Zenon
  <2>2. \A l \in ListenerIds :
          (IF \E g \in new : slot[g] = l THEN started(l) ELSE listeners[l]) \in Listener
    BY <1>4, <2>1, Zenon
  <2> HIDE DEF started, slot, new
  <2>3. QED
    BY <1>2, <2>2, Zenon
<1>6. \A l \in ListenerIds : KeepsRunning(l)
  <2>1. ASSUME NEW l \in ListenerIds, listeners[l].running
        PROVE  ~\E g \in new : slot[g] = l
    BY <1>3, <2>1, Zenon DEF Free
  <2>2. QED
    BY <1>2, <2>1, Zenon DEF KeepsRunning
<1>7. TypeOK'
  <2>1. watchedGVRs' \subseteq GVRs
    BY <1>1, <1>2, Zenon DEF IInv, TypeOK
  <2> HIDE DEF new
  <2>2. QED
    BY <1>5, <2>1, Zenon DEF IInv, TypeOK, ScanStart
<1>8. ASSUME NEW g \in new, ~stopped
      PROVE  \E l \in ListenerIds : listeners'[l].running /\ listeners'[l].gvr = g
  <2>1. slot[g] \in ListenerIds
    BY <1>3, Zenon DEF Free
  <2>2. (CHOOSE h \in new : slot[h] = slot[g]) = g
    BY <1>3
  <2>3. listeners'[slot[g]] = NewListener(g, FALSE)
    <3> HIDE DEF slot, new
    <3>1. QED
      BY <1>2, <1>8, <2>1, <2>2, Zenon
  <2>4. NewListener(g, FALSE).running /\ NewListener(g, FALSE).gvr = g
    BY <1>8, Zenon DEF NewListener
  <2>5. QED
    BY <2>1, <2>3, <2>4, Zenon
<1>9. WatchedIsLive'
  <2>1. stopped' = stopped
    BY Zenon DEF ScanStart
  <2> HIDE DEF new
  <2>2. ASSUME NEW g \in watchedGVRs', ~stopped, Apart(g)
        PROVE  \E l \in ListenerIds : listeners'[l].running /\ listeners'[l].gvr = g
    <3>1. CASE g \in new
      BY <1>8, <2>2, <3>1, Zenon
    <3>2. CASE g \in watchedGVRs
      <4>1. PICK l \in ListenerIds : listeners[l].running /\ listeners[l].gvr = g
        BY <2>2, <3>2, Zenon DEF IInv, Engine, WatchedIsLive, Running
      <4>2. QED
        BY <1>6, <4>1, Zenon DEF KeepsRunning
    <3>3. QED
      BY <1>2, <2>2, <3>1, <3>2, Zenon
  <2>3. QED
    BY <2>1, <2>2, Zenon DEF WatchedIsLive, Running
<1>10. ChannelsLive' /\ ChannelsApart' /\ ProfilesNamed'
  <2>1. profiles' = profiles
    BY Zenon DEF ScanStart
  <2>2. ProfilesNamed'
    BY <2>1, Zenon DEF IInv, Engine, ProfilesNamed
  <2>3. QED
    BY <1>6, <2>1, <2>2, Zenon DEF IInv, TypeOK, Engine, ChannelsLive, ChannelsApart, HasChannel,
       profileState, KeepsRunning
<1>11. QED
  BY <1>7, <1>9, <1>10, Zenon DEF IInv, Engine, NoDoubleClose, SpecsNamed, ScanStart

(* What an adapter makes of an object are constraints.                     *)
LEMMA ParseType ==
  ASSUME NEW a, NEW o \in Objects, NEW v \in Vals
  PROVE  Parse(a, o, v) \in SUBSET Constraint
<1>1. 1..v \subseteq 0..MaxVal /\ 0 \in 0..MaxVal
  BY ConstantsAssumption DEF Vals
<1>2. RuleSource \in GVRs /\ gvrOf[o] \in GVRs
  BY ConstantsAssumption, Zenon
<1>3. QED
  BY <1>1, <1>2 DEF Parse, Constraint, UIDs

LEMMA TakesPreserves ==
  ASSUME IInv, NEW l \in ListenerIds, HandlerTakes(l)
  PROVE  IInv'
<1> DEFINE e == Head(listeners[l].queue)
           hand == IF e.deleted \/ listeners[l].gvr \in watchedGVRs THEN e ELSE None
<1>1. listeners[l] \in Listener /\ listeners \in [ListenerIds -> Listener]
  BY EngineTypes, Zenon
<1>2. listeners[l].queue \in Seq(Event) /\ listeners[l].queue # <<>>
  BY <1>1, Zenon DEF Listener, HandlerTakes
<1>3. e \in Event /\ Tail(listeners[l].queue) \in Seq(Event)
  BY <1>2
<1>4. listeners' = [listeners EXCEPT ![l].queue = Tail(@), ![l].hand = hand]
  BY Zenon DEF HandlerTakes
<1> DEFINE rest == [listeners[l] EXCEPT !.queue = Tail(listeners[l].queue)]
           taken == [rest EXCEPT !.hand = hand]
<1>5. rest \in Listener
  BY <1>1, <1>3, Zenon DEF Listener
<1>6. taken \in Listener /\ taken.running = listeners[l].running /\ taken.gvr = listeners[l].gvr
  <2>1. hand \in Event \union Parsed \union {None}
    BY <1>3, Zenon
  <2> HIDE DEF hand
  <2>2. rest.running = listeners[l].running /\ rest.gvr = listeners[l].gvr
    BY <1>1, Zenon DEF Listener
  <2> HIDE DEF rest
  <2>3. QED
    BY <1>5, <2>1, <2>2, Zenon DEF Listener
<1>7. listeners' = [listeners EXCEPT ![l] = taken]
  <2> HIDE DEF hand
  <2>1. QED
    BY <1>1, <1>4, Zenon DEF Listener
<1> HIDE DEF taken
<1>8. /\ listeners' \in [ListenerIds -> Listener]
      /\ \A m \in ListenerIds : KeepsRunning(m)
  BY <1>1, <1>6, <1>7, Zenon DEF KeepsRunning
<1>9. TypeOK'
  BY <1>8, Zenon DEF IInv, TypeOK, HandlerTakes
<1>10. Engine'
  BY <1>8, EngineKept, Zenon DEF IInv, HandlerTakes
<1>11. QED
  BY <1>9, <1>10, Zenon DEF IInv, NoDoubleClose, SpecsNamed, HandlerTakes

(* Putting something else into a handler's hand stops nothing.             *)
LEMMA HandFacts ==
  ASSUME TypeOK, NEW l \in ListenerIds, NEW h \in Event \union Parsed \union {None},
         listeners' = [listeners EXCEPT ![l].hand = h]
  PROVE  /\ listeners' \in [ListenerIds -> Listener]
         /\ \A m \in ListenerIds : KeepsRunning(m)
<1>1. listeners[l] \in Listener /\ listeners \in [ListenerIds -> Listener]
  BY Zenon DEF TypeOK
<1>2. [listeners[l] EXCEPT !.hand = h] \in Listener
  BY <1>1, Zenon DEF Listener
<1>3. /\ [listeners[l] EXCEPT !.hand = h].running = listeners[l].running
      /\ [listeners[l] EXCEPT !.hand = h].gvr = listeners[l].gvr
  BY <1>1, Zenon DEF Listener
<1>4. QED
  BY <1>1, <1>2, <1>3, Zenon DEF KeepsRunning

LEMMA ParsesPreserves ==
  ASSUME IInv, NEW l \in ListenerIds, HandlerParses(l)
  PROVE  IInv'
<1> DEFINE h == listeners[l].hand
<1>1. h \in Event
  BY Zenon DEF HandlerParses
<1>2. PICK a \in Adapters(listeners[l].gvr) :
        listeners' = [listeners EXCEPT ![l].hand =
          [obj |-> @.obj, deleted |-> @.deleted, cs |-> Parse(a, @.obj, @.val)]]
  BY Zenon DEF HandlerParses
<1> DEFINE parsed == [obj |-> h.obj, deleted |-> h.deleted, cs |-> Parse(a, h.obj, h.val)]
<1>3. h.obj \in Objects /\ h.deleted \in BOOLEAN /\ h.val \in Vals
  BY <1>1, Zenon DEF Event
<1>4. Parse(a, h.obj, h.val) \in SUBSET Constraint
  BY <1>3, ParseType, Zenon
<1>5. parsed \in Parsed
  BY <1>3, <1>4, Zenon DEF Parsed
<1>6. listeners' = [listeners EXCEPT ![l].hand = parsed]
  BY <1>2, Zenon
<1> HIDE DEF parsed
<1>7. /\ listeners' \in [ListenerIds -> Listener]
      /\ \A m \in ListenerIds : KeepsRunning(m)
  BY <1>5, <1>6, HandFacts, Zenon DEF IInv
<1>8. TypeOK'
  BY <1>7, Zenon DEF IInv, TypeOK, HandlerParses
<1>9. Engine'
  BY <1>7, EngineKept, Zenon DEF IInv, HandlerParses
<1>10. QED
  BY <1>8, <1>9, Zenon DEF IInv, NoDoubleClose, SpecsNamed, HandlerParses

LEMMA UpsertsPreserves ==
  ASSUME IInv, NEW l \in ListenerIds, HandlerUpserts(l)
  PROVE  IInv'
<1>1. listeners[l].hand.cs \in SUBSET Constraint
  BY Zenon DEF HandlerUpserts, HasParsed, Parsed
<1>2. byUID' \in [UIDs -> Constraint \union {NoConstraint}]
  BY <1>1, UpsertAllType, Zenon DEF IInv, HandlerUpserts
<1>3. /\ listeners' \in [ListenerIds -> Listener]
      /\ \A m \in ListenerIds : KeepsRunning(m)
  BY HandFacts, Zenon DEF IInv, HandlerUpserts
<1>4. TypeOK'
  BY <1>2, <1>3, Zenon DEF IInv, TypeOK, HandlerUpserts
<1>5. Engine'
  BY <1>3, EngineKept, Zenon DEF IInv, HandlerUpserts
<1>6. QED
  BY <1>4, <1>5, Zenon DEF IInv, NoDoubleClose, SpecsNamed, HandlerUpserts

LEMMA DeletesPreserves ==
  ASSUME IInv, NEW l \in ListenerIds, HandlerDeletes(l)
  PROVE  IInv'
<1>1. byUID' \in [UIDs -> Constraint \union {NoConstraint}]
  <2>1. Delete(byUID, <<listeners[l].hand.obj, 0>>) \in [UIDs -> Constraint \union {NoConstraint}]
    BY Zenon DEF Delete, IInv, TypeOK
  <2>2. QED
    BY <2>1, DeleteAllType, Zenon DEF IInv, HandlerDeletes
<1>2. /\ listeners' \in [ListenerIds -> Listener]
      /\ \A m \in ListenerIds : KeepsRunning(m)
  BY HandFacts, Zenon DEF IInv, HandlerDeletes
<1>3. TypeOK'
  BY <1>1, <1>2, Zenon DEF IInv, TypeOK, HandlerDeletes
<1>4. Engine'
  BY <1>2, EngineKept, Zenon DEF IInv, HandlerDeletes
<1>5. QED
  BY <1>3, <1>4, Zenon DEF IInv, NoDoubleClose, SpecsNamed, HandlerDeletes

LEMMA ResyncPreserves ==
  ASSUME IInv, NEW l \in ListenerIds, Resync(l)
  PROVE  IInv'
<1> DEFINE q == Existing(listeners[l].gvr)
<1>1. q \in Seq(Event)
  BY ExistingType, Zenon DEF IInv
<1>2. listeners' = [listeners EXCEPT ![l].queue = q]
  BY Zenon DEF Resync
<1> HIDE DEF q
<1>3. listeners[l] \in Listener /\ listeners \in [ListenerIds -> Listener]
  BY EngineTypes, Zenon
<1>4. [listeners[l] EXCEPT !.queue = q] \in Listener
  BY <1>1, <1>3, Zenon DEF Listener
<1>5. /\ [listeners[l] EXCEPT !.queue = q].running = listeners[l].running
      /\ [listeners[l] EXCEPT !.queue = q].gvr = listeners[l].gvr
  BY <1>3, Zenon DEF Listener
<1>6. /\ listeners' \in [ListenerIds -> Listener]
      /\ \A m \in ListenerIds : KeepsRunning(m)
  BY <1>2, <1>3, <1>4, <1>5, Zenon DEF KeepsRunning
<1>7. TypeOK'
  BY <1>6, Zenon DEF IInv, TypeOK, Resync
<1>8. Engine'
  BY <1>6, EngineKept, Zenon DEF IInv, Resync
<1>9. QED
  BY <1>7, <1>8, Zenon DEF IInv, NoDoubleClose, SpecsNamed, Resync

(* Stop closes every channel once and leaves no profile with a channel.    *)
LEMMA StopPreserves ==
  ASSUME IInv, Stop
  PROVE  IInv'
<1>1. \A lis \in Listener : Stop1(lis) \in Listener
  <2>1. ASSUME NEW lis \in Listener PROVE Stop1(lis) \in Listener
    <3>1. <<>> \in Seq(Event)
      OBVIOUS
    <3>2. [lis EXCEPT !.running = FALSE] \in Listener
      BY Zenon DEF Listener
    <3>3. QED
      BY <3>1, <3>2, Zenon DEF Stop1, Listener
  <2>2. QED
    BY <2>1, Zenon
<1>2. listeners' \in [ListenerIds -> Listener]
  <2>1. \A l \in ListenerIds : listeners[l] \in Listener
    BY EngineTypes, Zenon
  <2>2. QED
    BY <1>1, <2>1, Zenon DEF Stop
<1>3. ~panicked'
  BY ClosesOnce, Zenon DEF IInv, Engine, NoDoubleClose, Stop
<1>4. \A p \in ProfileNames : profiles'[p] =
        IF profiles[p] = None THEN None ELSE [profiles[p] EXCEPT !.stopCh = None]
  BY Zenon DEF Stop
<1>5. ASSUME NEW p \in ProfileNames
      PROVE  profiles'[p] \in profileState \union {None} /\ ~HasChannel(p)'
  <2>1. CASE profiles[p] = None
    BY <1>4, <2>1, Zenon DEF HasChannel
  <2>2. CASE profiles[p] # None
    <3>1. profiles[p] \in profileState
      BY <2>2, EngineTypes, Zenon
    <3>2. [profiles[p] EXCEPT !.stopCh = None] \in profileState
      BY <3>1, Zenon DEF profileState
    <3>3. [profiles[p] EXCEPT !.stopCh = None].stopCh = None
      BY <3>1, Zenon DEF profileState
    <3>4. QED
      BY <1>4, <2>2, <3>2, <3>3, Zenon DEF HasChannel
  <2>3. QED
    BY <2>1, <2>2, Zenon
<1>6. profiles' \in [ProfileNames -> profileState \union {None}]
  BY <1>5, Zenon DEF Stop
<1>7. TypeOK'
  BY <1>2, <1>3, <1>6, Zenon DEF IInv, TypeOK, Stop
<1>8. ChannelsLive' /\ ChannelsApart'
  BY <1>5, Zenon DEF ChannelsLive, ChannelsApart
<1>9. ProfilesNamed'
  <2>1. ASSUME NEW p \in ProfileNames, profiles'[p] # None
        PROVE  profiles[p] # None /\ profiles'[p].gvr = profiles[p].gvr
    BY <1>4, <2>1, EngineTypes, Zenon DEF profileState
  <2>2. QED
    BY <2>1, Zenon DEF IInv, Engine, ProfilesNamed
<1>10. WatchedIsLive' /\ SpecsNamed'
  BY Zenon DEF IInv, WatchedIsLive, SpecsNamed, Stop
<1>11. QED
  BY <1>3, <1>7, <1>8, <1>9, <1>10, Zenon DEF IInv, Engine, NoDoubleClose

LEMMA InitHolds ==
  Init => IInv
<1> SUFFICES ASSUME Init PROVE IInv
  BY Zenon
<1>1. NoListener \in Listener
  BY DEF NoListener, Listener
<1>2. 0 \in 0..MaxChanges
  BY ConstantsAssumption
<1>3. TypeOK
  BY <1>1, <1>2, Zenon DEF Init, TypeOK
<1>4. \A p \in ProfileNames : ~HasChannel(p)
  BY Zenon DEF Init, HasChannel
<1>5. QED
  BY <1>3, <1>4, Zenon DEF Init, IInv, Engine, NoDoubleClose, ChannelsLive, ChannelsApart, SpecsNamed,
     ProfilesNamed, WatchedIsLive

LEMMA NextPreserves ==
  IInv /\ [Next]_vars => IInv'
<1> SUFFICES ASSUME IInv, [Next]_vars PROVE IInv'
  BY Zenon
<1>1. CASE Environment
  BY <1>1, WriteObjectPreserves, DeleteObjectPreserves, WriteProfilePreserves,
     AnnotatePreserves, Zenon DEF Environment
<1>2. CASE Reconciler
  <2>1. ASSUME NEW p \in ProfileNames, ReconcileRegister(p) PROVE IInv'
    BY <2>1, RegisterDisabledPreserves, RegisterEnabledPreserves, Zenon DEF ReconcileRegister
  <2>2. QED
    BY <1>2, <2>1, UnregisterPreserves, CleanupPreserves, Zenon DEF Reconciler
<1>3. CASE Scan
  <2>1. (IF Annotatable = {} THEN {TRUE} ELSE BOOLEAN) \subseteq BOOLEAN
    BY Zenon
  <2>2. QED
    BY <1>3, <2>1, ScanDiscoverPreserves, ScanStartPreserves, Zenon DEF Scan
<1>4. ASSUME NEW l \in ListenerIds, Handler(l) \/ Resync(l) PROVE IInv'
  BY <1>4, TakesPreserves, ParsesPreserves, UpsertsPreserves, DeletesPreserves,
     ResyncPreserves, Zenon DEF Handler
<1>5. CASE Stop
  BY <1>5, StopPreserves, Zenon
<1>6. CASE UNCHANGED vars
  BY <1>6, EngineKept, Zenon DEF vars, IInv, TypeOK, NoDoubleClose, SpecsNamed, KeepsRunning
<1>7. QED
  BY <1>1, <1>2, <1>3, <1>4, <1>5, <1>6, Zenon DEF Next

LEMMA EngineInvariant ==
  Spec => []IInv
BY InitHolds, NextPreserves, PTL DEF Spec

(* The engine keeps its types, and no stop channel is ever closed twice:   *)
(* RegisterProfile, UnregisterProfile and Stop may come in any order.      *)
THEOREM ChannelsClosedOnce == Spec => [](TypeOK /\ NoDoubleClose)
<1>1. IInv => TypeOK /\ NoDoubleClose
  BY Zenon DEF IInv
<1>2. QED
  BY <1>1, EngineInvariant, PTL

(* Until Stop, every GVR that WatchedGVRs reports and that one profile at  *)
(* most can name has a running informer: no order of RegisterProfile,      *)
(* UnregisterProfile and scans leaves it marked as watched and not         *)
(* watched.                                                                *)
THEOREM InformersLive == Spec => []WatchedIsLive
<1>1. IInv => WatchedIsLive
  BY Zenon DEF IInv, Engine
<1>2. QED
  BY <1>1, EngineInvariant, PTL

-----------------------------------------------------------------------------
(* Certificates.                                                           *)

(* A replica is settled when the certificate in its memory is the one it   *)
(* serves and its last update of the CA bundle is over.                    *)
Settled(r) ==
  \/ At(r, "idle")
  \/ pc[r] \in {"get", "write", "assign"} /\ r \notin starting

(* The CA bundle is what a replica put or found there, until that replica  *)
(* goes for another certificate.                                           *)
Vouches(r) == memory[r].ca = caBundle.ca \/ ~Settled(r) \/ r \in unbundled

Vouched == Replicas = {} \/ \E r \in Replicas : Vouches(r)

(* What a replica has in hand was stored before it is assigned.            *)
HandsStored ==
  /\ secret # None => secret \in stored
  /\ \A r \in Replicas : At(r, "write") => fresh[r] # None
  /\ \A r \in Replicas : pc[r] \in {"assign", "assignKey"} => fresh[r] \in stored
  /\ \A r \in Replicas : memory[r].ca # None => memory[r].ca \in stored
  /\ caBundle.ca # None => caBundle.ca \in stored

(* The three fields of a certificate are assigned in two steps.            *)
Whole ==
  \A r \in Replicas :
    /\ At(r, "assignKey") => memory[r].cert = fresh[r]
    /\ pc[r] \notin {"down", "assignKey"} => memory[r].cert = memory[r].key

CertInv == CertTypeOK /\ HandsStored /\ Whole /\ Vouched

LEMMA StartServerPreserves ==
  ASSUME CertInv, NEW r \in Replicas, StartServer(r)
  PROVE  CertInv'
<1>1. CertTypeOK'
  BY CertAssumption, Zenon DEF CertInv, CertTypeOK, StartServer, Goto, At, counters, Empty, Gens, Maybe, Steps
<1>2. HandsStored'
  BY CertAssumption, Zenon DEF CertInv, CertTypeOK, HandsStored, At, StartServer, Goto, counters, Empty, Gens, Maybe
<1>3. Whole'
  BY Zenon DEF CertInv, CertTypeOK, Whole, StartServer, Goto, At, counters, Empty
<1>4. Vouched'
  BY Zenon DEF CertInv, CertTypeOK, Vouched, Vouches, Settled, StartServer, Goto, At, counters, Empty
<1>5. QED
  BY <1>1, <1>2, <1>3, <1>4, Zenon DEF CertInv

LEMMA NeedsRotationPreserves ==
  ASSUME CertInv, NEW r \in Replicas, NeedsRotation(r)
  PROVE  CertInv'
<1>1. CertTypeOK'
  BY CertAssumption, Zenon DEF CertInv, CertTypeOK, NeedsRotation, Goto, At, counters, Valid, Gens, Maybe, Steps
<1>2. HandsStored'
  BY CertAssumption, Zenon DEF CertInv, CertTypeOK, HandsStored, At, NeedsRotation, Goto, counters, Valid, Gens, Maybe
<1>3. Whole'
  BY Zenon DEF CertInv, CertTypeOK, Whole, NeedsRotation, Goto, At, counters, Valid
<1>4. Vouched'
  BY Zenon DEF CertInv, CertTypeOK, Vouched, Vouches, Settled, NeedsRotation, Goto, At, counters, Valid
<1>5. QED
  BY <1>1, <1>2, <1>3, <1>4, Zenon DEF CertInv

LEMMA GetSecretPreserves ==
  ASSUME CertInv, NEW r \in Replicas, GetSecret(r)
  PROVE  CertInv'
<1>1. CertTypeOK'
  BY CertAssumption DEF CertInv, CertTypeOK, GetSecret, Goto, At, counters, Valid, Gens, Maybe, Steps
<1>2. HandsStored'
  <2>1. CASE Valid
    BY <2>1, Zenon DEF CertInv, CertTypeOK, HandsStored, GetSecret, Goto, At, Valid
  <2>2. CASE ~Valid
    <3>1. fresh \in [Replicas -> Maybe] /\ minted' \in Nat /\ fresh' = [fresh EXCEPT ![r] = minted']
      <4>1. minted \in Nat /\ fresh \in [Replicas -> Maybe]
        BY CertAssumption DEF CertInv, CertTypeOK
      <4>2. minted' = minted + 1 /\ fresh' = [fresh EXCEPT ![r] = minted']
        BY <2>2, Zenon DEF GetSecret
      <4> QED
        BY <4>1, <4>2
    <3>2. fresh'[r] # None
      BY <3>1, CertAssumption, Zenon
    <3>3. QED
      BY <2>2, <3>2, Zenon DEF CertInv, CertTypeOK, HandsStored, GetSecret, Goto, At
  <2>3. QED
    BY <2>1, <2>2, Zenon
<1>3. Whole'
  BY Zenon DEF CertInv, CertTypeOK, Whole, GetSecret, Goto, At, counters, Valid
<1>4. Vouched'
  BY Zenon DEF CertInv, CertTypeOK, Vouched, Vouches, Settled, GetSecret, Goto, At, counters, Valid
<1>5. QED
  BY <1>1, <1>2, <1>3, <1>4, Zenon DEF CertInv

LEMMA CreateSecretPreserves ==
  ASSUME CertInv, NEW r \in Replicas, CreateSecret(r)
  PROVE  CertInv'
<1>1. CertTypeOK'
  <2>1. secret' \in Maybe /\ stored' \subseteq Gens
    BY Zenon DEF CertInv, CertTypeOK, HandsStored, CreateSecret, Store, EnsureFails, At, Maybe
  <2>2. pc' \in [Replicas -> Steps]
    BY Zenon DEF CertInv, CertTypeOK, CreateSecret, Store, EnsureFails, Goto, Steps
  <2>3. QED
    BY <2>1, <2>2, Zenon DEF CertInv, CertTypeOK, CreateSecret, counters
<1>2. HandsStored'
  BY CertAssumption DEF CertInv, CertTypeOK, HandsStored, CreateSecret, Store, EnsureFails, Goto, At, counters, Gens, Maybe
<1>3. Whole'
  BY Zenon DEF CertInv, CertTypeOK, Whole, CreateSecret, Store, EnsureFails, Goto, At, counters
<1>4. Vouched'
  BY DEF CertInv, CertTypeOK, Vouched, Vouches, Settled, CreateSecret, Store, EnsureFails, Goto, At, counters
<1>5. QED
  BY <1>1, <1>2, <1>3, <1>4, Zenon DEF CertInv

LEMMA UpdateSecretPreserves ==
  ASSUME CertInv, NEW r \in Replicas, UpdateSecret(r)
  PROVE  CertInv'
<1>1. CertTypeOK'
  BY CertAssumption, Zenon DEF CertInv, CertTypeOK, HandsStored, UpdateSecret, Store, Goto, At, counters, Gens, Maybe, Steps
<1>2. HandsStored'
  BY CertAssumption, Zenon DEF CertInv, CertTypeOK, HandsStored, At, UpdateSecret, Store, Goto, counters, Gens, Maybe
<1>3. Whole'
  BY Zenon DEF CertInv, CertTypeOK, Whole, UpdateSecret, Store, Goto, At, counters
<1>4. Vouched'
  BY Zenon DEF CertInv, CertTypeOK, Vouched, Vouches, Settled, UpdateSecret, Store, Goto, At, counters
<1>5. QED
  BY <1>1, <1>2, <1>3, <1>4, Zenon DEF CertInv

LEMMA AssignCertPreserves ==
  ASSUME CertInv, NEW r \in Replicas, AssignCert(r)
  PROVE  CertInv'
<1>1. CertTypeOK'
  <2>1. memory' \in [Replicas -> [ca : Maybe, cert : Maybe, key : Maybe]]
    <3>1. ASSUME NEW q \in Replicas PROVE memory'[q] \in [ca : Maybe, cert : Maybe, key : Maybe]
      BY Zenon DEF CertInv, CertTypeOK, AssignCert
    <3>2. QED
      BY <3>1, Zenon DEF CertInv, CertTypeOK, AssignCert
  <2>2. pc' \in [Replicas -> Steps]
    BY Zenon DEF CertInv, CertTypeOK, AssignCert, Goto, Steps
  <2>3. QED
    BY <2>1, <2>2, Zenon DEF CertInv, CertTypeOK, AssignCert, counters
<1>2. HandsStored'
  BY CertAssumption, Zenon DEF CertInv, CertTypeOK, HandsStored, At, AssignCert, Goto, counters, Gens, Maybe
<1>3. Whole'
  BY DEF CertInv, CertTypeOK, Whole, AssignCert, Goto, At, counters
<1>4. Vouched'
  BY Zenon DEF CertInv, CertTypeOK, Vouched, Vouches, Settled, AssignCert, Goto, At, counters
<1>5. QED
  BY <1>1, <1>2, <1>3, <1>4, Zenon DEF CertInv

LEMMA AssignKeyPreserves ==
  ASSUME CertInv, NEW r \in Replicas, AssignKey(r)
  PROVE  CertInv'
<1>1. CertTypeOK'
  <2>1. memory' \in [Replicas -> [ca : Maybe, cert : Maybe, key : Maybe]]
    <3>1. ASSUME NEW q \in Replicas PROVE memory'[q] \in [ca : Maybe, cert : Maybe, key : Maybe]
      BY Zenon DEF CertInv, CertTypeOK, AssignKey
    <3>2. QED
      BY <3>1, Zenon DEF CertInv, CertTypeOK, AssignKey
  <2>2. pc' \in [Replicas -> Steps]
    BY Zenon DEF CertInv, CertTypeOK, AssignKey, Goto, Steps
  <2>3. QED
    BY <2>1, <2>2, Zenon DEF CertInv, CertTypeOK, AssignKey, counters
<1>2. HandsStored'
  BY CertAssumption, Zenon DEF CertInv, CertTypeOK, HandsStored, At, AssignKey, Goto, counters, Gens, Maybe
<1>3. Whole'
  BY DEF CertInv, CertTypeOK, Whole, AssignKey, Goto, At, counters
<1>4. Vouched'
  BY Zenon DEF CertInv, CertTypeOK, Vouched, Vouches, Settled, AssignKey, Goto, At, counters
<1>5. QED
  BY <1>1, <1>2, <1>3, <1>4, Zenon DEF CertInv

LEMMA GetConfigPreserves ==
  ASSUME CertInv, NEW r \in Replicas, GetConfig(r)
  PROVE  CertInv'
<1>1. CertTypeOK'
  BY CertAssumption DEF CertInv, CertTypeOK, GetConfig, Serve, Goto, At, counters, Gens, Maybe, Steps
<1>2. HandsStored'
  BY CertAssumption DEF CertInv, CertTypeOK, HandsStored, At, GetConfig, Serve, Goto, counters, Gens, Maybe
<1>3. Whole'
  BY Zenon DEF CertInv, CertTypeOK, Whole, GetConfig, Serve, Goto, At, counters
<1>4. Vouched'
  BY Zenon DEF CertInv, CertTypeOK, Vouched, Vouches, Settled, GetConfig, Serve, Goto, At, counters
<1>5. QED
  BY <1>1, <1>2, <1>3, <1>4, Zenon DEF CertInv

LEMMA PutConfigPreserves ==
  ASSUME CertInv, NEW r \in Replicas, PutConfig(r)
  PROVE  CertInv'
<1>1. CertTypeOK'
  <2>1. caBundle' \in [ca : Maybe, rev : Nat]
    <3>1. memory[r].ca \in Maybe /\ caBundle.rev \in Nat /\ caBundle \in [ca : Maybe, rev : Nat]
      BY Zenon DEF CertInv, CertTypeOK
    <3>2. caBundle' \in {caBundle, [ca |-> memory[r].ca, rev |-> caBundle.rev + 1]}
      BY Zenon DEF PutConfig
    <3> QED
      BY <3>1, <3>2
  <2>2. unbundled' \subseteq Replicas /\ starting' \subseteq Replicas
    BY Zenon DEF CertInv, CertTypeOK, PutConfig, Serve
  <2>3. pc' \in [Replicas -> Steps]
    BY Zenon DEF CertInv, CertTypeOK, PutConfig, Serve, Goto, Steps
  <2> QED
    BY <2>1, <2>2, <2>3, Zenon DEF CertInv, CertTypeOK, PutConfig, counters
<1>2. HandsStored'
  BY CertAssumption DEF CertInv, CertTypeOK, HandsStored, At, PutConfig, Serve, Goto, counters, Gens, Maybe
<1>3. Whole'
  BY Zenon DEF CertInv, CertTypeOK, Whole, PutConfig, Serve, Goto, At, counters
<1>4. Vouched'
  BY DEF CertInv, CertTypeOK, Vouched, Vouches, Settled, PutConfig, Serve, Goto, At, counters
<1>5. QED
  BY <1>1, <1>2, <1>3, <1>4, Zenon DEF CertInv

LEMMA RequestFailsPreserves ==
  ASSUME CertInv, NEW r \in Replicas, RequestFails(r)
  PROVE  CertInv'
<1>1. CertTypeOK'
  <2>1. pc' \in [Replicas -> Steps] /\ starting' \subseteq Replicas /\ unbundled' \subseteq Replicas
    BY Zenon DEF CertInv, CertTypeOK, RequestFails, EnsureFails, Serve, Goto, Steps
  <2>2. failures' \in 0..MaxFailures
    BY CertAssumption DEF CertInv, CertTypeOK, RequestFails
  <2>3. QED
    BY <2>1, <2>2, Zenon DEF CertInv, CertTypeOK, RequestFails
<1>2. HandsStored'
  BY CertAssumption, Zenon DEF CertInv, CertTypeOK, HandsStored, At, RequestFails, EnsureFails, Serve, Goto, Gens, Maybe
<1>3. Whole'
  BY Zenon DEF CertInv, CertTypeOK, Whole, RequestFails, EnsureFails, Serve, Goto, At
<1>4. Vouched'
  BY Zenon DEF CertInv, CertTypeOK, Vouched, Vouches, Settled, RequestFails, EnsureFails, Serve, Goto, At
<1>5. QED
  BY <1>1, <1>2, <1>3, <1>4, Zenon DEF CertInv

LEMMA CrashPreserves ==
  ASSUME CertInv, NEW r \in Replicas, Crash(r)
  PROVE  CertInv'
<1>1. CertTypeOK'
  BY CertAssumption DEF CertInv, CertTypeOK, Crash, Goto, At, Gens, Maybe, Steps
<1>2. HandsStored'
  BY CertAssumption, Zenon DEF CertInv, CertTypeOK, HandsStored, At, Crash, Goto, Gens, Maybe
<1>3. Whole'
  BY Zenon DEF CertInv, CertTypeOK, Whole, Crash, Goto, At
<1>4. Vouched'
  BY Zenon DEF CertInv, CertTypeOK, Vouched, Vouches, Settled, Crash, Goto, At
<1>5. QED
  BY <1>1, <1>2, <1>3, <1>4, Zenon DEF CertInv

(* A certificate nearing its expiry concerns nobody until somebody looks.  *)
LEMMA AgePreserves ==
  ASSUME CertInv, Age
  PROVE  CertInv'
<1>1. CertTypeOK'
  BY CertAssumption DEF CertInv, CertTypeOK, Age, Valid, Maybe
<1>2. HandsStored' /\ Whole' /\ Vouched'
  BY Zenon DEF CertInv, HandsStored, Whole, Vouched, Vouches, Settled, Age, At
<1>3. QED
  BY <1>1, <1>2, Zenon DEF CertInv

LEMMA CertStarts == CertInit => CertInv
<1> SUFFICES ASSUME CertInit PROVE CertInv
  BY Zenon
<1>1. Empty \in [ca : Maybe, cert : Maybe, key : Maybe] /\ [ca |-> None, rev |-> 0] \in [ca : Maybe, rev : Nat]
  BY Zenon DEF Empty, Maybe
<1>2. memory \in [Replicas -> [ca : Maybe, cert : Maybe, key : Maybe]] /\ caBundle \in [ca : Maybe, rev : Nat]
  BY <1>1, Zenon DEF CertInit
<1>3. pc \in [Replicas -> Steps] /\ fresh \in [Replicas -> Maybe] /\ readRev \in [Replicas -> Nat]
  BY Zenon DEF CertInit, Steps, Maybe
<1>4. minted \in 0..MaxGen /\ ages \in 0..MaxAges /\ crashes \in 0..MaxCrashes /\ failures \in 0..MaxFailures
  BY CertAssumption DEF CertInit
<1>5. CertTypeOK
  BY <1>2, <1>3, <1>4, Zenon DEF CertInit, CertTypeOK, Maybe
<1>6. HandsStored /\ Whole /\ Vouched
  BY CertAssumption, Zenon DEF CertInit, HandsStored, Whole, Vouched, Vouches, Settled, At, Empty
<1> QED
  BY <1>5, <1>6, Zenon DEF CertInv

LEMMA CertStep == CertInv /\ [CertNext]_certVars => CertInv'
<1> SUFFICES ASSUME CertInv, [CertNext]_certVars PROVE CertInv'
  BY Zenon
<1>1. CASE UNCHANGED certVars
  BY <1>1, Zenon DEF certVars, counters, CertInv, CertTypeOK, HandsStored, Whole, Vouched, Vouches, Settled, At
<1>2. CASE Age
  BY <1>2, AgePreserves, Zenon
<1>3. ASSUME NEW r \in Replicas, Replica(r) PROVE CertInv'
  BY <1>3, StartServerPreserves, NeedsRotationPreserves, GetSecretPreserves, CreateSecretPreserves,
     UpdateSecretPreserves, AssignCertPreserves, AssignKeyPreserves, GetConfigPreserves,
     PutConfigPreserves, Zenon DEF Replica
<1>4. ASSUME NEW r \in Replicas, RequestFails(r) PROVE CertInv'
  BY <1>4, RequestFailsPreserves, Zenon
<1>5. ASSUME NEW r \in Replicas, Crash(r) PROVE CertInv'
  BY <1>5, CrashPreserves, Zenon
<1>6. QED
  BY <1>1, <1>2, <1>3, <1>4, <1>5, Zenon DEF CertNext

(* All replicas at rest, on the Secret's certificate and with no failed    *)
(* update: the one that vouches for the bundle serves what all serve.      *)
LEMMA CertInvImpliesSound == CertInv => BundleSound
BY Zenon DEF CertInv, HandsStored, Whole, Vouched, Vouches, Settled, BundleSound, Outdated, Trusted, At

(* The CA bundle holds only what was stored in the Secret, and no update   *)
(* by a replica with an older certificate leaves the others untrusted      *)
(* without that replica being outdated or its failure being on record      *)
(* (internal/webhook/cert.go, EnsureCertificates and                       *)
(* UpdateWebhookCABundle), for any number of replicas, rotations, crashes  *)
(* and failing requests.                                                   *)
THEOREM CABundleSound == CertSpec => [](CertTypeOK /\ BundleSound)
<1>1. CertInv => CertTypeOK /\ BundleSound
  BY CertInvImpliesSound, Zenon DEF CertInv
<1>2. QED
  BY <1>1, CertStarts, CertStep, PTL DEF CertSpec

=============================================================================
