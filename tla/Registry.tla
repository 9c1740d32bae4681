------------------------------ MODULE Registry ------------------------------
(***************************************************************************)
(* The adapter registry (internal/adapters/registry.go).  Every operation  *)
(* runs under the registry's lock; adapters are identified by their names. *)
(***************************************************************************)
EXTENDS Common, Integers, Sequences

CONSTANTS
  Adapters, GVRs, Groups,
  groupOf,     \* the API group of each GVR
  Handles      \* the sequence of GVRs each adapter handles

ASSUME RegistryAssumption ==
  /\ groupOf \in [GVRs -> Groups]
  /\ Handles \in [Adapters -> Seq(GVRs)]
  /\ None \notin Adapters

VARIABLES adapters, gvrMap, groupMap

registryVars == <<adapters, gvrMap, groupMap>>

RegistryTypeOK ==
  /\ adapters \subseteq Adapters
  /\ gvrMap \in [GVRs -> Adapters \union {None}]
  /\ groupMap \in [Groups -> Adapters \union {None}]

RegistryInit ==
  /\ adapters = {}
  /\ gvrMap = [g \in GVRs |-> None]
  /\ groupMap = [gr \in Groups |-> None]

(* The GVRs Register maps before it meets one that is taken.  A GVR that   *)
(* Handles repeats counts as taken.                                        *)
Free(a, i) == gvrMap[Handles[a][i]] = None /\ \A j \in 1..(i - 1) : Handles[a][j] # Handles[a][i]
Mapped(a) == {Handles[a][i] : i \in {i \in DOMAIN Handles[a] : \A j \in 1..i : Free(a, j)}}
Accepted(a) == \A i \in DOMAIN Handles[a] : Free(a, i)

(* "First adapter for each group wins."                                    *)
IndexGroups(a, gvrs) ==
  groupMap' = [gr \in Groups |->
                 IF groupMap[gr] = None /\ \E g \in gvrs : groupOf[g] = gr THEN a ELSE groupMap[gr]]

(* Register; when it fails the GVRs mapped so far stay mapped.             *)
Register(a) ==
  /\ a \notin adapters
  /\ gvrMap' = [g \in GVRs |-> IF g \in Mapped(a) THEN a ELSE gvrMap[g]]
  /\ IndexGroups(a, Mapped(a))
  /\ adapters' = IF Accepted(a) THEN adapters \union {a} ELSE adapters

RegisterGVR_LastWins(g, a) ==
  /\ a \in adapters
  /\ gvrMap' = [gvrMap EXCEPT ![g] = a]
  /\ groupMap' = [groupMap EXCEPT ![groupOf[g]] = a]
  /\ UNCHANGED adapters

(* RegisterGVR overwrites; it is given an adapter of the registry.         *)
RegisterGVR(g, a) ==
  /\ a \in adapters
  /\ gvrMap' = [gvrMap EXCEPT ![g] = a]
  /\ IndexGroups(a, {g})
  /\ UNCHANGED adapters

(* The adapters that remain for a group once the GVRs in gone are removed. *)
Remaining(gr, gone) == {gvrMap[g] : g \in {g \in GVRs \ gone : groupOf[g] = gr}} \ {None}

(* Unregister: a group of the adapter goes to any adapter that remains.    *)
Unregister(a) ==
  /\ a \in adapters
  /\ LET gone == {g \in GVRs : gvrMap[g] = a}
         lost == {gr \in Groups : groupMap[gr] = a /\ \E g \in gone : groupOf[g] = gr}
     IN  /\ gvrMap' = [g \in GVRs |-> IF g \in gone THEN None ELSE gvrMap[g]]
         /\ \E pick \in [lost -> Adapters \union {None}] :
              /\ \A gr \in lost :
                   IF Remaining(gr, gone) = {} THEN pick[gr] = None ELSE pick[gr] \in Remaining(gr, gone)
              /\ groupMap' = [gr \in Groups |-> IF gr \in lost THEN pick[gr] ELSE groupMap[gr]]
  /\ adapters' = adapters \ {a}

UnregisterGVR_DropsGroup(g) ==
  /\ gvrMap[g] # None
  /\ gvrMap' = [gvrMap EXCEPT ![g] = None]
  /\ groupMap' = [groupMap EXCEPT ![groupOf[g]] = IF @ = gvrMap[g] THEN None ELSE @]
  /\ UNCHANGED adapters

(* UnregisterGVR forgets the group with its last GVR.                      *)
UnregisterGVR(g) ==
  /\ gvrMap[g] # None
  /\ gvrMap' = [gvrMap EXCEPT ![g] = None]
  /\ groupMap' = [groupMap EXCEPT ![groupOf[g]] =
                    IF @ = gvrMap[g] /\ Remaining(groupOf[g], {g}) = {} THEN None ELSE @]
  /\ UNCHANGED adapters

RegistryNext ==
  \/ \E a \in Adapters : Register(a) \/ Unregister(a)
  \/ \E g \in GVRs : UnregisterGVR(g) \/ \E a \in Adapters : RegisterGVR(g, a)

RegistrySpec == RegistryInit /\ [][RegistryNext]_registryVars

-----------------------------------------------------------------------------
(* Properties.                                                             *)

(* A group with a mapped GVR has an adapter for its other resources: the   *)
(* engine, which asks ForGroup for kinds that appear at run time, finds    *)
(* one as long as ForGVR finds one for a sibling.                          *)
GroupKnown == \A g \in GVRs : gvrMap[g] # None => groupMap[groupOf[g]] # None

(* The adapter of a group is replaced by another one only when it leaves   *)
(* the registry ("the first registered wins").                             *)
FirstWins ==
  [][\A gr \in Groups :
       groupMap[gr] # None /\ groupMap'[gr] \notin {None, groupMap[gr]} => groupMap[gr] \notin adapters']_registryVars

=============================================================================
