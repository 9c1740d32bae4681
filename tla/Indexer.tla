------------------------------ MODULE Indexer ------------------------------
(***************************************************************************)
(* The in-memory constraint store (internal/indexer/indexer.go).           *)
(*                                                                         *)
(* The store is a function byUID from constraint UIDs to constraints, with *)
(* NoConstraint where the map has no entry.  Every operation is atomic     *)
(* under the store's RWMutex, so it is an operator on byUID here.  The     *)
(* change callback runs after the mutex is released: the modules that use  *)
(* the store model its callbacks as steps of their own.                    *)
(*                                                                         *)
(* A constraint is a record; this module reads its fields uid, source,     *)
(* namespace (ClusterScope when the constraint is cluster-scoped) and      *)
(* affected (the set AffectedNamespaces).                                  *)
(***************************************************************************)
CONSTANTS NoConstraint, ClusterScope

Upsert(byUID, c) == [byUID EXCEPT ![c.uid] = c]

UpsertAll_IfAbsent(byUID, cs) ==
  [u \in DOMAIN byUID |->
     IF byUID[u] = NoConstraint /\ \E c \in cs : c.uid = u THEN CHOOSE c \in cs : c.uid = u ELSE byUID[u]]

(* Several Upsert calls in a row, for the constraints of one object.       *)
UpsertAll(byUID, cs) ==
  [u \in DOMAIN byUID |->
     IF \E c \in cs : c.uid = u THEN CHOOSE c \in cs : c.uid = u ELSE byUID[u]]

Delete(byUID, uid) == [byUID EXCEPT ![uid] = NoConstraint]

DeleteAll(byUID, uids) ==
  [u \in DOMAIN byUID |-> IF u \in uids THEN NoConstraint ELSE byUID[u]]

(* All: the constraints in the store.                                      *)
All(byUID) == {byUID[u] : u \in DOMAIN byUID} \ {NoConstraint}

BySourceGVR(byUID, gvr) == {c \in All(byUID) : c.source = gvr}

DeleteBySource(byUID, gvr) ==
  DeleteAll(byUID, {c.uid : c \in BySourceGVR(byUID, gvr)})

(* A cluster-scoped constraint matches every namespace, whatever its       *)
(* affected namespaces are.                                                *)
matchesNamespace(c, ns) ==
  \/ c.namespace = ClusterScope
  \/ c.namespace = ns
  \/ ns \in c.affected

ByNamespace(byUID, ns) == {c \in All(byUID) : matchesNamespace(c, ns)}

=============================================================================
