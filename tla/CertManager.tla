---------------------------- MODULE CertManager ----------------------------
(***************************************************************************)
(* Self-signed certificates of the admission webhook                       *)
(* (internal/webhook/cert.go, started by cmd/webhook/main.go).  Every      *)
(* replica of the webhook keeps the certificates it serves in memory; the  *)
(* replicas share a Secret and the CA bundle of the webhook configuration, *)
(* through which the API server trusts them.                               *)
(*                                                                         *)
(* A certificate pair and its CA are generated together and stand for one  *)
(* number, their generation.  A replica walks through startServer or one   *)
(* tick of StartRotationWatcher, request by request; the handshake reads   *)
(* the fields in memory without a lock, so their assignment takes two      *)
(* steps.  An error ends the process at startup and is logged later.       *)
(***************************************************************************)
EXTENDS Common, Integers, FiniteSets

CONSTANTS
  Replicas,
  MaxGen,       \* bound on generated certificates
  MaxAges,      \* bound on how often the stored certificate nears its expiry
  MaxCrashes,   \* bound on crashes of replicas
  MaxFailures   \* bound on failing API requests

ASSUME CertAssumption ==
  /\ MaxGen \in Nat /\ MaxAges \in Nat /\ MaxCrashes \in Nat /\ MaxFailures \in Nat
  /\ None \notin Nat

Gens == 1..MaxGen
Maybe == Gens \union {None}
Steps == {"down", "get", "write", "assign", "assignKey", "getConfig", "putConfig", "idle"}

VARIABLES
  secret,      \* generation in the Secret, None when it does not exist
  expiring,    \* generations within the rotation threshold of their expiry
  caBundle,    \* [ca, rev]: the webhook configuration and its resource version
  pc,
  starting,    \* replicas in startServer, where an error is fatal
  exists,      \* per replica: whether the Secret existed when it was read
  fresh,       \* per replica: the generation to store and to serve
  readRev,     \* per replica: the resource version it read
  memory,      \* per replica: caCert, serverCert and serverKey
  minted, ages, crashes, failures,
  stored,      \* history: generations that were ever in the Secret
  unbundled    \* history: replicas whose last update of the CA bundle failed

certVars == <<secret, expiring, caBundle, pc, starting, exists, fresh, readRev, memory,
          minted, ages, crashes, failures, stored, unbundled>>
counters == <<ages, crashes, failures>>

CertTypeOK ==
  /\ secret \in Maybe /\ expiring \subseteq Gens /\ stored \subseteq Gens
  /\ unbundled \subseteq Replicas
  /\ caBundle \in [ca : Maybe, rev : Nat]
  /\ pc \in [Replicas -> Steps]
  /\ starting \subseteq Replicas /\ exists \subseteq Replicas
  /\ fresh \in [Replicas -> Maybe] /\ readRev \in [Replicas -> Nat]
  /\ memory \in [Replicas -> [ca : Maybe, cert : Maybe, key : Maybe]]
  /\ minted \in 0..MaxGen /\ ages \in 0..MaxAges
  /\ crashes \in 0..MaxCrashes /\ failures \in 0..MaxFailures

Empty == [ca |-> None, cert |-> None, key |-> None]

CertInit ==
  /\ secret = None /\ expiring = {} /\ stored = {} /\ unbundled = {}
  /\ caBundle = [ca |-> None, rev |-> 0]
  /\ pc = [r \in Replicas |-> "down"]
  /\ starting = {} /\ exists = {}
  /\ fresh = [r \in Replicas |-> None] /\ readRev = [r \in Replicas |-> 0]
  /\ memory = [r \in Replicas |-> Empty]
  /\ minted = 0 /\ ages = 0 /\ crashes = 0 /\ failures = 0

(* secret exists and areCertsValid.                                        *)
Valid == secret # None /\ secret \notin expiring

At(r, step) == pc[r] = step
Goto(r, step) == pc' = [pc EXCEPT ![r] = step]

(* EnsureCertificates returns an error.                                    *)
EnsureFails(r) == Goto(r, IF r \in starting THEN "down" ELSE "idle")

-----------------------------------------------------------------------------
(* The replica starts, or its rotation ticker fires.                       *)
StartServer(r) ==
  /\ At(r, "down") /\ Goto(r, "get")
  /\ starting' = starting \union {r}
  /\ memory' = [memory EXCEPT ![r] = Empty]
  /\ UNCHANGED <<secret, expiring, caBundle, exists, fresh, readRev, minted, counters, stored, unbundled>>

NeedsRotation(r) ==
  /\ At(r, "idle") /\ ~Valid
  /\ Goto(r, "get")
  /\ UNCHANGED <<secret, expiring, caBundle, starting, exists, fresh, readRev, memory, minted, counters, stored, unbundled>>

(* ensureSelfSignedCerts: use the stored certificates if they are valid,   *)
(* else generate.                                                          *)
GetSecret(r) ==
  /\ At(r, "get")
  /\ IF Valid
     THEN /\ fresh' = [fresh EXCEPT ![r] = secret]
          /\ Goto(r, "assign")
          /\ UNCHANGED <<exists, minted>>
     ELSE /\ minted < MaxGen /\ minted' = minted + 1
          /\ fresh' = [fresh EXCEPT ![r] = minted']
          /\ exists' = IF secret # None THEN exists \union {r} ELSE exists \ {r}
          /\ Goto(r, "write")
  /\ UNCHANGED <<secret, expiring, caBundle, starting, readRev, memory, counters, stored, unbundled>>

Store(r) ==
  /\ secret' = fresh[r] /\ stored' = stored \union {fresh[r]}
  /\ Goto(r, "assign")

CreateSecret_Ignored(r) ==
  /\ At(r, "write") /\ r \notin exists
  /\ IF secret = None
     THEN Store(r)
     ELSE Goto(r, "assign") /\ UNCHANGED <<secret, stored>>
  /\ UNCHANGED <<expiring, caBundle, starting, exists, fresh, readRev, memory, minted, counters, unbundled>>

(* Create fails if another replica has created the Secret meanwhile.       *)
CreateSecret(r) ==
  /\ At(r, "write") /\ r \notin exists
  /\ IF secret = None
     THEN Store(r)
     ELSE EnsureFails(r) /\ UNCHANGED <<secret, stored>>
  /\ UNCHANGED <<expiring, caBundle, starting, exists, fresh, readRev, memory, minted, counters, unbundled>>

(* Update carries no resource version: the last writer wins.               *)
UpdateSecret(r) ==
  /\ At(r, "write") /\ r \in exists
  /\ Store(r)
  /\ UNCHANGED <<expiring, caBundle, starting, exists, fresh, readRev, memory, minted, counters, unbundled>>

AssignCert(r) ==
  /\ At(r, "assign") /\ Goto(r, "assignKey")
  /\ memory' = [memory EXCEPT ![r].ca = fresh[r], ![r].cert = fresh[r]]
  /\ UNCHANGED <<secret, expiring, caBundle, starting, exists, fresh, readRev, minted, counters, stored, unbundled>>

AssignKey(r) ==
  /\ At(r, "assignKey") /\ Goto(r, "getConfig")
  /\ memory' = [memory EXCEPT ![r].key = fresh[r]]
  /\ UNCHANGED <<secret, expiring, caBundle, starting, exists, fresh, readRev, minted, counters, stored, unbundled>>

-----------------------------------------------------------------------------
(* UpdateWebhookCABundle; an error, a conflict included, is only logged.   *)
Serve(r) == Goto(r, "idle") /\ starting' = starting \ {r}

GetConfig_Never(r) ==
  /\ At(r, "getConfig") /\ Serve(r)
  /\ UNCHANGED <<secret, expiring, caBundle, exists, fresh, readRev, memory, minted, counters, stored, unbundled>>

GetConfig(r) ==
  /\ At(r, "getConfig")
  /\ IF caBundle.ca = memory[r].ca
     THEN Serve(r) /\ unbundled' = unbundled \ {r} /\ UNCHANGED readRev
     ELSE /\ Goto(r, "putConfig")
          /\ readRev' = [readRev EXCEPT ![r] = caBundle.rev]
          /\ UNCHANGED <<starting, unbundled>>
  /\ UNCHANGED <<secret, expiring, caBundle, exists, fresh, memory, minted, counters, stored>>

PutConfig(r) ==
  /\ At(r, "putConfig") /\ Serve(r)
  /\ IF caBundle.rev = readRev[r]
     THEN caBundle' = [ca |-> memory[r].ca, rev |-> caBundle.rev + 1] /\ unbundled' = unbundled \ {r}
     ELSE unbundled' = unbundled \union {r} /\ UNCHANGED caBundle
  /\ UNCHANGED <<secret, expiring, exists, fresh, readRev, memory, minted, counters, stored>>

-----------------------------------------------------------------------------
(* A request fails; a replica crashes; the certificate grows old.          *)
RequestFails(r) ==
  /\ failures < MaxFailures /\ failures' = failures + 1
  /\ \/ pc[r] \in {"get", "write"} /\ EnsureFails(r) /\ UNCHANGED <<starting, unbundled>>
     \/ pc[r] \in {"getConfig", "putConfig"} /\ Serve(r) /\ unbundled' = unbundled \union {r}
  /\ UNCHANGED <<secret, expiring, caBundle, exists, fresh, readRev, memory, minted, ages, crashes, stored>>

Crash(r) ==
  /\ ~At(r, "down") /\ Goto(r, "down")
  /\ crashes < MaxCrashes /\ crashes' = crashes + 1
  /\ UNCHANGED <<secret, expiring, caBundle, starting, exists, fresh, readRev, memory, minted, ages, failures, stored, unbundled>>

Age ==
  /\ Valid /\ ages < MaxAges /\ ages' = ages + 1
  /\ expiring' = expiring \union {secret}
  /\ UNCHANGED <<secret, caBundle, pc, starting, exists, fresh, readRev, memory, minted, crashes, failures, stored, unbundled>>

Replica(r) ==
  \/ StartServer(r) \/ NeedsRotation(r) \/ GetSecret(r) \/ CreateSecret(r) \/ UpdateSecret(r)
  \/ AssignCert(r) \/ AssignKey(r) \/ GetConfig(r) \/ PutConfig(r)

CertNext == Age \/ \E r \in Replicas : Replica(r) \/ RequestFails(r) \/ Crash(r)

CertSpec == CertInit /\ [][CertNext]_certVars

(* A replica that exits is restarted, and its ticker keeps firing.         *)
FairCertSpec == CertSpec /\ \A r \in Replicas : WF_certVars(Replica(r))

-----------------------------------------------------------------------------
(* Properties.                                                             *)

(* The certificate a replica serves is whole and the CA bundle vouches for *)
(* it.                                                                     *)
Trusted(r) == memory[r].cert = memory[r].key /\ memory[r].ca = caBundle.ca

Outdated == {r \in Replicas : memory[r].ca # secret}

(* The API server is only ever told to trust a CA whose certificate was    *)
(* stored in the Secret, never one that a replica generated in vain.  And  *)
(* whenever all replicas are at rest, serve the certificate in the Secret, *)
(* and nobody's last update of the CA bundle failed, every one of them is  *)
(* trusted: no stale update has overwritten the bundle unnoticed.          *)
BundleSound ==
  /\ caBundle.ca # None => caBundle.ca \in stored
  /\ (\A r \in Replicas : At(r, "idle")) /\ Outdated \union unbundled = {}
        => \A r \in Replicas : Trusted(r)

(* "After rotation, the CA bundle ... is updated automatically"            *)
(* (docs/controller/webhook.md).  Every replica comes to rest with a       *)
(* certificate; if all of them serve the one in the Secret and nobody's    *)
(* last update of the CA bundle failed, they are trusted for good.  (A     *)
(* replica that did not rotate itself goes on serving what it loaded, and  *)
(* no failed update is retried.)                                           *)
ReplicasTrusted ==
  <>[](\A r \in Replicas :
         At(r, "idle") /\ memory[r].cert # None /\ (Outdated \union unbundled = {} => Trusted(r)))

=============================================================================
