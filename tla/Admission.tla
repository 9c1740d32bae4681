----------------------------- MODULE Admission ------------------------------
(***************************************************************************)
(* An admission request on its way (cmd/webhook/admission.go): the API     *)
(* server calls the webhook, the webhook asks the controller's API         *)
(* (internal/api/constraints.go) for the constraints of the namespace,     *)
(* with a timeout of three seconds, and answers with warnings.  Meanwhile  *)
(* the index changes and webhook and controller crash and come back; a     *)
(* controller that comes back has an empty index that it fills again.      *)
(*                                                                         *)
(* Constraints are those that would be warned of (Views models which).     *)
(* The API server skips a webhook that fails: failurePolicy is Ignore.     *)
(***************************************************************************)
EXTENDS Common, Integers, FiniteSets

CONSTANTS
  Requests, Constraints,
  MaxChanges,     \* bound on index changes
  MaxOutages      \* bound on crashes of the controller and the webhook

ASSUME AdmissionAssumption == MaxChanges \in Nat /\ MaxOutages \in Nat

ReviewSteps == {"new", "query", "asked", "answered", "admitted"}

VARIABLES
  index,       \* constraints in the controller's index
  controller,  \* whether the controller runs
  review,
  response,    \* per request: constraints in the controller's response, or None
  warnings,    \* per request: the warnings the user sees
  changes, outages,
  ever,        \* history, per request: constraints in the index at some time since it was sent
  always       \* history, per request: constraints in the index all the time since it was sent

admissionVars == <<index, controller, review, response, warnings, changes, outages, ever, always>>

AdmissionTypeOK ==
  /\ index \subseteq Constraints /\ controller \in BOOLEAN
  /\ review \in [Requests -> ReviewSteps]
  /\ response \in [Requests -> (SUBSET Constraints) \union {None}]
  /\ \A r \in Requests : review[r] = "answered" => response[r] # None
  /\ warnings \in [Requests -> SUBSET Constraints]
  /\ changes \in 0..MaxChanges /\ outages \in 0..MaxOutages
  /\ ever \in [Requests -> SUBSET Constraints] /\ always \in [Requests -> SUBSET Constraints]

AdmissionInit ==
  /\ index \in SUBSET Constraints /\ controller = TRUE
  /\ review = [r \in Requests |-> "new"]
  /\ response = [r \in Requests |-> None] /\ warnings = [r \in Requests |-> {}]
  /\ changes = 0 /\ outages = 0
  /\ ever = [r \in Requests |-> {}] /\ always = [r \in Requests |-> {}]

-----------------------------------------------------------------------------
(* The controller.                                                         *)
SetIndex(new) ==
  /\ index' = new
  /\ ever' = [r \in Requests |-> ever[r] \union new]
  /\ always' = [r \in Requests |-> always[r] \intersect new]

ChangeIndex ==
  /\ controller /\ changes < MaxChanges /\ changes' = changes + 1
  /\ \E c \in Constraints : SetIndex(IF c \in index THEN index \ {c} ELSE index \union {c})
  /\ UNCHANGED <<controller, review, response, warnings, outages>>

ControllerCrashes ==
  /\ controller /\ outages < MaxOutages /\ outages' = outages + 1
  /\ controller' = FALSE /\ SetIndex({})
  /\ UNCHANGED <<review, response, warnings, changes>>

ControllerRestarts ==
  /\ ~controller /\ controller' = TRUE
  /\ UNCHANGED <<index, review, response, warnings, changes, outages, ever, always>>

-----------------------------------------------------------------------------
(* A request.                                                              *)
Proceed(r, step) == review' = [review EXCEPT ![r] = step]
Quiet == UNCHANGED <<index, controller, changes, outages, ever, always>>

(* The API server sends the AdmissionReview; Handle decodes it.            *)
Submit(r) ==
  /\ review[r] = "new" /\ Proceed(r, "query")
  /\ ever' = [ever EXCEPT ![r] = index] /\ always' = [always EXCEPT ![r] = index]
  /\ UNCHANGED <<index, controller, response, warnings, changes, outages>>

(* A review that does not decode is allowed, without warnings.             *)
DecodeFails(r) ==
  /\ review[r] = "query" /\ Proceed(r, "admitted")
  /\ UNCHANGED <<response, warnings>> /\ Quiet

(* Query sends its request.                                                *)
Query(r) ==
  /\ review[r] = "query" /\ Proceed(r, "asked")
  /\ UNCHANGED <<response, warnings>> /\ Quiet

(* ServeHTTP reads the index under its lock.                               *)
ServeHTTP_Cached(r) ==
  /\ review[r] = "asked" /\ controller /\ Proceed(r, "answered")
  /\ \E q \in Requests : \E cs \in {index, response[q]} \ {None} :
       response' = [response EXCEPT ![r] = cs]
  /\ UNCHANGED warnings /\ Quiet

ServeHTTP(r) ==
  /\ review[r] = "asked" /\ controller /\ Proceed(r, "answered")
  /\ response' = [response EXCEPT ![r] = index]
  /\ UNCHANGED warnings /\ Quiet

(* Query fails: the controller is down, or three seconds have passed.  The *)
(* request is allowed without warnings.                                    *)
QueryFails_Refused(r) ==
  /\ review[r] = "asked" /\ ~controller /\ Proceed(r, "admitted")
  /\ UNCHANGED <<response, warnings>> /\ Quiet

QueryFails(r) ==
  /\ review[r] \in {"asked", "answered"} /\ Proceed(r, "admitted")
  /\ UNCHANGED <<response, warnings>> /\ Quiet

(* buildWarnings and sendResponse.                                         *)
SendResponse_Partial(r) ==
  /\ review[r] = "answered" /\ Proceed(r, "admitted")
  /\ \E c \in response[r] \union {None} : warnings' = [warnings EXCEPT ![r] = response[r] \ {c}]
  /\ UNCHANGED response /\ Quiet

SendResponse(r) ==
  /\ review[r] = "answered" /\ Proceed(r, "admitted")
  /\ warnings' = [warnings EXCEPT ![r] = response[r]]
  /\ UNCHANGED response /\ Quiet

(* The webhook crashes; the API server ignores the failed call.            *)
WebhookCrashes ==
  /\ outages < MaxOutages /\ outages' = outages + 1
  /\ review' = [r \in Requests |-> IF review[r] \in {"query", "asked", "answered"} THEN "admitted" ELSE review[r]]
  /\ UNCHANGED <<index, controller, response, warnings, changes, ever, always>>

Handle(r) == DecodeFails(r) \/ Query(r) \/ ServeHTTP(r) \/ QueryFails(r) \/ SendResponse(r)

AdmissionNext ==
  \/ \E r \in Requests : Submit(r) \/ Handle(r)
  \/ ChangeIndex \/ ControllerCrashes \/ ControllerRestarts \/ WebhookCrashes

AdmissionSpec == AdmissionInit /\ [][AdmissionNext]_admissionVars

(* The webhook's goroutines run and its timers fire; the controller may be *)
(* arbitrarily slow or never come back.                                    *)
FairAdmissionSpec ==
  AdmissionSpec /\ \A r \in Requests : WF_admissionVars(Query(r) \/ QueryFails(r) \/ SendResponse(r))

-----------------------------------------------------------------------------
(* Properties.                                                             *)

(* Every request is admitted in the end, whether the controller answers,   *)
(* hangs or is gone and whether the webhook survives ("NEVER rejects").    *)
AlwaysAdmitted ==
  \A r \in Requests : review[r] = "query" ~> review[r] = "admitted"

(* A warning is about a constraint that was in the index at some time      *)
(* while the request was under way, never about one deleted before.        *)
WarningsCurrent == \A r \in Requests : warnings[r] \subseteq ever[r]

(* The warnings are not a random selection: when there are any, those      *)
(* constraints that were in the index all the while are among them.        *)
WarningsComplete ==
  \A r \in Requests : review[r] = "admitted" /\ warnings[r] # {} => always[r] \subseteq warnings[r]

=============================================================================
