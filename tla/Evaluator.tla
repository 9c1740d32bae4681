----------------------------- MODULE Evaluator -----------------------------
(***************************************************************************)
(* The requirements evaluator (internal/requirements/evaluator.go): one    *)
(* goroutine evaluates workloads and reports a companion resource as       *)
(* missing only once it has been found missing for the debounce duration.  *)
(* Another goroutine removes old debounce entries.                         *)
(*                                                                         *)
(* A key stands for a workload and a rule.  Evaluate reads the clock once; *)
(* then every rule answers or fails, and the debounce map is consulted     *)
(* (Debounce, under its mutex).  This module leaves the answers open, and  *)
(* which rules follow one another; Requirements has the rules and the      *)
(* cluster they look at, and implements it.                                *)
(***************************************************************************)
EXTENDS Integers

CONSTANTS
  Keys,        \* workloadUID:ruleName
  Duration,    \* debounce duration, in ticks
  MaxTime,     \* bound on the clock
  Never

ASSUME EvaluatorAssumption ==
  /\ Duration \in Nat \ {0} /\ MaxTime \in Nat
  /\ Never \notin Nat

Time == 0..MaxTime
Steps == {"idle", "rule", "missing", "present"}

VARIABLES
  now,
  firstSeen,     \* the debounce map
  pc, key,       \* where Evaluate is, and the rule it evaluates
  started,       \* the time Evaluate read
  told,          \* per key: whether the last evaluation reported it
  foundSince,    \* history: start of the oldest evaluation from which on every
                 \* one that had an answer found the resource missing
  forgotten      \* history: keys whose entry was cleaned up since then

evaluatorVars == <<now, firstSeen, pc, key, started, told, foundSince, forgotten>>

EvaluatorTypeOK ==
  /\ now \in Time /\ started \in Time
  /\ firstSeen \in [Keys -> Time \union {Never}]
  /\ pc \in Steps /\ key \in Keys
  /\ told \subseteq Keys
  /\ foundSince \in [Keys -> Time \union {Never}]
  /\ forgotten \subseteq Keys

EvaluatorInit ==
  /\ now = 0 /\ started = 0
  /\ firstSeen = [k \in Keys |-> Never]
  /\ pc = "idle" /\ key \in Keys
  /\ told = {}
  /\ foundSince = [k \in Keys |-> Never]
  /\ forgotten = {}

-----------------------------------------------------------------------------
Tick ==
  /\ now < MaxTime /\ now' = now + 1
  /\ UNCHANGED <<firstSeen, pc, key, started, told, foundSince, forgotten>>

-----------------------------------------------------------------------------
(* Evaluate.                                                               *)
StartEvaluate(k) ==
  /\ pc = "idle"
  /\ pc' = "rule" /\ key' = k /\ started' = now
  /\ UNCHANGED <<now, firstSeen, told, foundSince, forgotten>>

(* The loop goes on with another rule, at the time read at the start.      *)
NextRule(k) ==
  /\ pc = "idle"
  /\ pc' = "rule" /\ key' = k
  /\ UNCHANGED <<now, firstSeen, started, told, foundSince, forgotten>>

RuleEvaluate(answer) ==
  /\ pc = "rule"
  /\ pc' = answer
  /\ foundSince' = [foundSince EXCEPT ![key] =
                      IF answer = "present" THEN Never ELSE IF @ = Never THEN started ELSE @]
  /\ forgotten' = IF foundSince[key] = Never THEN forgotten \ {key} ELSE forgotten
  /\ UNCHANGED <<now, firstSeen, key, started, told>>

(* The rule returns an error: the debounce entry is left as it is.         *)
RuleFails ==
  /\ pc = "rule" /\ pc' = "idle"
  /\ told' = told \ {key}
  /\ UNCHANGED <<now, firstSeen, key, started, foundSince, forgotten>>

ClearDebounce_Kept ==
  /\ pc = "present" /\ pc' = "idle"
  /\ told' = told \ {key}
  /\ UNCHANGED <<now, firstSeen, key, started, foundSince, forgotten>>

ClearDebounce ==
  /\ pc = "present" /\ pc' = "idle"
  /\ firstSeen' = [firstSeen EXCEPT ![key] = Never]
  /\ told' = told \ {key}
  /\ UNCHANGED <<now, key, started, foundSince, forgotten>>

Debounce ==
  /\ pc = "missing" /\ pc' = "idle"
  /\ firstSeen' = [firstSeen EXCEPT ![key] = IF @ = Never THEN started ELSE @]
  /\ told' = IF started - firstSeen'[key] >= Duration THEN told \union {key} ELSE told \ {key}
  /\ UNCHANGED <<now, key, started, foundSince, forgotten>>

(* CleanupStaleEntries, called by the ticker of StartCleanup.              *)
Stale(k) == firstSeen[k] # Never /\ now - firstSeen[k] > 2 * Duration

CleanupStaleEntries ==
  /\ \E k \in Keys : Stale(k)
  /\ firstSeen' = [k \in Keys |-> IF Stale(k) THEN Never ELSE firstSeen[k]]
  /\ forgotten' = forgotten \union {k \in Keys : Stale(k)}
  /\ UNCHANGED <<now, pc, key, started, told, foundSince>>

EvaluatorNext ==
  \/ \E k \in Keys : StartEvaluate(k) \/ NextRule(k)
  \/ \E answer \in {"missing", "present"} : RuleEvaluate(answer)
  \/ RuleFails \/ ClearDebounce \/ Debounce
  \/ CleanupStaleEntries \/ Tick

EvaluatorSpec == EvaluatorInit /\ [][EvaluatorNext]_evaluatorVars

-----------------------------------------------------------------------------
(* Properties.                                                             *)

(* A reported resource was found missing by an evaluation at least the     *)
(* debounce duration before, and by every one that could tell since.  And  *)
(* Evaluate withholds a finding only while it is younger than that, or     *)
(* after CleanupStaleEntries removed its entry, more than twice that old,  *)
(* although the resource was still missing.                                *)
DebounceExact ==
  [][\A k \in Keys :
       /\ k \in told' \ told => foundSince[k] # Never /\ started - foundSince[k] >= Duration
       /\ pc = "missing" /\ pc' = "idle" /\ key = k /\ k \notin told' =>
            started - foundSince[k] < Duration \/ k \in forgotten]_evaluatorVars

=============================================================================
