------------------------------ MODULE Notifier ------------------------------
(***************************************************************************)
(* The dispatcher with its rate limiter (internal/notifier/dispatcher.go): *)
(* every call first takes a token of its namespace, duplicates included,   *)
(* and each tick of the cleanup routine sweeps the dedupe cache and then   *)
(* evicts idle limiters, two steps under two different mutexes.            *)
(***************************************************************************)
EXTENDS Dispatcher, NsRateLimiter

CONSTANT nsOf   \* the namespace of each place

ASSUME NotifierAssumption == nsOf \in [Places -> Namespaces]

VARIABLE sweeping   \* whether a cleanup tick has swept the cache and not yet evicted

notifierVars == <<vars, limiterVars, sweeping>>

NotifierTypeOK == TypeOK /\ LimiterTypeOK /\ sweeping \in BOOLEAN

NotifierInit == Init /\ LimiterInit /\ sweeping = FALSE

(* A call of Dispatch or DispatchDirect, up to the limiter's answer.       *)
CallAllowed(c, n) ==
  /\ Accept(c, n) /\ AllowGranted(nsOf[n.place])
  /\ UNCHANGED sweeping

CallRefused(c, n) ==
  /\ pc[c] = "idle" /\ AllowRefused(nsOf[n.place])
  /\ UNCHANGED <<vars, sweeping>>

Step(c) == DispatchStep(c) /\ UNCHANGED <<limiterVars, sweeping>>

SweepCache ==
  /\ ~sweeping /\ sweeping' = TRUE
  /\ Cleanup /\ UNCHANGED limiterVars

EvictLimiters ==
  /\ sweeping /\ sweeping' = FALSE
  /\ Evict /\ UNCHANGED vars

NotifierTick == Tick /\ LimiterTick /\ UNCHANGED sweeping

Observe(ns) == OpenWindow(ns) /\ UNCHANGED <<vars, sweeping>>

NotifierNext ==
  \/ \E c \in Callers :
       \/ \E n \in CorrelatedNotification : CallAllowed(c, n) \/ CallRefused(c, n)
       \/ Step(c)
  \/ SweepCache \/ EvictLimiters \/ NotifierTick
  \/ \E ns \in Namespaces : Observe(ns)

NotifierSpec == NotifierInit /\ [][NotifierNext]_notifierVars

=============================================================================
