--------------------------- MODULE NsRateLimiter ---------------------------
(***************************************************************************)
(* The per-namespace rate limiter of the notification dispatcher           *)
(* (internal/notifier/dispatcher.go, type nsRateLimiter).                  *)
(*                                                                         *)
(* Every namespace has a token bucket, made on the first call for that     *)
(* namespace and evicted by the dispatcher's cleanup routine once the      *)
(* namespace has been idle for longer than EvictAge.  The bucket of        *)
(* golang.org/x/time/rate is external code; it is modelled by what Allow   *)
(* does with it: tokens accrue lazily, up to the burst, and a refused call *)
(* changes neither the tokens nor the time of the last grant.              *)
(*                                                                         *)
(* Tokens are counted in fractional units so that the arithmetic stays in  *)
(* the integers: one call costs Cost units and a tick of the clock brings  *)
(* Rate units (the code's perMinute/60 tokens a second).                   *)
(***************************************************************************)
EXTENDS Clock

CONSTANTS
  Namespaces,   \* the namespaces notifications are sent to
  Rate,         \* units accrued in one tick
  Cost,         \* units one call takes
  PerMinute,    \* RateLimitPerMinute
  Minute,       \* ticks in one minute
  EvictAge,     \* idle ticks after which Evict drops a limiter (one hour)
  NoLimiter     \* the absence of a limiter in the map

ASSUME LimiterAssumption ==
  /\ Rate \in Nat \ {0} /\ Cost \in Nat \ {0}
  /\ PerMinute \in Nat \ {0} /\ Minute \in Nat \ {0}
  /\ EvictAge \in Nat /\ MaxTime \in Nat

Max2(a, b) == IF a >= b THEN a ELSE b
Min2(a, b) == IF a <= b THEN a ELSE b

(* newNsRateLimiter: 10% burst, at least one call.                         *)
Burst == Max2(1, PerMinute \div 10)
Cap == Burst * Cost

(* The rate the constructor asks for, spelled in units and ticks, and the  *)
(* reason eviction is harmless: an idle bucket is full before it is        *)
(* evicted (100/60 tokens a second for an hour against a burst of 10).     *)
ASSUME RateAssumption == Rate * Minute = PerMinute * Cost
ASSUME EvictAssumption == Rate * EvictAge >= Cap

Limiter == [tokens : 0..Cap, last : 0..MaxTime]

ASSUME NoLimiterAssumption == NoLimiter \notin Limiter

VARIABLES
  limiters,     \* the map from namespace to bucket
  lastAccess,   \* when Allow was last called for a namespace
  windowStart,  \* history: start of an arbitrary observation window
  admitted      \* history: calls admitted since windowStart

limiterVars == <<now, limiters, lastAccess, windowStart, admitted>>

LimiterTypeOK ==
  /\ now \in 0..MaxTime
  /\ limiters \in [Namespaces -> Limiter \union {NoLimiter}]
  /\ lastAccess \in [Namespaces -> 0..MaxTime]
  /\ windowStart \in [Namespaces -> 0..MaxTime]
  /\ admitted \in [Namespaces -> Nat]

LimiterInit ==
  /\ now = 0
  /\ limiters = [ns \in Namespaces |-> NoLimiter]
  /\ lastAccess = [ns \in Namespaces |-> 0]
  /\ windowStart = [ns \in Namespaces |-> 0]
  /\ admitted = [ns \in Namespaces |-> 0]

(* What the bucket holds now: the tokens left at the last grant plus what  *)
(* accrued since, never more than the burst.                               *)
Available(lim) == Min2(Cap, lim.tokens + (now - lim.last) * Rate)

NewLimiter == [tokens |-> Cap, last |-> now]

LimiterOf(ns) == IF limiters[ns] = NoLimiter THEN NewLimiter ELSE limiters[ns]

(* Allow(ns) that returns true.                                            *)
AllowGranted(ns) ==
  /\ Available(LimiterOf(ns)) >= Cost
  /\ limiters' = [limiters EXCEPT ![ns] =
       [tokens |-> Available(LimiterOf(ns)) - Cost, last |-> now]]
  /\ lastAccess' = [lastAccess EXCEPT ![ns] = now]
  /\ admitted' = [admitted EXCEPT ![ns] = @ + 1]
  /\ UNCHANGED <<now, windowStart>>

(* Allow(ns) that returns false: the limiter is in the map from now on and *)
(* was accessed, but its bucket is as it was.                              *)
AllowRefused(ns) ==
  /\ Available(LimiterOf(ns)) < Cost
  /\ limiters' = [limiters EXCEPT ![ns] = LimiterOf(ns)]
  /\ lastAccess' = [lastAccess EXCEPT ![ns] = now]
  /\ UNCHANGED <<now, windowStart, admitted>>

(* A cleanup that looks at no age at all.                                  *)
Stale_IgnoresAge(ns) == limiters[ns] # NoLimiter

Stale(ns) == limiters[ns] # NoLimiter /\ lastAccess[ns] < now - EvictAge

(* Evict(maxAge), called by the cleanup routine at any time: drop every    *)
(* limiter that was not accessed for longer than maxAge.                   *)
Evict ==
  /\ limiters' = [ns \in Namespaces |-> IF Stale(ns) THEN NoLimiter ELSE limiters[ns]]
  /\ UNCHANGED <<now, lastAccess, windowStart, admitted>>

LimiterTick ==
  /\ Advance
  /\ UNCHANGED <<limiters, lastAccess, windowStart, admitted>>

(* History only: an observer starts counting at an arbitrary moment.       *)
OpenWindow(ns) ==
  /\ windowStart' = [windowStart EXCEPT ![ns] = now]
  /\ admitted' = [admitted EXCEPT ![ns] = 0]
  /\ UNCHANGED <<now, limiters, lastAccess>>

LimiterNext ==
  \/ \E ns \in Namespaces :
       AllowGranted(ns) \/ AllowRefused(ns) \/ OpenWindow(ns)
  \/ Evict
  \/ LimiterTick

LimiterSpec == LimiterInit /\ [][LimiterNext]_limiterVars

-----------------------------------------------------------------------------
(* In no window, wherever it starts and however long it is, does a         *)
(* namespace get more than the burst plus what the rate brings in that     *)
(* time, although limiters come and go from the map (nsRateLimiter.Allow   *)
(* racing nsRateLimiter.Evict).                                            *)
WindowBound ==
  \A ns \in Namespaces :
    admitted[ns] * Cost <= Cap + (now - windowStart[ns]) * Rate

===========================================================================
