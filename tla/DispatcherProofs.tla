-------------------------- MODULE DispatcherProofs --------------------------
(***************************************************************************)
(* Proofs about Dispatcher: for any number of callers, constraints and     *)
(* workloads and any window, a pair is announced at most once per window.  *)
(*                                                                         *)
(* OncePerWindow speaks of created Events only.  Between the mark and the  *)
(* create request a caller carries a mark that no Event shows yet, so the  *)
(* inductive invariant speaks of both, and says why the cache knows every  *)
(* mark that still matters: an entry is overwritten only by a later mark   *)
(* and removed only when it is older than the window.                      *)
(***************************************************************************)
EXTENDS Dispatcher, TLAPS

(* A mark t of pair k is remembered, or is a window old.                   *)
Remembered(k, t) ==
  /\ t <= now
  /\ \/ dedupeCache[k] # Never /\ t <= dedupeCache[k]
     \/ now - t >= Window

Apart(s, t) == s - t >= Window \/ t - s >= Window

CacheNotAhead ==
  \A k \in dedupeKey : dedupeCache[k] # Never => dedupeCache[k] <= now

EventsRemembered ==
  \A e \in events : Remembered(Key(e.n), e.markedAt)

CallersRemembered ==
  \A c \in Callers : pc[c] = "create" => Remembered(Key(request[c]), markedAt[c])

CallersApart ==
  \A c, d \in Callers :
    /\ c # d
    /\ pc[c] = "create" /\ pc[d] = "create"
    /\ Key(request[c]) = Key(request[d])
    => Apart(markedAt[c], markedAt[d])

CallersApartFromEvents ==
  \A c \in Callers, e \in events :
    pc[c] = "create" /\ Key(request[c]) = Key(e.n) => Apart(markedAt[c], e.markedAt)

IInv ==
  /\ TypeOK
  /\ CacheNotAhead
  /\ EventsRemembered
  /\ CallersRemembered
  /\ CallersApart
  /\ CallersApartFromEvents
  /\ OncePerWindow

LEMMA KeyType ==
  ASSUME NEW n \in CorrelatedNotification
  PROVE  Key(n) \in dedupeKey
BY DEF CorrelatedNotification, Key, dedupeKey

LEMMA TypePreserved == TypeOK /\ [Next]_vars => TypeOK'
<1> SUFFICES ASSUME TypeOK, [Next]_vars PROVE TypeOK'
  OBVIOUS
<1> USE DispatcherAssumption DEF TypeOK, Time
<1>1. ASSUME NEW c \in Callers, NEW n \in CorrelatedNotification, Accept(c, n)
      PROVE  TypeOK'
  BY <1>1 DEF Accept
<1>2. ASSUME NEW c \in Callers, MarkSeen(c) PROVE TypeOK'
  BY <1>2, KeyType DEF MarkSeen
<1>3. ASSUME NEW c \in Callers, Suppress(c) PROVE TypeOK'
  BY <1>3 DEF Suppress
<1>4. ASSUME NEW c \in Callers, CreateEvent(c) PROVE TypeOK'
  BY <1>4 DEF CreateEvent, Event
<1>5. ASSUME NEW c \in Callers, CreateFails(c) PROVE TypeOK'
  BY <1>5, KeyType DEF CreateFails
<1>6. CASE Cleanup
  BY <1>6 DEF Cleanup
<1>7. CASE Tick
  BY <1>7 DEF Tick, Advance
<1>8. CASE UNCHANGED vars
  BY <1>8 DEF vars
<1> QED
  BY <1>1, <1>2, <1>3, <1>4, <1>5, <1>6, <1>7, <1>8 DEF Next, DispatchStep

(* Steps that move no mark: the cache, the Events and the clock stay, and  *)
(* no caller newly holds a mark.                                           *)
LEMMA QuietStep ==
  ASSUME IInv, TypeOK',
         UNCHANGED <<now, dedupeCache, markedAt, events>>,
         \A c \in Callers : pc'[c] = "create" => pc[c] = "create" /\ request'[c] = request[c]
  PROVE  IInv'
<1>1. CacheNotAhead' /\ EventsRemembered' /\ OncePerWindow'
  BY DEF IInv, CacheNotAhead, EventsRemembered, OncePerWindow, Remembered
<1>2. CallersRemembered'
  BY DEF IInv, CallersRemembered, Remembered
<1>3. CallersApart' /\ CallersApartFromEvents'
  BY DEF IInv, CallersApart, CallersApartFromEvents, Apart
<1> QED
  BY <1>1, <1>2, <1>3 DEF IInv

(* tryMarkSeen lets a call pass only when every earlier mark of the pair   *)
(* is a window old.                                                        *)
LEMMA MarkSeenPreserves ==
  ASSUME IInv, TypeOK', NEW c \in Callers, MarkSeen(c)
  PROVE  IInv'
<1> DEFINE k == Key(request[c])
<1> USE DispatcherAssumption
<1>1. k \in dedupeKey /\ now \in Nat /\ dedupeCache \in [dedupeKey -> Time \union {Never}]
  BY KeyType DEF IInv, TypeOK, Time
<1>2. /\ dedupeCache' = [dedupeCache EXCEPT ![k] = now]
      /\ markedAt' = [markedAt EXCEPT ![c] = now]
      /\ pc' = [pc EXCEPT ![c] = "create"]
      /\ pc[c] = "dedupe"
      /\ UNCHANGED <<now, request, events, failures>>
  BY DEF MarkSeen
<1>3. ASSUME NEW t \in Nat, Remembered(k, t)
      PROVE  now - t >= Window
  <2>1. dedupeCache[k] = Never \/ now - dedupeCache[k] >= Window
    BY <1>1 DEF MarkSeen, RecentlySeen, Time
  <2>2. dedupeCache[k] # Never => dedupeCache[k] \in Nat
    BY <1>1 DEF Time
  <2> QED
    BY <1>1, <1>3, <2>1, <2>2 DEF Remembered
<1>4. ASSUME NEW q \in dedupeKey, NEW t \in Nat, Remembered(q, t)
      PROVE  Remembered(q, t)'
  <2>1. CASE q = k
    BY <1>1, <1>2, <1>4, <2>1 DEF Remembered
  <2>2. CASE q # k
    BY <1>1, <1>2, <1>4, <2>2 DEF Remembered
  <2> QED
    BY <2>1, <2>2
<1>5. CacheNotAhead'
  BY <1>1, <1>2 DEF IInv, CacheNotAhead
<1>6. EventsRemembered'
  <2> SUFFICES ASSUME NEW e \in events PROVE Remembered(Key(e.n), e.markedAt)'
    BY <1>2 DEF EventsRemembered
  <2>1. Key(e.n) \in dedupeKey /\ e.markedAt \in Nat
    BY KeyType DEF IInv, TypeOK, Event, Time
  <2>2. Remembered(Key(e.n), e.markedAt)
    BY DEF IInv, EventsRemembered
  <2> QED
    BY <1>4, <2>1, <2>2
<1>7. CallersRemembered'
  <2> SUFFICES ASSUME NEW d \in Callers, pc'[d] = "create"
               PROVE  Remembered(Key(request[d]), markedAt[d])'
    BY DEF CallersRemembered
  <2>1. CASE d = c
    BY <1>1, <1>2, <2>1 DEF Remembered, IInv, TypeOK
  <2>2. CASE d # c
    <3>1. pc[d] = "create" /\ markedAt'[d] = markedAt[d] /\ markedAt[d] \in Nat
      BY <1>2, <2>2 DEF IInv, TypeOK, Time
    <3>2. Remembered(Key(request[d]), markedAt[d])
      BY <3>1 DEF IInv, CallersRemembered
    <3>3. Key(request[d]) \in dedupeKey
      BY KeyType DEF IInv, TypeOK
    <3>4. Remembered(Key(request[d]), markedAt[d])'
          <=> /\ markedAt'[d] <= now'
              /\ \/ dedupeCache'[Key(request'[d])] # Never
                    /\ markedAt'[d] <= dedupeCache'[Key(request'[d])]
                 \/ now' - markedAt'[d] >= Window
      BY DEF Remembered, Key
    <3>5. \A t \in Nat : Remembered(Key(request[d]), t) =>
            /\ t <= now'
            /\ \/ dedupeCache'[Key(request[d])] # Never /\ t <= dedupeCache'[Key(request[d])]
               \/ now' - t >= Window
      BY <1>1, <1>2, <3>3, <1>4 DEF Remembered, Key
    <3> QED
      BY <1>2, <3>1, <3>2, <3>4, <3>5
  <2> QED
    BY <2>1, <2>2
<1>8. CallersApart'
  <2> SUFFICES ASSUME NEW a \in Callers, NEW b \in Callers, a # b,
                      pc'[a] = "create", pc'[b] = "create",
                      Key(request[a]) = Key(request[b])
               PROVE  Apart(markedAt'[a], markedAt'[b])
    BY <1>2 DEF CallersApart, Apart
  <2>1. ASSUME NEW d \in Callers, d # c, pc'[d] = "create", Key(request[d]) = k
        PROVE  now - markedAt[d] >= Window /\ markedAt'[d] = markedAt[d] /\ pc[d] = "create"
    BY <1>2, <1>3, <2>1 DEF IInv, TypeOK, Time, CallersRemembered
  <2>2. markedAt'[c] = now
    BY <1>2 DEF IInv, TypeOK
  <2>3. CASE a = c
    BY <2>1, <2>2, <2>3 DEF Apart
  <2>4. CASE b = c
    BY <2>1, <2>2, <2>4 DEF Apart
  <2>5. CASE a # c /\ b # c
    BY <1>2, <2>5 DEF IInv, TypeOK, CallersApart
  <2> QED
    BY <2>3, <2>4, <2>5
<1>9. CallersApartFromEvents'
  <2> SUFFICES ASSUME NEW d \in Callers, NEW e \in events, pc'[d] = "create",
                      Key(request[d]) = Key(e.n)
               PROVE  Apart(markedAt'[d], e.markedAt)
    BY <1>2 DEF CallersApartFromEvents, Apart
  <2>1. CASE d = c
    <3>1. Remembered(k, e.markedAt) /\ e.markedAt \in Nat
      BY <2>1 DEF IInv, EventsRemembered, TypeOK, Event, Time
    <3>2. now - e.markedAt >= Window
      BY <1>3, <3>1
    <3> QED
      BY <1>2, <2>1, <3>2 DEF Apart, IInv, TypeOK
  <2>2. CASE d # c
    BY <1>2, <2>2 DEF IInv, TypeOK, CallersApartFromEvents
  <2> QED
    BY <2>1, <2>2
<1>10. OncePerWindow'
  BY <1>2 DEF IInv, OncePerWindow
<1> QED
  BY <1>5, <1>6, <1>7, <1>8, <1>9, <1>10 DEF IInv


(* A created Event takes over the mark of its caller.                      *)
LEMMA CreateEventPreserves ==
  ASSUME IInv, TypeOK', NEW c \in Callers, CreateEvent(c)
  PROVE  IInv'
<1> DEFINE new == [n |-> request[c], by |-> c, markedAt |-> markedAt[c]]
<1> USE DispatcherAssumption
<1>1. /\ pc[c] = "create"
      /\ events' = events \union {new}
      /\ pc' = [pc EXCEPT ![c] = "idle"]
      /\ UNCHANGED <<now, dedupeCache, request, markedAt, failures>>
  BY DEF CreateEvent
<1>2. CacheNotAhead' /\ CallersRemembered' /\ CallersApart'
  BY <1>1 DEF IInv, TypeOK, CacheNotAhead, CallersRemembered, CallersApart, Remembered, Apart
<1>3. EventsRemembered'
  BY <1>1 DEF IInv, EventsRemembered, CallersRemembered, Remembered
<1>4. CallersApartFromEvents'
  <2> SUFFICES ASSUME NEW d \in Callers, NEW e \in events', pc'[d] = "create",
                      Key(request[d]) = Key(e.n)
               PROVE  Apart(markedAt[d], e.markedAt)
    BY <1>1 DEF CallersApartFromEvents, Apart
  <2>1. d # c /\ pc[d] = "create"
    BY <1>1 DEF IInv, TypeOK
  <2>2. CASE e = new
    BY <1>1, <2>1, <2>2 DEF IInv, CallersApart
  <2>3. CASE e \in events
    BY <2>1, <2>3 DEF IInv, CallersApartFromEvents
  <2> QED
    BY <1>1, <2>2, <2>3
<1>5. OncePerWindow'
  <2> SUFFICES ASSUME NEW e \in events', NEW f \in events', e # f, Key(e.n) = Key(f.n)
               PROVE  Apart(e.markedAt, f.markedAt)
    BY DEF OncePerWindow, Apart
  <2>1. ASSUME NEW g \in events, Key(new.n) = Key(g.n)
        PROVE  Apart(new.markedAt, g.markedAt) /\ Apart(g.markedAt, new.markedAt)
    BY <1>1, <2>1 DEF IInv, CallersApartFromEvents, Apart
  <2>2. CASE e = new
    BY <1>1, <2>1, <2>2
  <2>3. CASE f = new
    BY <1>1, <2>1, <2>3
  <2>4. CASE e \in events /\ f \in events
    BY <2>4 DEF IInv, OncePerWindow, Apart
  <2> QED
    BY <1>1, <2>2, <2>3, <2>4
<1> QED
  BY <1>2, <1>3, <1>4, <1>5 DEF IInv

(* Removing entries that are older than the window, and the passing of     *)
(* time, forget no mark that matters.                                      *)
LEMMA ForgetPreserves ==
  ASSUME IInv, TypeOK', Cleanup \/ Tick
  PROVE  IInv'
<1> USE DispatcherAssumption
<1>1. UNCHANGED <<pc, request, markedAt, events>>
  BY DEF Cleanup, Tick
<1>2. ASSUME NEW k \in dedupeKey, NEW t \in Nat, Remembered(k, t)
      PROVE  /\ t <= now'
             /\ \/ dedupeCache'[k] # Never /\ t <= dedupeCache'[k]
                \/ now' - t >= Window
  <2>1. now \in Nat /\ dedupeCache[k] \in Nat \union {Never}
    BY DEF IInv, TypeOK, Time
  <2>2. CASE Tick
    BY <1>2, <2>1, <2>2 DEF Tick, Advance, Remembered
  <2>3. CASE Cleanup
    <3>1. CASE Expired(k)
      BY <1>2, <2>1, <2>3, <3>1 DEF Cleanup, Remembered, Expired
    <3>2. CASE ~Expired(k)
      BY <1>2, <2>1, <2>3, <3>2 DEF Cleanup, Remembered
    <3> QED
      BY <3>1, <3>2
  <2> QED
    BY <2>2, <2>3
<1>3. CacheNotAhead'
  <2> SUFFICES ASSUME NEW k \in dedupeKey, dedupeCache'[k] # Never
               PROVE  dedupeCache'[k] <= now'
    BY DEF CacheNotAhead
  <2>1. dedupeCache'[k] = dedupeCache[k] /\ now' >= now
    BY DEF Cleanup, Tick, Advance, IInv, TypeOK, Time
  <2> QED
    BY <2>1 DEF IInv, CacheNotAhead, TypeOK, Time, Tick, Advance, Cleanup
<1>4. EventsRemembered'
  <2> SUFFICES ASSUME NEW e \in events PROVE Remembered(Key(e.n), e.markedAt)'
    BY <1>1 DEF EventsRemembered
  <2>1. Key(e.n) \in dedupeKey /\ e.markedAt \in Nat
    BY KeyType DEF IInv, TypeOK, Event, Time
  <2> QED
    BY <1>2, <2>1 DEF IInv, EventsRemembered, Remembered
<1>5. CallersRemembered'
  <2> SUFFICES ASSUME NEW c \in Callers, pc[c] = "create"
               PROVE  /\ markedAt[c] <= now'
                      /\ \/ /\ dedupeCache'[Key(request[c])] # Never
                            /\ markedAt[c] <= dedupeCache'[Key(request[c])]
                         \/ now' - markedAt[c] >= Window
    BY <1>1 DEF CallersRemembered, Remembered, Key
  <2>1. Key(request[c]) \in dedupeKey /\ markedAt[c] \in Nat
    BY KeyType DEF IInv, TypeOK, Time
  <2> QED
    BY <1>2, <2>1 DEF IInv, CallersRemembered
<1>6. CallersApart' /\ CallersApartFromEvents' /\ OncePerWindow'
  BY <1>1 DEF IInv, CallersApart, CallersApartFromEvents, OncePerWindow, Apart
<1> QED
  BY <1>3, <1>4, <1>5, <1>6 DEF IInv

LEMMA DispatchInvariant == Spec => []IInv
<1>1. Init => IInv
  BY DispatcherAssumption DEF Init, IInv, TypeOK, Time, CacheNotAhead, EventsRemembered,
     CallersRemembered, CallersApart, CallersApartFromEvents, OncePerWindow
<1>2. IInv /\ [Next]_vars => IInv'
  <2> SUFFICES ASSUME IInv, [Next]_vars PROVE IInv'
    OBVIOUS
  <2>0. TypeOK'
    BY TypePreserved DEF IInv
  <2>1. ASSUME NEW c \in Callers, NEW n \in CorrelatedNotification, Accept(c, n)
        PROVE  IInv'
    BY <2>0, <2>1, QuietStep DEF Accept, IInv, TypeOK
  <2>2. ASSUME NEW c \in Callers, MarkSeen(c) PROVE IInv'
    BY <2>0, <2>2, MarkSeenPreserves
  <2>3. ASSUME NEW c \in Callers, Suppress(c) PROVE IInv'
    BY <2>0, <2>3, QuietStep DEF Suppress, IInv, TypeOK
  <2>4. ASSUME NEW c \in Callers, CreateEvent(c) PROVE IInv'
    BY <2>0, <2>4, CreateEventPreserves
  <2>5. ASSUME NEW c \in Callers, CreateFails(c) PROVE IInv'
    BY <2>0, <2>5, QuietStep DEF CreateFails, IInv, TypeOK
  <2>6. CASE Cleanup \/ Tick
    BY <2>0, <2>6, ForgetPreserves
  <2>7. CASE UNCHANGED vars
    BY <2>0, <2>7, QuietStep DEF vars
  <2> QED
    BY <2>1, <2>2, <2>3, <2>4, <2>5, <2>6, <2>7 DEF Next, DispatchStep
<1> QED
  BY <1>1, <1>2, PTL DEF Spec

(* In every reachable state the types hold and two Events of one pair are  *)
(* a suppression window apart: what tryMarkSeen and cleanupDedupeCache     *)
(* are there for, whatever callers race and whatever requests fail.        *)
THEOREM DispatchedOncePerWindow == Spec => [](TypeOK /\ OncePerWindow)
<1>1. IInv => TypeOK /\ OncePerWindow
  BY DEF IInv
<1> QED
  BY <1>1, DispatchInvariant, PTL

(* Every step that takes a mark from a caller leaves an Event or a failure *)
(* in its place.                                                           *)
LEMMA MarksStep == TypeOK /\ MarksExplained /\ [Next]_vars => MarksExplained'
<1> SUFFICES ASSUME TypeOK, MarksExplained, [Next]_vars,
                    NEW k \in dedupeKey, dedupeCache'[k] # Never
             PROVE  \/ \E e \in events' : Key(e.n) = k /\ e.markedAt = dedupeCache'[k]
                    \/ \E c \in Callers : /\ pc'[c] = "create" /\ Key(request'[c]) = k
                                          /\ markedAt'[c] = dedupeCache'[k]
                    \/ <<k, dedupeCache'[k]>> \in failures'
  BY DEF MarksExplained, Key
<1> USE DEF TypeOK, MarksExplained
<1> DEFINE Goal == \/ \E e \in events' : Key(e.n) = k /\ e.markedAt = dedupeCache'[k]
                   \/ \E c \in Callers : /\ pc'[c] = "create" /\ Key(request'[c]) = k
                                         /\ markedAt'[c] = dedupeCache'[k]
                   \/ <<k, dedupeCache'[k]>> \in failures'
<1>1. ASSUME NEW c \in Callers, NEW n \in CorrelatedNotification, Accept(c, n)
      PROVE  Goal
  BY <1>1 DEF Accept
<1>2. ASSUME NEW c \in Callers, MarkSeen(c) PROVE Goal
  <2>1. CASE k = Key(request[c])
    BY <1>2, <2>1 DEF MarkSeen
  <2>2. CASE k # Key(request[c])
    BY <1>2, <2>2 DEF MarkSeen
  <2> QED
    BY <2>1, <2>2
<1>3. ASSUME NEW c \in Callers, Suppress(c) PROVE Goal
  BY <1>3 DEF Suppress
<1>4. ASSUME NEW c \in Callers, CreateEvent(c) PROVE Goal
  <2> DEFINE mine == [n |-> request[c], by |-> c, markedAt |-> markedAt[c]]
  <2>1. mine \in events' /\ events \subseteq events'
    BY <1>4 DEF CreateEvent
  <2>2. mine.n = request[c] /\ mine.markedAt = markedAt[c]
    OBVIOUS
  <2>3. /\ dedupeCache' = dedupeCache /\ request' = request /\ markedAt' = markedAt
        /\ failures' = failures
        /\ \A d \in Callers : d # c => pc'[d] = pc[d]
    BY <1>4 DEF CreateEvent
  <2> HIDE DEF mine
  <2>4. CASE Key(request[c]) = k /\ markedAt[c] = dedupeCache[k]
    BY <2>1, <2>2, <2>3, <2>4
  <2>5. CASE ~(Key(request[c]) = k /\ markedAt[c] = dedupeCache[k])
    BY <2>1, <2>3, <2>5
  <2> QED
    BY <2>4, <2>5
<1>5. ASSUME NEW c \in Callers, CreateFails(c) PROVE Goal
  BY <1>5 DEF CreateFails
<1>6. CASE Cleanup \/ Tick \/ UNCHANGED vars
  BY <1>6 DEF Cleanup, Tick, vars
<1> QED
  BY <1>1, <1>2, <1>3, <1>4, <1>5, <1>6 DEF Next, DispatchStep

(* No pair is silent without a reason: every mark that tryMarkSeen goes by *)
(* is that of an Event, of a call about to create one or of a failed one.  *)
THEOREM SilenceExplained == Spec => []MarksExplained
<1>1. Init => MarksExplained
  BY DEF Init, MarksExplained
<1>2. Spec => []TypeOK
  BY DispatchedOncePerWindow, PTL
<1> QED
  BY <1>1, <1>2, MarksStep, PTL DEF Spec

=============================================================================
