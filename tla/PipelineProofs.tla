--------------------------- MODULE PipelineProofs ---------------------------
(***************************************************************************)
(* Proofs about the pipeline from a Warning event to the Events of         *)
(* Nightjar, which come back as Warning events.  It implements the         *)
(* correlator and the dispatcher, and the echo is bounded.  At the end,    *)
(* the Hubble client, the correlator's other source.                       *)
(*                                                                         *)
(* The dispatcher is given what the correlator sends, and the correlator   *)
(* what the dispatcher creates, so each part keeps its types only because  *)
(* the other one does.                                                     *)
(***************************************************************************)
EXTENDS Pipeline, HubbleClient, CorrelatorProofs, FiniteSetTheorems

DP == INSTANCE DispatcherProofs WITH Callers <- {Loop}, Window <- SuppressWindow

Joined == Typed /\ D!TypeOK

LEMMA OwnFinite ==
  ASSUME NEW p
  PROVE  IsFiniteSet(OwnOf(p)) /\ Cardinality(OwnOf(p)) \in Nat
<1>0. MaxOwn \in Int /\ 1 \in Int
  BY PipelineAssumption
<1>1. IsFiniteSet({p}) /\ IsFiniteSet(1..MaxOwn)
  <2>1. IsFiniteSet({p})
    BY FS_Singleton, Zenon
  <2>2. IsFiniteSet(1..MaxOwn)
    BY <1>0, FS_Interval, Zenon
  <2> QED
    BY <2>1, <2>2, Zenon
<1>2. IsFiniteSet({p} \X (1..MaxOwn))
  BY <1>1, FS_Product, Zenon
<1>3. OwnOf(p) \subseteq {p} \X (1..MaxOwn)
  BY PipelineAssumption, Zenon DEF OwnOf, Own
<1>4. IsFiniteSet(OwnOf(p))
  BY <1>2, <1>3, FS_Subset, Zenon
<1> QED
  BY <1>4, FS_CardinalityType, Zenon

(* The Event the dispatcher creates is a Warning event of the cluster.     *)
LEMMA CreateEventIs ==
  ASSUME D!TypeOK, CreateEvent
  PROVE  /\ request[Loop].place \in Places /\ request[Loop].uid \in Uids
         /\ \/ /\ request[Loop].uid \in Loud
               /\ <<request[Loop].place, Cardinality(OwnOf(request[Loop].place)) + 1>> \in Own
               /\ CreateWarning(<<request[Loop].place, Cardinality(OwnOf(request[Loop].place)) + 1>>)
            \/ request[Loop].uid \notin Loud /\ UNCHANGED vars
<1>1. request[Loop].place \in Places /\ request[Loop].uid \in Uids
  BY Zenon DEF D!TypeOK, D!CorrelatedNotification
<1>2. CASE request[Loop].uid \in Loud
  <2> DEFINE c == Cardinality(OwnOf(request[Loop].place))
  <2>1. c \in Nat
    BY OwnFinite, Zenon
  <2>2. c < MaxOwn /\ CreateWarning(<<request[Loop].place, c + 1>>)
    BY <1>2, Zenon DEF CreateEvent, eventType
  <2>3. c + 1 \in 1..MaxOwn
    BY <2>1, <2>2, PipelineAssumption
  <2> QED
    BY <1>1, <1>2, <2>2, <2>3, Zenon DEF Own
<1>3. CASE request[Loop].uid \notin Loud
  BY <1>1, <1>3, Zenon DEF CreateEvent, eventType
<1> QED
  BY <1>2, <1>3, Zenon

LEMMA CorrelatorStepOf == D!TypeOK /\ [NextPipeline]_allVars => [Next]_vars
<1> SUFFICES ASSUME D!TypeOK, [NextPipeline]_allVars PROVE [Next]_vars
  BY Zenon
<1>1. CASE CorrelatorStep
  <2>1. External \subseteq Warnings
    BY PipelineAssumption, Zenon
  <2> QED
    BY <1>1, <2>1, Zenon DEF CorrelatorStep, Next, Environment, Goroutines
<1>2. CASE ReceiveNotification
  BY <1>2, Zenon DEF ReceiveNotification, Next, Goroutines
<1>3. CASE DispatcherStep \/ CleanupDispatcher
  BY <1>3, Zenon DEF DispatcherStep, CleanupDispatcher
<1>4. CASE CreateEvent
  <2>1. Own \subseteq Warnings
    BY PipelineAssumption, Zenon
  <2> QED
    BY <1>4, <2>1, CreateEventIs, Zenon DEF Next, Environment
<1>5. CASE PipelineTick
  BY <1>5, Zenon DEF PipelineTick, Next, Environment
<1>6. CASE UNCHANGED allVars
  BY <1>6, Zenon DEF allVars
<1> QED
  BY <1>1, <1>2, <1>3, <1>4, <1>5, <1>6, Zenon DEF NextPipeline

(* What the loop receives is a notification about a workload.              *)
LEMMA CorrelatedType ==
  ASSUME Typed, channel["watch"] # <<>>
  PROVE  Correlated(Head(channel["watch"])) \in D!CorrelatedNotification
<1>1. Head(channel["watch"]) \in [of : Warnings, uid : Uids]
  <2>1. \A S : \A q \in Seq(S) : q # <<>> => Head(q) \in S
    OBVIOUS
  <2>2. channel["watch"] \in Seq([of : Warnings, uid : Uids])
    BY Zenon DEF Typed, ByWatch
  <2> QED
    BY <2>1, <2>2, Zenon
<1> QED
  BY <1>1, PipelineAssumption, Zenon DEF Correlated, D!CorrelatedNotification

LEMMA DispatcherStepOf == Typed /\ [NextPipeline]_allVars => [D!Next]_(D!vars)
<1> SUFFICES ASSUME Typed, [NextPipeline]_allVars PROVE [D!Next]_(D!vars)
  BY Zenon
<1>1. CASE CorrelatorStep
  <2>1. UNCHANGED dispatch /\ now' = now
    BY <1>1, Zenon DEF CorrelatorStep, CreateWarning, ModifyWarning, ObserveDrop, WatchCloses, Cancel,
       WatchLoop, FlowLoop, Watch, StopWatch, StopFlow, TakeEvent, TakeDrop, Handle, Visit, NextNamespace,
       Return, Send, SendCancelled, SendDefault, SendPanics, Cleanup, Receive
  <2> QED
    BY <2>1, Zenon DEF dispatch, D!vars
<1>2. CASE ReceiveNotification
  <2> DEFINE n == Correlated(Head(channel["watch"]))
  <2>1. n \in D!CorrelatedNotification /\ now' = now
    BY <1>2, CorrelatedType, Zenon DEF ReceiveNotification, Receive
  <2>2. D!Accept(Loop, n) \/ UNCHANGED dispatch
    BY <1>2, Zenon DEF ReceiveNotification
  <2> HIDE DEF n
  <2> QED
    BY <2>1, <2>2, Zenon DEF D!Next, D!vars, dispatch
<1>3. CASE DispatcherStep \/ CleanupDispatcher
  BY <1>3, Zenon DEF DispatcherStep, CleanupDispatcher, D!Next, D!DispatchStep
<1>4. CASE CreateEvent
  BY <1>4, Zenon DEF CreateEvent, D!Next, D!DispatchStep
<1>5. CASE PipelineTick
  BY <1>5, Zenon DEF PipelineTick, D!Next
<1>6. CASE UNCHANGED allVars
  BY <1>6, Zenon DEF allVars, vars, dispatch, D!vars
<1> QED
  BY <1>1, <1>2, <1>3, <1>4, <1>5, <1>6 DEF NextPipeline

(* The dispatcher of the pipeline is the one that DispatcherProofs is      *)
(* about.                                                                  *)
LEMMA SameDispatcher ==
  /\ D!Init <=> DP!Init
  /\ D!TypeOK <=> DP!TypeOK
  /\ [D!Next]_(D!vars) <=> [DP!Next]_(DP!vars)
<1>1. D!Init <=> DP!Init
  BY Zenon DEF D!Init, DP!Init, D!dedupeKey, DP!dedupeKey, D!CorrelatedNotification, DP!CorrelatedNotification
<1>2. D!TypeOK <=> DP!TypeOK
  BY Zenon DEF D!TypeOK, DP!TypeOK, D!Time, DP!Time, D!dedupeKey, DP!dedupeKey,
     D!CorrelatedNotification, DP!CorrelatedNotification, D!Event, DP!Event
<1>3. UNCHANGED D!vars <=> UNCHANGED DP!vars
  BY Zenon DEF D!vars, DP!vars
<1>4. D!Next <=> DP!Next
  <2>1. \A c, n : D!Accept(c, n) <=> DP!Accept(c, n)
    BY Zenon DEF D!Accept, DP!Accept
  <2>2. \A c : D!MarkSeen(c) <=> DP!MarkSeen(c)
    BY Zenon DEF D!MarkSeen, DP!MarkSeen, D!RecentlySeen, DP!RecentlySeen, D!Key, DP!Key
  <2>3. \A c : D!Suppress(c) <=> DP!Suppress(c)
    BY Zenon DEF D!Suppress, DP!Suppress, D!RecentlySeen, DP!RecentlySeen, D!Key, DP!Key
  <2>4. \A c : D!CreateEvent(c) <=> DP!CreateEvent(c)
    BY Zenon DEF D!CreateEvent, DP!CreateEvent
  <2>5. \A c : D!CreateFails(c) <=> DP!CreateFails(c)
    BY Zenon DEF D!CreateFails, DP!CreateFails, D!Key, DP!Key
  <2>6. D!Cleanup <=> DP!Cleanup
    BY Zenon DEF D!Cleanup, DP!Cleanup, D!Expired, DP!Expired, D!dedupeKey, DP!dedupeKey
  <2>7. D!Tick <=> DP!Tick
    BY Zenon DEF D!Tick, DP!Tick, D!Advance, DP!Advance
  <2> QED
    BY <2>1, <2>2, <2>3, <2>4, <2>5, <2>6, <2>7, Zenon
       DEF D!Next, DP!Next, D!DispatchStep, DP!DispatchStep, D!CorrelatedNotification, DP!CorrelatedNotification
<1> QED
  BY <1>1, <1>2, <1>3, <1>4, Zenon

LEMMA JoinedInvariant == SpecPipeline => []Joined
<1>1. InitPipeline => Joined
  <2> SUFFICES ASSUME InitPipeline PROVE Joined
    BY Zenon
  <2>1. Typed
    BY CorrelatorInit, Zenon DEF InitPipeline
  <2>2. D!TypeOK
    BY ConstantsAssumption DEF InitPipeline, D!Init, D!TypeOK, D!Time
  <2> QED
    BY <2>1, <2>2, Zenon DEF Joined
<1>2. Joined /\ [NextPipeline]_allVars => Joined'
  <2> SUFFICES ASSUME Joined, [NextPipeline]_allVars PROVE Joined'
    BY Zenon
  <2>1. Typed'
    BY CorrelatorStepOf, TypedStep, Zenon DEF Joined
  <2>2. D!TypeOK'
    <3>1. DP!TypeOK /\ [DP!Next]_(DP!vars)
      BY DispatcherStepOf, SameDispatcher, Zenon DEF Joined
    <3>2. DP!TypeOK'
      BY <3>1, DP!TypePreserved, PipelineAssumption, ConstantsAssumption, Zenon
    <3> QED
      BY <3>2, Zenon DEF D!TypeOK, DP!TypeOK, D!Time, DP!Time, D!dedupeKey, DP!dedupeKey,
         D!CorrelatedNotification, DP!CorrelatedNotification, D!Event, DP!Event
  <2> QED
    BY <2>1, <2>2, Zenon DEF Joined
<1> QED
  BY <1>1, <1>2, PTL DEF SpecPipeline

(* The pipeline implements the correlator: the loop of cmd/controller is   *)
(* one of its consumers, and the Events of the dispatcher are Warning      *)
(* events like those of others.  What is proved of the correlator is true  *)
(* of it while it is fed its own echo.                                     *)
THEOREM PipelineImplementsCorrelator == SpecPipeline => Spec
<1>1. InitPipeline => Init
  BY Zenon DEF InitPipeline
<1>2. Joined /\ [NextPipeline]_allVars => [Next]_vars
  BY CorrelatorStepOf, Zenon DEF Joined
<1> QED
  BY <1>1, <1>2, JoinedInvariant, PTL DEF SpecPipeline, Spec

(* The pipeline implements the dispatcher: every notification the loop     *)
(* receives is about a workload, and Dispatch is called by the loop alone. *)
THEOREM PipelineImplementsDispatcher == SpecPipeline => D!Spec
<1>1. InitPipeline => D!Init
  BY Zenon DEF InitPipeline
<1>2. Joined /\ [NextPipeline]_allVars => [D!Next]_(D!vars)
  BY DispatcherStepOf, Zenon DEF Joined
<1> QED
  BY <1>1, <1>2, JoinedInvariant, PTL DEF SpecPipeline, D!Spec

LEMMA DispatcherInvariant == SpecPipeline => []DP!IInv
<1>1. DP!Spec => []DP!IInv
  BY DP!DispatchInvariant, PipelineAssumption, ConstantsAssumption, Zenon
<1>2. D!Init => DP!Init
  BY SameDispatcher, Zenon
<1>3. [D!Next]_(D!vars) => [DP!Next]_(DP!vars)
  BY SameDispatcher, Zenon
<1> QED
  BY <1>1, <1>2, <1>3, PipelineImplementsDispatcher, PTL DEF D!Spec, DP!Spec

(* The Events on workload p that come back as Warning events.              *)
LoudAt(p) == {f \in events : f.n.place = p /\ f.n.uid \in Loud}

(* Every Warning event of Nightjar's own stands for an Event of the        *)
(* dispatcher.                                                             *)
Counted ==
  \A p \in Places : IsFiniteSet(LoudAt(p)) /\ Cardinality(OwnOf(p)) <= Cardinality(LoudAt(p))

LEMMA CountedStep == Joined /\ DP!IInv /\ Counted /\ [NextPipeline]_allVars => Counted'
<1> SUFFICES ASSUME Joined, DP!IInv, Counted, [NextPipeline]_allVars PROVE Counted'
  BY Zenon
<1>1. ASSUME events' = events, existing' \intersect Own = existing \intersect Own PROVE Counted'
  <2>1. \A p : LoudAt(p)' = LoudAt(p) /\ OwnOf(p)' = OwnOf(p)
    BY <1>1, Zenon DEF LoudAt, OwnOf
  <2> QED
    BY <2>1, Zenon DEF Counted
<1>2. CASE CorrelatorStep
  <2>1. events' = events
    BY <1>2, Zenon DEF CorrelatorStep, dispatch
  <2>2. existing' = existing \/ \E e \in External : existing' = existing \union {e}
    BY <1>2, Zenon DEF CorrelatorStep, CreateWarning, ModifyWarning, ObserveDrop, WatchCloses, Cancel, observed,
       WatchLoop, FlowLoop, Watch, StopWatch, StopFlow, TakeEvent, TakeDrop, Handle, Visit, NextNamespace,
       Return, Send, SendCancelled, SendDefault, SendPanics, Cleanup, Receive
  <2> QED
    BY <1>1, <2>1, <2>2, PipelineAssumption, Zenon
<1>3. CASE ReceiveNotification
  BY <1>1, <1>3, Zenon DEF ReceiveNotification, Receive, observed, D!Accept, dispatch
<1>4. CASE DispatcherStep \/ CleanupDispatcher \/ PipelineTick
  BY <1>1, <1>4, Zenon DEF DispatcherStep, CleanupDispatcher, PipelineTick, vars, observed, Tick,
     D!MarkSeen, D!Suppress, D!CreateFails, D!Cleanup, D!Tick
<1>5. CASE UNCHANGED allVars
  BY <1>1, <1>5, Zenon DEF allVars, vars, dispatch
<1>6. CASE CreateEvent
  <2> DEFINE q == request[Loop].place
             new == [n |-> request[Loop], by |-> Loop, markedAt |-> markedAt[Loop]]
             own == <<q, Cardinality(OwnOf(q)) + 1>>
  <2>1. events' = events \union {new} /\ pc[Loop] = "create"
    BY <1>6, Zenon DEF CreateEvent, D!CreateEvent
  <2>2. CASE request[Loop].uid \notin Loud
    <3>1. existing' = existing
      BY <1>6, <2>2, CreateEventIs, Zenon DEF Joined, vars
    <3>2. \A p : LoudAt(p)' = LoudAt(p) /\ OwnOf(p)' = OwnOf(p)
      BY <2>1, <2>2, <3>1 DEF LoudAt, OwnOf
    <3> QED
      BY <3>2, Zenon DEF Counted
  <2>3. CASE request[Loop].uid \in Loud
    <3>1. q \in Places /\ own \in Own /\ existing' = existing \union {own}
      BY <1>6, <2>3, CreateEventIs, Zenon DEF Joined, CreateWarning
    <3>2. PlaceOf[own] = q
      BY <3>1, PipelineAssumption, Zenon
    <3>3. new \notin events
      <4> SUFFICES ASSUME new \in events PROVE FALSE
        BY Zenon
      <4>1. DP!Apart(markedAt[Loop], new.markedAt)
        BY <2>1, Zenon DEF DP!IInv, DP!CallersApartFromEvents, DP!Key
      <4>2. markedAt[Loop] \in Nat
        BY DEF Joined, D!TypeOK, D!Time
      <4> QED
        BY <4>1, <4>2, PipelineAssumption DEF DP!Apart
    <3>4. new.n.place = q /\ new.n.uid \in Loud
      BY <2>3, Zenon
    <3>5. ASSUME NEW p \in Places, p # q PROVE LoudAt(p)' = LoudAt(p) /\ OwnOf(p)' = OwnOf(p)
      <4> HIDE DEF new, own, q
      <4> QED
        BY <2>1, <3>1, <3>2, <3>4, <3>5, Zenon DEF LoudAt, OwnOf
    <3>6. ASSUME NEW p \in Places, p = q
          PROVE  IsFiniteSet(LoudAt(p)') /\ Cardinality(OwnOf(p)') <= Cardinality(LoudAt(p)')
      <4>1. LoudAt(p)' = LoudAt(p) \union {new} /\ new \notin LoudAt(p)
        <5> HIDE DEF new, q
        <5> QED
          BY <2>1, <3>3, <3>4, <3>6, Zenon DEF LoudAt
      <4>2. OwnOf(p)' = OwnOf(p) \union {own}
        BY <3>1, <3>2, <3>6, Zenon DEF OwnOf
      <4>3. /\ IsFiniteSet(LoudAt(p)) /\ Cardinality(LoudAt(p)) \in Nat
            /\ IsFiniteSet(OwnOf(p)) /\ Cardinality(OwnOf(p)) \in Nat
            /\ Cardinality(OwnOf(p)) <= Cardinality(LoudAt(p))
        BY OwnFinite, FS_CardinalityType, Zenon DEF Counted
      <4> HIDE DEF new, own
      <4>4. /\ IsFiniteSet(LoudAt(p) \union {new})
            /\ Cardinality(LoudAt(p) \union {new}) = Cardinality(LoudAt(p)) + 1
        BY <4>1, <4>3, FS_AddElement, Zenon
      <4>5. \/ Cardinality(OwnOf(p) \union {own}) = Cardinality(OwnOf(p)) + 1
            \/ Cardinality(OwnOf(p) \union {own}) = Cardinality(OwnOf(p))
        BY <4>3, FS_AddElement, Zenon
      <4> QED
        BY <4>1, <4>2, <4>3, <4>4, <4>5
    <3> QED
      BY <3>5, <3>6, Zenon DEF Counted
  <2> QED
    BY <2>2, <2>3, Zenon
<1> QED
  BY <1>2, <1>3, <1>4, <1>5, <1>6, Zenon DEF NextPipeline

(* The number of the window that a time falls into.                        *)
LEMMA WindowOf ==
  ASSUME NEW a \in Nat, NEW w \in Nat \ {0}
  PROVE  /\ a \div w \in Nat
         /\ \A b \in Nat : a <= b => a \div w <= b \div w
<1>1. a \div w \in Nat
  BY Z3
<1>2. \A b \in Nat : a <= b => a \div w <= b \div w
  BY Z3
<1> QED
  BY <1>1, <1>2, Zenon

LEMMA OtherWindow ==
  ASSUME NEW a \in Nat, NEW b \in Nat, NEW w \in Nat \ {0}, a - b >= w
  PROVE  a \div w # b \div w
<1>1. a < w * (a \div w) + w /\ w * (b \div w) <= b /\ b < w * (b \div w) + w
  BY Z3
<1> QED
  BY <1>1, Z3

(* Each Event has a constraint and a window of its own.                    *)
LEMMA LoudBounded ==
  ASSUME DP!IInv, NEW p \in Places
  PROVE  /\ IsFiniteSet(LoudAt(p))
         /\ Cardinality(LoudAt(p)) <= Cardinality(Loud) * (MaxTime \div SuppressWindow + 1)
<1> DEFINE last == MaxTime \div SuppressWindow
           T == Loud \X (0..last)
           slot == [f \in LoudAt(p) |-> <<f.n.uid, f.markedAt \div SuppressWindow>>]
<1>1. last \in Nat /\ SuppressWindow \in Nat \ {0} /\ MaxTime \in Nat
  BY WindowOf, PipelineAssumption, ConstantsAssumption, Zenon
<1>2. ASSUME NEW f \in LoudAt(p)
      PROVE  /\ f \in events /\ f.n.uid \in Loud /\ f.n.place = p /\ f.n \in DP!CorrelatedNotification
             /\ f.markedAt \in Nat /\ f.markedAt \div SuppressWindow \in 0..last
             /\ f = [n |-> f.n, by |-> Loop, markedAt |-> f.markedAt]
  <2>1. f \in events /\ f.n.uid \in Loud /\ f.n.place = p /\ f \in DP!Event
    BY <1>2, Zenon DEF LoudAt, DP!IInv, DP!TypeOK
  <2>2. f.markedAt \in Nat /\ f.markedAt <= MaxTime /\ f.by = Loop /\ f.n \in DP!CorrelatedNotification
    BY <1>1, <2>1 DEF DP!Event, DP!Time
  <2>3. f = [n |-> f.n, by |-> Loop, markedAt |-> f.markedAt]
    BY <2>1, <2>2, Zenon DEF DP!Event
  <2>4. f.markedAt \div SuppressWindow \in 0..last
    BY <1>1, <2>2, WindowOf
  <2> QED
    BY <2>1, <2>2, <2>3, <2>4, Zenon
<1>3. ASSUME NEW f \in LoudAt(p), NEW g \in LoudAt(p), f # g
      PROVE  slot[f] # slot[g]
  <2>1. CASE f.n.uid # g.n.uid
    BY <2>1, Zenon
  <2>2. CASE f.n.uid = g.n.uid
    <3>1. DP!Key(f.n) = DP!Key(g.n)
      BY <1>2, <2>2, Zenon DEF DP!Key
    <3>2. f.markedAt - g.markedAt >= SuppressWindow \/ g.markedAt - f.markedAt >= SuppressWindow
      BY <1>2, <1>3, <3>1, Zenon DEF DP!IInv, DP!OncePerWindow
    <3>3. f.markedAt \div SuppressWindow # g.markedAt \div SuppressWindow
      BY <1>1, <1>2, <3>2, OtherWindow, Zenon
    <3> QED
      BY <3>3, Zenon
  <2> QED
    BY <2>1, <2>2, Zenon
<1>4. slot \in [LoudAt(p) -> T]
  BY <1>2, Zenon
<1>5. slot \in Injection(LoudAt(p), T)
  BY <1>3, <1>4, Zenon DEF Injection, IsInjective
<1>6. IsFiniteSet(0..last) /\ Cardinality(0..last) = last + 1
  <2> HIDE DEF last
  <2>1. 0 \in Int /\ last \in Int /\ ~(0 > last) /\ last - 0 + 1 = last + 1
    BY <1>1
  <2>2. /\ IsFiniteSet(0..last)
        /\ Cardinality(0..last) = IF 0 > last THEN 0 ELSE last - 0 + 1
    BY <2>1, FS_Interval, Zenon
  <2> QED
    BY <2>1, <2>2, Zenon
<1>7. IsFiniteSet(T) /\ Cardinality(T) = Cardinality(Loud) * (last + 1)
  BY <1>6, FS_Product, PipelineAssumption, Zenon
<1> HIDE DEF slot, T
<1> QED
  BY <1>5, <1>7, FS_Injection

(* However often the pipeline is fed the Events it creates, it creates at  *)
(* most one Warning event per loud constraint and workload in every        *)
(* suppression window: the dedupe cache of Dispatch breaks the echo, with  *)
(* no help of the correlator's, whose key is another one for every Event.  *)
THEOREM EchoDiesOut == SpecPipeline => []EchoBounded
<1>1. InitPipeline => Counted
  <2> SUFFICES ASSUME InitPipeline, NEW p \in Places
               PROVE  IsFiniteSet(LoudAt(p)) /\ Cardinality(OwnOf(p)) <= Cardinality(LoudAt(p))
    BY Zenon DEF Counted
  <2>1. LoudAt(p) = {} /\ OwnOf(p) = {}
    BY Zenon DEF InitPipeline, Init, D!Init, LoudAt, OwnOf
  <2> QED
    BY <2>1, FS_EmptySet
<1>2. Joined /\ DP!IInv /\ Counted => EchoBounded
  <2> SUFFICES ASSUME DP!IInv, Counted, NEW p \in Places
               PROVE  Cardinality(OwnOf(p)) <= Cardinality(Loud) * (MaxTime \div SuppressWindow + 1)
    BY Zenon DEF EchoBounded
  <2> DEFINE bound == Cardinality(Loud) * (MaxTime \div SuppressWindow + 1)
  <2>1. Cardinality(OwnOf(p)) \in Nat /\ Cardinality(LoudAt(p)) \in Nat /\ bound \in Int
    <3>1. Cardinality(Loud) \in Nat /\ MaxTime \div SuppressWindow \in Nat
      BY FS_CardinalityType, WindowOf, PipelineAssumption, ConstantsAssumption, Zenon
    <3> QED
      BY <3>1, OwnFinite, LoudBounded, FS_CardinalityType
  <2>2. Cardinality(OwnOf(p)) <= Cardinality(LoudAt(p)) /\ Cardinality(LoudAt(p)) <= bound
    BY LoudBounded, Zenon DEF Counted
  <2> HIDE DEF bound
  <2>3. Cardinality(OwnOf(p)) <= bound
    BY <2>1, <2>2
  <2> QED
    BY <2>3, Zenon DEF bound
<1> QED
  BY <1>1, <1>2, CountedStep, JoinedInvariant, DispatcherInvariant, PTL DEF SpecPipeline

-----------------------------------------------------------------------------
(* The Hubble client, from which the correlator gets its flow drops.       *)

(* Every flow that reached the channel was observed, in the order of their *)
(* numbers: what the next one will be is larger than all of them.          *)
Ordered(all, last, count) ==
  /\ count = Len(all)
  /\ \A i \in DOMAIN all : all[i] \in Nat /\ all[i] <= last
  /\ \A i, j \in DOMAIN all : i < j => all[i] < all[j]

(* The flows sent to the channel: those counted, and the one about to be.  *)
Sent == IF loop = "count" THEN flowDrops + 1 ELSE flowDrops

Streamed ==
  /\ received \in Seq(Nat) /\ drops \in Seq(Nat) /\ flows \in Nat
  /\ Ordered(received \o drops, flows, Sent)

Counting == flowDrops \in Nat /\ (dropsClosed => loop = "done")

LEMMA Moved ==
  ASSUME NEW r \in Seq(Nat), NEW d \in Seq(Nat), d # <<>>
  PROVE  /\ Append(r, Head(d)) \in Seq(Nat) /\ Tail(d) \in Seq(Nat)
         /\ Len(Append(r, Head(d)) \o Tail(d)) = Len(r \o d)
         /\ DOMAIN (Append(r, Head(d)) \o Tail(d)) = DOMAIN (r \o d)
         /\ \A i \in DOMAIN (r \o d) : (Append(r, Head(d)) \o Tail(d))[i] = (r \o d)[i]
<1>1. /\ Head(d) \in Nat /\ Tail(d) \in Seq(Nat) /\ Len(d) \in Nat /\ Len(d) >= 1
      /\ Len(Tail(d)) = Len(d) - 1 /\ \A i \in 1..(Len(d) - 1) : Tail(d)[i] = d[i + 1]
      /\ Head(d) = d[1]
  OBVIOUS
<1>2. /\ Append(r, Head(d)) \in Seq(Nat) /\ Len(Append(r, Head(d))) = Len(r) + 1 /\ Len(r) \in Nat
      /\ Append(r, Head(d))[Len(r) + 1] = Head(d)
      /\ \A i \in 1..Len(r) : Append(r, Head(d))[i] = r[i]
  BY <1>1
<1> DEFINE a == Append(r, Head(d))
           t == Tail(d)
<1> HIDE DEF a, t
<1>3. /\ Len(a \o t) = Len(a) + Len(t) /\ DOMAIN (a \o t) = 1..(Len(a) + Len(t))
      /\ \A i \in 1..(Len(a) + Len(t)) : (a \o t)[i] = IF i <= Len(a) THEN a[i] ELSE t[i - Len(a)]
  BY <1>1, <1>2 DEF a, t
<1>4. /\ Len(r \o d) = Len(r) + Len(d) /\ DOMAIN (r \o d) = 1..(Len(r) + Len(d))
      /\ \A i \in 1..(Len(r) + Len(d)) : (r \o d)[i] = IF i <= Len(r) THEN r[i] ELSE d[i - Len(r)]
  OBVIOUS
<1>5. Len(a) + Len(t) = Len(r) + Len(d)
  BY <1>1, <1>2 DEF a, t
<1>6. ASSUME NEW i \in 1..(Len(r) + Len(d)) PROVE (a \o t)[i] = (r \o d)[i]
  <2>1. CASE i <= Len(r)
    BY <1>2, <1>3, <1>4, <1>5, <2>1, SMTT(20) DEF a
  <2>2. CASE i = Len(r) + 1
    BY <1>1, <1>2, <1>3, <1>4, <1>5, <2>2, SMTT(20) DEF a
  <2>3. CASE i > Len(r) + 1
    <3>1. (a \o t)[i] = t[i - (Len(r) + 1)] /\ (r \o d)[i] = d[i - Len(r)]
      BY <1>2, <1>3, <1>4, <1>5, <2>3, SMTT(20) DEF a
    <3>2. i - (Len(r) + 1) \in 1..(Len(d) - 1) /\ (i - (Len(r) + 1)) + 1 = i - Len(r)
      BY <1>1, <1>2, <2>3, SMTT(20)
    <3> QED
      BY <1>1, <3>1, <3>2, Zenon DEF t
  <2>4. i <= Len(r) \/ i = Len(r) + 1 \/ i > Len(r) + 1
    BY <1>1, <1>2
  <2> QED
    BY <2>1, <2>2, <2>3, <2>4, Zenon
<1> QED
  BY <1>1, <1>2, <1>3, <1>4, <1>5, <1>6, Zenon DEF a, t

(* Only the loop sends and counts, and it is done when the channel closes. *)
LEMMA CountingStep == Counting /\ [HubbleNext]_hubbleVars => Counting'
<1> SUFFICES ASSUME Counting, [HubbleNext]_hubbleVars PROVE Counting'
  BY Zenon
<1>1. CASE Count
  <2>1. flowDrops' \in Nat
    BY <1>1 DEF Count, Counting
  <2> QED
    BY <1>1, <2>1, Zenon DEF Count, Counting
<1>2. CASE ~Count
  <2>1. flowDrops' = flowDrops
    BY <1>2, Zenon DEF HubbleNext, connectionLoop, Advance, hubbleVars, callers, Top, Exit, ConnectFails, Backoff, Connect,
       GetFlows, CheckStop, RecvFlow, RecvOther, RecvEOF, RecvError, Disconnect, Close, CloseReturns, CancelContext,
       ConsumerReceives, Relay
  <2>2. dropsClosed' => loop' = "done"
    BY <1>2, Zenon DEF Counting, HubbleNext, connectionLoop, Advance, hubbleVars, callers, Top, Exit, ConnectFails,
       Backoff, Connect, GetFlows, CheckStop, RecvFlow, RecvOther, RecvEOF, RecvError, Disconnect, Close, CloseReturns,
       CancelContext, ConsumerReceives, Relay
  <2> QED
    BY <2>1, <2>2, Zenon DEF Counting
<1> QED
  BY <1>1, <1>2, Zenon

LEMMA StreamedStep == Streamed /\ Counting /\ [HubbleNext]_hubbleVars => Streamed'
<1> SUFFICES ASSUME Streamed, Counting, [HubbleNext]_hubbleVars PROVE Streamed'
  BY Zenon
<1>1. ASSUME UNCHANGED <<drops, received, flows, Sent>> PROVE Streamed'
  BY <1>1, Zenon DEF Streamed, Ordered
<1>2. CASE ConsumerReceives
  <2>1. /\ received' = Append(received, Head(drops)) /\ drops' = Tail(drops) /\ drops # <<>>
        /\ UNCHANGED <<flows, Sent>>
    BY <1>2, Zenon DEF ConsumerReceives, Sent
  <2>2. /\ received' \in Seq(Nat) /\ drops' \in Seq(Nat)
        /\ Len(received' \o drops') = Len(received \o drops)
        /\ DOMAIN (received' \o drops') = DOMAIN (received \o drops)
        /\ \A i \in DOMAIN (received \o drops) : (received' \o drops')[i] = (received \o drops)[i]
    BY <2>1, Moved, Zenon DEF Streamed
  <2>3. ASSUME NEW p, NEW q, Len(p) = Len(q), DOMAIN p = DOMAIN q, \A i \in DOMAIN q : p[i] = q[i],
               Ordered(q, flows, Sent)
        PROVE  Ordered(p, flows, Sent)
    BY <2>3 DEF Ordered
  <2>4. Ordered(received' \o drops', flows, Sent)
    BY <2>2, <2>3, Zenon DEF Streamed
  <2> QED
    BY <2>1, <2>2, <2>4, Zenon DEF Streamed, Ordered
<1>3. CASE RecvFlow
  <2>1. CASE ~BufferHasRoom
    <3>1. UNCHANGED <<drops, received, Sent>> /\ flows' = flows + 1
      BY <1>3, <2>1, Zenon DEF RecvFlow, Sent
    <3>2. \A q : Ordered(q, flows, Sent) => Ordered(q, flows + 1, Sent)
      BY DEF Ordered, Streamed
    <3>3. Ordered(received \o drops, flows + 1, Sent)
      BY <3>2, Zenon DEF Streamed
    <3> QED
      BY <3>1, <3>3 DEF Streamed
  <2>2. CASE BufferHasRoom
    <3> DEFINE all == received \o drops
               new == received \o Append(drops, flows + 1)
    <3>1. drops' = Append(drops, flows + 1) /\ flows' = flows + 1 /\ Sent' = Sent + 1 /\ received' = received
      BY <1>3, <2>2, Zenon DEF RecvFlow, Sent
    <3>2. /\ all \in Seq(Nat) /\ Append(drops, flows + 1) \in Seq(Nat) /\ flows \in Nat
          /\ Ordered(all, flows, Sent)
      BY DEF Streamed
    <3>3. /\ Len(new) = Len(all) + 1 /\ DOMAIN new = 1..(Len(all) + 1) /\ new[Len(all) + 1] = flows + 1
          /\ \A i \in 1..Len(all) : new[i] = all[i]
      BY DEF Streamed
    <3> HIDE DEF all, new
    <3>4. DOMAIN all = 1..Len(all) /\ Len(all) \in Nat
      BY <3>2
    <3>5. Ordered(new, flows + 1, Sent + 1)
      <4>1. \A i \in 1..Len(all) : new[i] \in Nat /\ new[i] <= flows
        BY <3>2, <3>3, <3>4, Zenon DEF Ordered
      <4>2. \A i \in DOMAIN new : i \in 1..Len(all) \/ i = Len(all) + 1
        BY <3>3, <3>4
      <4>3. \A i \in DOMAIN new : new[i] \in Nat /\ new[i] <= flows + 1
        BY <3>2, <3>3, <4>1, <4>2
      <4>4. ASSUME NEW i \in DOMAIN new, NEW j \in DOMAIN new, i < j PROVE new[i] < new[j]
        <5>1. i \in 1..Len(all)
          BY <3>3, <3>4, <4>4
        <5>2. CASE j \in 1..Len(all)
          BY <3>2, <3>3, <3>4, <4>4, <5>1, <5>2, Zenon DEF Ordered
        <5>3. CASE j = Len(all) + 1
          BY <3>2, <3>3, <4>1, <5>1, <5>3
        <5> QED
          BY <4>2, <5>2, <5>3, Zenon
      <4>5. Sent + 1 = Len(new)
        BY <3>2, <3>3, Zenon DEF Ordered
      <4> QED
        BY <4>3, <4>4, <4>5, Zenon DEF Ordered
    <3>6. Ordered(received' \o drops', flows', Sent')
      BY <3>1, <3>5, Zenon DEF new
    <3> QED
      BY <3>1, <3>2, <3>6 DEF Streamed
  <2> QED
    BY <2>1, <2>2, Zenon
<1>4. CASE ~ConsumerReceives /\ ~RecvFlow
  <2>1. UNCHANGED <<drops, received, flows>>
    BY <1>4, Zenon DEF HubbleNext, connectionLoop, Advance, hubbleVars, callers, Top, Exit, ConnectFails, Backoff, Connect,
       GetFlows, CheckStop, Count, RecvOther, RecvEOF, RecvError, Disconnect, Close, CloseReturns, CancelContext, Relay
  <2>2. ASSUME Count PROVE Sent' = Sent
    BY <2>2, Zenon DEF Count, Sent
  <2>3. ASSUME ~Count PROVE Sent' = Sent
    <3>1. flowDrops' = flowDrops /\ (loop' = loop \/ (loop # "count" /\ loop' # "count"))
      BY <1>4, <2>3, Zenon DEF HubbleNext, connectionLoop, Advance, hubbleVars, callers, Top, Exit, ConnectFails, Backoff,
         Connect, GetFlows, CheckStop, RecvOther, RecvEOF, RecvError, Disconnect, Close, CloseReturns, CancelContext, Relay
    <3> QED
      BY <3>1, Zenon DEF Sent
  <2> QED
    BY <1>1, <2>1, <2>2, <2>3, Zenon
<1> QED
  BY <1>2, <1>3, <1>4, Zenon

(* Through full buffers, broken streams and reconnects, the consumer of    *)
(* the client gets the flows in the order they were observed, none twice,  *)
(* and the client's counter is at most one behind the flows that reached   *)
(* the channel, and not at all once it is closed.                          *)
THEOREM FlowsInOrder == HubbleSpec => []DropsInOrder
<1>1. HubbleInit => Streamed /\ Counting
  BY DEF HubbleInit, Streamed, Ordered, Sent, Counting
<1>2. Streamed /\ Counting => DropsInOrder
  <2> SUFFICES ASSUME Streamed, Counting PROVE DropsInOrder
    BY Zenon
  <2>1. Sent = flowDrops \/ (loop = "count" /\ Sent = flowDrops + 1)
    BY Zenon DEF Sent
  <2>2. flowDrops <= Sent /\ Sent <= flowDrops + 1 /\ (dropsClosed => flowDrops = Sent)
    BY <2>1 DEF Counting
  <2> QED
    BY <2>2, Zenon DEF Streamed, Ordered, DropsInOrder
<1> QED
  BY <1>1, <1>2, StreamedStep, CountingStep, PTL DEF HubbleSpec

(* The wait before the next connection.                                    *)
WaitWithin == interval \in Base..Cap

(* Whatever fails and however often, the wait before the client connects   *)
(* again is never shorter than the configured interval nor longer than its *)
(* cap: doubling stops at the cap and a connection starts it anew.         *)
THEOREM WaitBounded == HubbleSpec => []WaitWithin
<1>1. HubbleInit => WaitWithin
  BY HubbleAssumption DEF WaitWithin, HubbleInit, HubbleAssumption
<1>2. WaitWithin /\ [HubbleNext]_hubbleVars => WaitWithin'
  <2> SUFFICES ASSUME interval \in Base..Cap, [HubbleNext]_hubbleVars PROVE interval' \in Base..Cap
    BY Zenon DEF WaitWithin
  <2>1. nextReconnectInterval(interval) \in Base..Cap
    BY HubbleAssumption DEF HubbleAssumption, nextReconnectInterval
  <2>2. Base \in Base..Cap
    BY HubbleAssumption DEF HubbleAssumption
  <2>3. interval' \in {interval, Base, nextReconnectInterval(interval)}
    BY Zenon DEF HubbleNext, connectionLoop, Advance, hubbleVars, callers, Top, Exit, ConnectFails,
       Backoff, Connect, GetFlows, CheckStop, Count, RecvFlow, RecvOther, RecvEOF, RecvError, Disconnect,
       Close, CloseReturns, CancelContext, Relay, ConsumerReceives
  <2> QED
    BY <2>1, <2>2, <2>3, Zenon
<1> QED
  BY <1>1, <1>2, PTL DEF HubbleSpec

=============================================================================
