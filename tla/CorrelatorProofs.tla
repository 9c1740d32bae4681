-------------------------- MODULE CorrelatorProofs --------------------------
(***************************************************************************)
(* Proofs about the correlator, for any observations, constraints, keys,   *)
(* window and channel capacity.                                            *)
(*                                                                         *)
(* OncePerWindow speaks of what reached a channel.  Between the mark and   *)
(* the send a goroutine carries a mark that nothing else shows, so the     *)
(* inductive invariant speaks of both, and says that the map of seen pairs *)
(* knows every mark younger than the window.                               *)
(***************************************************************************)
EXTENDS Correlator, TLAPS

Busy(g) == todo[g] # None /\ todo[g].sending # None
MarkKey(g) == <<KeyOf[todo[g].of], todo[g].sending>>

(* A mark t of pair k is remembered, or is a window old.                   *)
Remembered(k, t) ==
  /\ t <= now
  /\ \/ seenPairs[k] # Never /\ t <= seenPairs[k]
     \/ now - t >= Window

Apart(s, t) == s - t >= Window \/ t - s >= Window

SeenNotAhead == \A k \in dedupeKey : seenPairs[k] # Never => seenPairs[k] <= now

SentRemembered == \A m \in sent : Remembered(<<KeyOf[m.n.of], m.n.uid>>, m.at)

MarkedRemembered == \A g \in Goroutines : Busy(g) => Remembered(MarkKey(g), todo[g].at)

MarkedApart ==
  \A g, h \in Goroutines :
    g # h /\ Busy(g) /\ Busy(h) /\ MarkKey(g) = MarkKey(h) => Apart(todo[g].at, todo[h].at)

MarkedApartFromSent ==
  \A g \in Goroutines, m \in sent :
    Busy(g) /\ MarkKey(g) = <<KeyOf[m.n.of], m.n.uid>> => Apart(todo[g].at, m.at)

Marks ==
  /\ SeenNotAhead /\ SentRemembered /\ MarkedRemembered
  /\ MarkedApart /\ MarkedApartFromSent /\ OncePerWindow

(* The goroutine of the watch handles Warning events only.                 *)
ByWatch ==
  /\ todo["watch"] # None => todo["watch"].of \in Warnings
  /\ channel["watch"] \in Seq([of : Warnings, uid : Uids])

(* Start closes the channels between two events, and only a send to them   *)
(* panics.                                                                 *)
Closing == (closed => todo["watch"] = None) /\ (panicked => closed /\ Busy("flow"))

(* A mark is made in the loop over the constraints of a namespace.         *)
InNamespace == \A g \in Goroutines : Busy(g) => todo[g].visit # <<>>

Typed == TypeOK /\ ByWatch /\ Closing /\ InNamespace

LEMMA RestType ==
  ASSUME NEW v \in Seq(SUBSET Uids), v # <<>>, NEW u
  PROVE  <<Head(v) \ {u}>> \o Tail(v) \in Seq(SUBSET Uids) \ {<<>>}
<1>1. Head(v) \in SUBSET Uids /\ Tail(v) \in Seq(SUBSET Uids)
  OBVIOUS
<1>2. Head(v) \ {u} \in SUBSET Uids
  BY <1>1, Zenon
<1>3. <<Head(v) \ {u}>> \in Seq(SUBSET Uids)
  BY <1>2
<1> QED
  BY <1>1, <1>3

(* What a goroutine handles is of its type when it is not None.            *)
LEMMA HandlingType ==
  ASSUME TypeOK, NEW g \in Goroutines, todo[g] # None
  PROVE  /\ todo[g] \in Handling
         /\ todo[g].of \in Warnings \union Flows /\ todo[g].visit \in Seq(SUBSET Uids)
         /\ todo[g].sending \in Uids \union {None} /\ todo[g].at \in Time
         /\ KeyOf[todo[g].of] \in Keys
BY ConstantsAssumption, Zenon DEF TypeOK, Handling

(* The environment and the ends of the loops.                              *)
LEMMA QuietTyped ==
  ASSUME Typed, UNCHANGED <<todo, seenPairs, channel, history>>,
         \/ \E e \in Warnings : CreateWarning(e) \/ ModifyWarning(e)
         \/ \E f \in Flows : ObserveDrop(f)
         \/ WatchCloses \/ Tick \/ Cancel
         \/ Watch \/ StopWatch \/ StopFlow \/ \E g \in Goroutines : SendPanics(g)
  PROVE  Typed'
<1> USE ConstantsAssumption DEF Typed, TypeOK, ByWatch, Closing, InNamespace, Busy, ended, observed, history, Time
<1>1. ASSUME NEW e \in Warnings, CreateWarning(e) PROVE Typed'
  BY <1>1, Zenon DEF CreateWarning, Deliver
<1>2. ASSUME NEW e \in Warnings, ModifyWarning(e) PROVE Typed'
  BY <1>2, Zenon DEF ModifyWarning, Deliver
<1>3. ASSUME NEW f \in Flows, ObserveDrop(f) PROVE Typed'
  BY <1>3, Zenon DEF ObserveDrop
<1>4. CASE WatchCloses
  BY <1>4, Zenon DEF WatchCloses
<1>8. CASE Cancel
  BY <1>8, Zenon DEF Cancel
<1>5. CASE Tick
  BY <1>5 DEF Tick
<1>6. CASE Watch
  BY <1>6, Zenon DEF Watch
<1>9. CASE StopWatch
  BY <1>9, Zenon DEF StopWatch, Idle, Running
<1>10. CASE StopFlow
  BY <1>10, Zenon DEF StopFlow
<1>7. ASSUME NEW g \in Goroutines, SendPanics(g) PROVE Typed'
  BY <1>7, Zenon DEF SendPanics, Sending, Running, Goroutines
<1> QED
  BY <1>1, <1>2, <1>3, <1>4, <1>5, <1>6, <1>7, <1>8, <1>9, <1>10, Zenon

(* A step that changes what one running goroutine handles, and keeps it    *)
(* of its type.                                                            *)
LEMMA HandlerTyped ==
  ASSUME Typed, NEW g \in Goroutines, Running(g), NEW h \in Handling \union {None},
         todo' = [todo EXCEPT ![g] = h],
         h # None /\ h.sending # None => h.visit # <<>>,
         g = "watch" /\ h # None => h.of \in Warnings,
         UNCHANGED <<now, existing, watching, ended>>,
         queue' \subseteq queue, dropsCh' \subseteq dropsCh,
         seenPairs' \in [dedupeKey -> Time \union {Never}],
         refused' \subseteq Warnings \union Flows,
         sent' \union lost' \subseteq [n : Notification, at : Time],
         channel' \in [Goroutines -> Seq(Notification)],
         \A k \in Goroutines : Len(channel'[k]) <= Capacity,
         channel'["watch"] \in Seq([of : Warnings, uid : Uids])
  PROVE  Typed'
<1>1. TypeOK'
  BY Zenon DEF Typed, TypeOK, ended
<1>2. ByWatch'
  BY Zenon DEF Typed, TypeOK, ByWatch, Goroutines
<1>3. Closing'
  <2>1. ~panicked /\ (g = "watch" => ~closed)
    BY Zenon DEF Running
  <2> QED
    BY <2>1, Zenon DEF Typed, TypeOK, Closing, ended, Goroutines
<1>4. InNamespace'
  BY Zenon DEF Typed, TypeOK, InNamespace, Busy
<1> QED
  BY <1>1, <1>2, <1>3, <1>4, Zenon DEF Typed

(* Begin gives the goroutine all that the lookups return.                  *)
LEMMA BeginTyped ==
  ASSUME Typed, NEW g \in Goroutines, Running(g), NEW x \in Warnings \union Flows, Begin(g, x),
         g = "watch" => x \in Warnings,
         UNCHANGED <<now, existing, watching, seenPairs, channel, ended, sent, lost>>,
         queue' \subseteq queue, dropsCh' \subseteq dropsCh
  PROVE  Typed'
<1> DEFINE h == [of |-> x, visit |-> Matches[x], sending |-> None, at |-> now]
<1>1. h \in Handling /\ h.of = x /\ h.sending = None
  BY ConstantsAssumption, Zenon DEF Typed, TypeOK, Handling
<1>2. todo' = [todo EXCEPT ![g] = h] \/ todo' = [todo EXCEPT ![g] = todo[g]]
  BY Zenon DEF Begin, Typed, TypeOK
<1>3. /\ todo[g] \in Handling \union {None}
      /\ g = "watch" /\ todo[g] # None => todo[g].of \in Warnings
      /\ todo[g] # None /\ todo[g].sending # None => todo[g].visit # <<>>
  BY Zenon DEF Typed, TypeOK, ByWatch, InNamespace, Busy
<1>4. /\ seenPairs' \in [dedupeKey -> Time \union {Never}]
      /\ refused' \subseteq Warnings \union Flows
      /\ sent' \union lost' \subseteq [n : Notification, at : Time]
      /\ channel' \in [Goroutines -> Seq(Notification)]
      /\ \A k \in Goroutines : Len(channel'[k]) <= Capacity
      /\ channel'["watch"] \in Seq([of : Warnings, uid : Uids])
  BY Zenon DEF Begin, Typed, TypeOK, ByWatch
<1> HIDE DEF h
<1>5. CASE todo' = [todo EXCEPT ![g] = h]
  BY <1>1, <1>4, <1>5, HandlerTyped, Zenon
<1>6. CASE todo' = [todo EXCEPT ![g] = todo[g]]
  BY <1>3, <1>4, <1>6, HandlerTyped, Zenon
<1> QED
  BY <1>2, <1>5, <1>6, Zenon

(* A step on what the goroutine handles.                                   *)
LEMMA WorkTyped ==
  ASSUME Typed, NEW g \in Goroutines, Running(g), todo[g] # None,
         NEW h \in Handling, h.of = todo[g].of, todo' = [todo EXCEPT ![g] = h],
         h.sending # None => h.visit # <<>>,
         UNCHANGED <<now, observed, ended, refused>>,
         seenPairs' \in [dedupeKey -> Time \union {Never}],
         sent' \union lost' \subseteq [n : Notification, at : Time],
         channel' \in [Goroutines -> Seq(Notification)],
         \A k \in Goroutines : Len(channel'[k]) <= Capacity,
         channel'["watch"] \in Seq([of : Warnings, uid : Uids])
  PROVE  /\ Typed'
         /\ todo'[g] = h /\ h # None
         /\ \A k \in Goroutines : k # g => todo'[k] = todo[k]
<1>1. todo \in [Goroutines -> Handling \union {None}] /\ h # None
  BY ConstantsAssumption, Zenon DEF Typed, TypeOK
<1>2. g = "watch" => h.of \in Warnings
  BY Zenon DEF Typed, ByWatch
<1>3. /\ UNCHANGED <<now, existing, watching, ended>>
      /\ queue' \subseteq queue /\ dropsCh' \subseteq dropsCh
      /\ refused' \subseteq Warnings \union Flows
  BY Zenon DEF observed, Typed, TypeOK
<1>4. Typed'
  BY <1>2, <1>3, HandlerTyped, Zenon
<1> QED
  BY <1>1, <1>4, Zenon

(* A step of a handler that neither marks nor sends.                       *)
Idles(g) ==
  /\ ~Busy(g) /\ UNCHANGED <<now, observed, seenPairs, channel, ended, history>>
  /\ \E h \in Handling :
       /\ todo' = [todo EXCEPT ![g] = h]
       /\ h.of = todo[g].of /\ h.sending = None

(* tryMarkSeen marks the pair of the goroutine's observation and u.        *)
Marking(g, u) ==
  LET k == <<KeyOf[todo[g].of], u>>
  IN  /\ ~Busy(g) /\ ~RecentlySeen(k) /\ seenPairs' = [seenPairs EXCEPT ![k] = now]
      /\ UNCHANGED <<now, observed, channel, ended, history>>
      /\ \E h \in Handling :
           /\ todo' = [todo EXCEPT ![g] = h] /\ h.of = todo[g].of
           /\ h.sending = u /\ h.at = now /\ h.visit # <<>>

LEMMA VisitCases ==
  ASSUME TypeOK, NEW g \in Goroutines, NEW u \in Uids, Visit(g, u)
  PROVE  todo[g] # None /\ Running(g) /\ (Idles(g) \/ Marking(g, u))
<1> DEFINE x == todo[g]
           k == <<KeyOf[todo[g].of], u>>
<1>1. x # None /\ x.sending = None /\ Running(g) /\ x.visit # <<>>
  BY Zenon DEF Visit, Visiting
<1>2. x \in Handling /\ x.visit \in Seq(SUBSET Uids) /\ now \in Time
  BY <1>1, HandlingType, Zenon DEF TypeOK
<1>3. Rest(g, u) \in Seq(SUBSET Uids) /\ Rest(g, u) # <<>>
  BY <1>1, <1>2, RestType, Zenon DEF Rest
<1>4. CASE RecentlySeen(k)
  <2>1. todo' = [todo EXCEPT ![g] = [x EXCEPT !.visit = Rest(g, u)]]
    BY <1>4, Zenon DEF Visit
  <2>2. UNCHANGED <<now, observed, seenPairs, channel, ended, history>>
    BY <1>4, Zenon DEF Visit
  <2>3. [x EXCEPT !.visit = Rest(g, u)] \in Handling
        /\ [x EXCEPT !.visit = Rest(g, u)].of = x.of
        /\ [x EXCEPT !.visit = Rest(g, u)].sending = None
    BY <1>1, <1>2, <1>3, Zenon DEF Handling
  <2> QED
    BY <1>1, <2>1, <2>2, <2>3, Zenon DEF Idles, Busy
<1>5. CASE ~RecentlySeen(k)
  <2> DEFINE h == [x EXCEPT !.visit = Rest(g, u), !.sending = u, !.at = now]
  <2>1. todo' = [todo EXCEPT ![g] = h]
    BY <1>5, Zenon DEF Visit
  <2>2. UNCHANGED <<now, observed, channel, ended, history>> /\ seenPairs' = [seenPairs EXCEPT ![k] = now]
    BY <1>5, Zenon DEF Visit
  <2>3. h \in Handling /\ h.of = x.of /\ h.sending = u /\ h.at = now /\ h.visit = Rest(g, u)
    BY <1>1, <1>2, <1>3, Zenon DEF Handling
  <2> HIDE DEF h
  <2> QED
    BY <1>1, <1>3, <1>5, <2>1, <2>2, <2>3, Zenon DEF Marking, Busy
<1> QED
  BY <1>4, <1>5, Zenon

LEMMA NextNamespaceIdles ==
  ASSUME TypeOK, NEW g \in Goroutines, NextNamespace(g)
  PROVE  todo[g] # None /\ Running(g) /\ Idles(g)
<1> DEFINE x == todo[g]
<1>1. x # None /\ x.sending = None /\ Running(g) /\ x.visit # <<>>
  BY Zenon DEF NextNamespace, Visiting
<1>2. x \in Handling /\ Tail(x.visit) \in Seq(SUBSET Uids)
  BY <1>1, HandlingType
<1>3. todo' = [todo EXCEPT ![g] = [x EXCEPT !.visit = Tail(x.visit)]]
  BY <1>2, Zenon DEF NextNamespace, TypeOK
<1>4. UNCHANGED <<now, observed, seenPairs, channel, ended, history>>
  BY Zenon DEF NextNamespace
<1>5. [x EXCEPT !.visit = Tail(x.visit)] \in Handling
      /\ [x EXCEPT !.visit = Tail(x.visit)].of = x.of
      /\ [x EXCEPT !.visit = Tail(x.visit)].sending = None
  BY <1>1, <1>2, Zenon DEF Handling
<1> QED
  BY <1>1, <1>3, <1>4, <1>5, Zenon DEF Idles, Busy

(* The mark of a goroutine is taken from it.                               *)
Unmarks(g) ==
  /\ Busy(g) /\ UNCHANGED <<now, observed, seenPairs, ended, refused>>
  /\ \E h \in Handling :
       todo' = [todo EXCEPT ![g] = h] /\ h.of = todo[g].of /\ h.sending = None

LEMMA SendUnmarks ==
  ASSUME Typed, NEW g \in Goroutines, Send(g) \/ SendCancelled(g) \/ SendDefault(g)
  PROVE  Running(g) /\ Unmarks(g)
<1> DEFINE x == todo[g]
<1>1. x # None /\ x.sending # None /\ Running(g)
  BY Zenon DEF Send, SendCancelled, SendDefault, Sending
<1>2. /\ x \in Handling /\ todo \in [Goroutines -> Handling \union {None}]
      /\ x.visit \in Seq(SUBSET Uids) /\ x.visit # <<>>
  BY <1>1, HandlingType, Zenon DEF Typed, TypeOK, InNamespace, Busy
<1>3. UNCHANGED <<now, observed, seenPairs, ended, refused>>
  BY Zenon DEF Send, SendCancelled, SendDefault
<1>4. CASE Send(g) \/ SendDefault(g)
  <2> DEFINE h == [x EXCEPT !.sending = None]
  <2>1. todo' = [todo EXCEPT ![g] = h]
    BY <1>2, <1>4, Zenon DEF Send, SendDefault
  <2>2. h \in Handling /\ h.of = x.of /\ h.sending = None
    BY <1>2, Zenon DEF Handling
  <2> HIDE DEF h
  <2> QED
    BY <1>1, <1>3, <2>1, <2>2, Zenon DEF Unmarks, Busy
<1>5. CASE SendCancelled(g)
  <2> DEFINE h == [x EXCEPT !.sending = None, !.visit = Tail(x.visit)]
  <2>1. todo' = [todo EXCEPT ![g] = h]
    BY <1>2, <1>5, Zenon DEF SendCancelled
  <2>2. Tail(x.visit) \in Seq(SUBSET Uids)
    BY <1>2
  <2>3. h \in Handling /\ h.of = x.of /\ h.sending = None
    BY <1>2, <2>2, Zenon DEF Handling
  <2> HIDE DEF h
  <2> QED
    BY <1>1, <1>3, <2>1, <2>3, Zenon DEF Unmarks, Busy
<1> QED
  BY <1>4, <1>5, Zenon

LEMMA MarkedType ==
  ASSUME Typed, NEW g \in Goroutines, Busy(g)
  PROVE  /\ Marked(g) \in [n : Notification, at : Time]
         /\ Marked(g).n = [of |-> todo[g].of, uid |-> todo[g].sending] /\ Marked(g).at = todo[g].at
         /\ MarkKey(g) = <<KeyOf[Marked(g).n.of], Marked(g).n.uid>> /\ MarkKey(g) \in dedupeKey
         /\ Marked(g).n \in Notification
         /\ g = "watch" => Marked(g).n \in [of : Warnings, uid : Uids]
<1>1. /\ todo[g].of \in Warnings \union Flows /\ todo[g].sending \in Uids /\ todo[g].at \in Time
      /\ KeyOf[todo[g].of] \in Keys
  BY HandlingType, Zenon DEF Typed, Busy
<1>2. g = "watch" => todo[g].of \in Warnings
  BY Zenon DEF Typed, ByWatch, Busy
<1> QED
  BY <1>1, <1>2, Zenon DEF Marked, MarkKey, Notification, dedupeKey

LEMMA HandleTyped ==
  ASSUME Typed, NEW g \in Goroutines, Handle(g)
  PROVE  Typed'
<1>1. TypeOK /\ channel["watch"] \in Seq([of : Warnings, uid : Uids])
  BY Zenon DEF Typed, ByWatch
<1>2. ASSUME todo[g] # None, Running(g), Idles(g) PROVE Typed'
  BY <1>1, <1>2, WorkTyped, Zenon DEF Idles, TypeOK, history
<1>3. ASSUME NEW u \in Uids, todo[g] # None, Running(g), Marking(g, u) PROVE Typed'
  <2>1. <<KeyOf[todo[g].of], u>> \in dedupeKey /\ now \in Time
    BY <1>1, <1>3, HandlingType, Zenon DEF dedupeKey, TypeOK
  <2>2. seenPairs' \in [dedupeKey -> Time \union {Never}]
    BY <1>1, <1>3, <2>1, Zenon DEF Marking, TypeOK
  <2> QED
    BY <1>1, <1>3, <2>2, WorkTyped, Zenon DEF Marking, TypeOK, history
<1>4. ASSUME NEW u \in Uids, Visit(g, u) PROVE Typed'
  BY <1>1, <1>2, <1>3, <1>4, VisitCases, Zenon
<1>5. CASE NextNamespace(g)
  BY <1>1, <1>2, <1>5, NextNamespaceIdles, Zenon
<1>6. CASE Return(g)
  <2>1. Running(g) /\ todo' = [todo EXCEPT ![g] = None]
        /\ UNCHANGED <<now, observed, seenPairs, channel, ended, history>>
    BY <1>6, Zenon DEF Return
  <2> QED
    BY <1>1, <2>1, HandlerTyped, Zenon DEF TypeOK, observed, history
<1>7. CASE Send(g)
  <2>1. Running(g) /\ Unmarks(g) /\ Busy(g) /\ todo[g] # None
    BY <1>1, <1>7, SendUnmarks, Zenon DEF Unmarks, Busy
  <2>2. sent' \union lost' \subseteq [n : Notification, at : Time]
    BY <1>1, <1>7, <2>1, MarkedType, Zenon DEF Send, TypeOK
  <2>3. channel' \in [Goroutines -> Seq(Notification)]
    <3>1. channel[g] \in Seq(Notification) /\ Marked(g).n \in Notification
      BY <1>1, <2>1, MarkedType, Zenon DEF TypeOK
    <3>2. Append(channel[g], Marked(g).n) \in Seq(Notification)
      BY <3>1
    <3>3. channel' = [channel EXCEPT ![g] = Append(channel[g], Marked(g).n)]
      BY <1>7, Zenon DEF Send
    <3> QED
      BY <1>1, <3>2, <3>3, Zenon DEF TypeOK
  <2>4. \A k \in Goroutines : Len(channel'[k]) <= Capacity
    <3>1. channel[g] \in Seq(Notification) /\ Len(channel[g]) < Capacity
      BY <1>1, <1>7, Zenon DEF Send, HasRoom, TypeOK
    <3>2. Len(Append(channel[g], Marked(g).n)) = Len(channel[g]) + 1
      BY <3>1
    <3>3. channel' = [channel EXCEPT ![g] = Append(channel[g], Marked(g).n)]
      BY <1>7, Zenon DEF Send
    <3> QED
      BY <1>1, <3>1, <3>2, <3>3, ConstantsAssumption DEF TypeOK
  <2>5. channel'["watch"] \in Seq([of : Warnings, uid : Uids])
    <3>1. channel' = [channel EXCEPT ![g] = Append(channel[g], Marked(g).n)]
      BY <1>7, Zenon DEF Send
    <3>2. CASE g = "watch"
      <4>1. Marked(g).n \in [of : Warnings, uid : Uids]
        BY <2>1, <3>2, MarkedType, Zenon
      <4>2. Append(channel[g], Marked(g).n) \in Seq([of : Warnings, uid : Uids])
        BY <1>1, <3>2, <4>1
      <4> QED
        BY <1>1, <3>1, <3>2, <4>2, Zenon DEF TypeOK
    <3>3. CASE g # "watch"
      BY <1>1, <3>1, <3>3, Zenon DEF TypeOK, Goroutines
    <3> QED
      BY <3>2, <3>3, Zenon
  <2> QED
    BY <1>1, <2>1, <2>2, <2>3, <2>4, <2>5, WorkTyped, Zenon DEF Unmarks, TypeOK
<1>8. CASE SendCancelled(g) \/ SendDefault(g)
  <2>1. Running(g) /\ Unmarks(g) /\ Busy(g) /\ todo[g] # None
    BY <1>1, <1>8, SendUnmarks, Zenon DEF Unmarks, Busy
  <2>2. sent' \union lost' \subseteq [n : Notification, at : Time] /\ channel' = channel
    BY <1>1, <1>8, <2>1, MarkedType, Zenon DEF SendCancelled, SendDefault, TypeOK
  <2> QED
    BY <1>1, <2>1, <2>2, WorkTyped, Zenon DEF Unmarks, TypeOK
<1>9. CASE SendPanics(g)
  BY <1>9, QuietTyped, Zenon DEF SendPanics
<1> QED
  BY <1>4, <1>5, <1>6, <1>7, <1>8, <1>9, Zenon DEF Handle

LEMMA ReceiveTyped ==
  ASSUME Typed, NEW g \in Goroutines, Receive(g)
  PROVE  Typed'
<1>1. /\ channel \in [Goroutines -> Seq(Notification)] /\ channel[g] # <<>>
      /\ channel' = [channel EXCEPT ![g] = Tail(channel[g])]
  BY Zenon DEF Receive, Typed, TypeOK
<1>2. Tail(channel[g]) \in Seq(Notification) /\ Len(Tail(channel[g])) = Len(channel[g]) - 1
  BY <1>1
<1>3. /\ channel' \in [Goroutines -> Seq(Notification)]
      /\ \A k \in Goroutines : Len(channel'[k]) <= Capacity
  <2>1. \A k \in Goroutines : Len(channel[k]) \in Nat /\ Len(channel[k]) <= Capacity
    BY <1>1 DEF Typed, TypeOK
  <2> QED
    BY <1>1, <1>2, <2>1, ConstantsAssumption
<1>4. channel'["watch"] \in Seq([of : Warnings, uid : Uids])
  <2>1. channel["watch"] \in Seq([of : Warnings, uid : Uids])
    BY Zenon DEF Typed, ByWatch
  <2> QED
    BY <1>1, <2>1 DEF Goroutines
<1> QED
  BY <1>3, <1>4, Zenon DEF Receive, Typed, TypeOK, ByWatch, Closing, InNamespace, Busy, observed, ended, history

LEMMA TypedStep == Typed /\ [Next]_vars => Typed'
<1> SUFFICES ASSUME Typed, [Next]_vars PROVE Typed'
  BY Zenon
<1>1. CASE Environment
  BY <1>1, QuietTyped, Zenon DEF Environment, CreateWarning, ModifyWarning, ObserveDrop, WatchCloses, Tick, Cancel
<1>2. CASE Watch \/ StopWatch \/ StopFlow
  BY <1>2, QuietTyped, Zenon DEF Watch, StopWatch, StopFlow
<1>3. ASSUME NEW e \in Warnings, TakeEvent(e) PROVE Typed'
  <2>1. /\ Running("watch") /\ Begin("watch", e) /\ queue' \subseteq queue /\ dropsCh' \subseteq dropsCh
        /\ UNCHANGED <<now, existing, watching, seenPairs, channel, ended, sent, lost>>
    BY <1>3, Zenon DEF TakeEvent, Idle
  <2> QED
    BY <2>1, BeginTyped, Zenon DEF Goroutines
<1>4. ASSUME NEW f \in Flows, TakeDrop(f) PROVE Typed'
  <2>1. /\ Running("flow") /\ Begin("flow", f) /\ queue' \subseteq queue /\ dropsCh' \subseteq dropsCh
        /\ UNCHANGED <<now, existing, watching, seenPairs, channel, ended, sent, lost>>
    BY <1>4, Zenon DEF TakeDrop, Idle
  <2> QED
    BY <2>1, BeginTyped, Zenon DEF Goroutines
<1>5. CASE Handle("watch") \/ Handle("flow")
  BY <1>5, HandleTyped, Zenon DEF Goroutines
<1>6. CASE Cleanup
  BY <1>6, Zenon DEF Cleanup, Typed, TypeOK, ByWatch, Closing, InNamespace, Busy, observed, ended, history
<1>7. ASSUME NEW g \in Goroutines, Receive(g) PROVE Typed'
  BY <1>7, ReceiveTyped, Zenon
<1>8. CASE UNCHANGED vars
  BY <1>8, Zenon DEF vars, Typed, TypeOK, ByWatch, Closing, InNamespace, Busy
<1> QED
  BY <1>1, <1>2, <1>3, <1>4, <1>5, <1>6, <1>7, <1>8, Zenon DEF Next, WatchLoop, FlowLoop

(* A step that marks nothing, forgets nothing and sends nothing.           *)
LEMMA QuietMarks ==
  ASSUME Typed, Marks, UNCHANGED <<now, seenPairs, sent>>,
         \A g \in Goroutines : Busy(g)' => todo'[g] = todo[g]
  PROVE  Marks'
<1>1. SeenNotAhead' /\ SentRemembered' /\ OncePerWindow'
  BY Zenon DEF Marks, SeenNotAhead, SentRemembered, OncePerWindow, Remembered
<1>2. \A g \in Goroutines : Busy(g)' => Busy(g) /\ todo'[g] = todo[g]
  BY Zenon DEF Busy
<1>3. MarkedRemembered'
  BY <1>2, Zenon DEF Marks, MarkedRemembered, Remembered, MarkKey
<1>4. MarkedApart' /\ MarkedApartFromSent'
  BY <1>2 DEF Marks, MarkedApart, MarkedApartFromSent, Apart, MarkKey
<1> QED
  BY <1>1, <1>3, <1>4, Zenon DEF Marks

(* tryMarkSeen lets a pair pass only when every earlier mark of it is a    *)
(* window old.                                                             *)
LEMMA MarkingMarks ==
  ASSUME Typed, Marks, NEW g \in Goroutines, NEW u \in Uids, todo[g] # None, Marking(g, u)
  PROVE  Marks'
<1> DEFINE k == <<KeyOf[todo[g].of], u>>
<1>1. PICK h \in Handling : /\ todo' = [todo EXCEPT ![g] = h] /\ h.of = todo[g].of
                            /\ h.sending = u /\ h.at = now
  BY Zenon DEF Marking
<1>2. /\ ~RecentlySeen(k) /\ seenPairs' = [seenPairs EXCEPT ![k] = now]
      /\ now' = now /\ sent' = sent /\ lost' = lost
  BY Zenon DEF Marking, history
<1>3. /\ k \in dedupeKey /\ now \in Nat /\ Window \in Nat \ {0} /\ Never \notin Nat
      /\ seenPairs \in [dedupeKey -> Nat \union {Never}]
      /\ todo \in [Goroutines -> Handling \union {None}]
  BY HandlingType, ConstantsAssumption DEF Typed, TypeOK, dedupeKey, Time
<1>4. /\ todo'[g] = h /\ MarkKey(g)' = k /\ Busy(g)'
      /\ \A i \in Goroutines : i # g => todo'[i] = todo[i]
  BY <1>1, <1>3, ConstantsAssumption, Zenon DEF MarkKey, Busy
<1>5. ASSUME NEW t \in Nat, Remembered(k, t)
      PROVE  now - t >= Window
  BY <1>2, <1>3, <1>5 DEF RecentlySeen, Remembered
<1>6. ASSUME NEW q \in dedupeKey, NEW t \in Nat, Remembered(q, t)
      PROVE  /\ t <= now
             /\ \/ seenPairs'[q] # Never /\ t <= seenPairs'[q]
                \/ now - t >= Window
  BY <1>2, <1>3, <1>6, Zenon DEF Remembered
<1>7. SeenNotAhead'
  BY <1>2, <1>3 DEF Marks, SeenNotAhead
<1>8. \A m \in sent : <<KeyOf[m.n.of], m.n.uid>> \in dedupeKey /\ m.at \in Nat
  BY ConstantsAssumption DEF Typed, TypeOK, Notification, dedupeKey, Time
<1>9. SentRemembered'
  BY <1>2, <1>6, <1>8, Zenon DEF Marks, SentRemembered, Remembered
<1>10. \A i \in Goroutines : Busy(i) => MarkKey(i) \in dedupeKey /\ todo[i].at \in Nat
  BY HandlingType, ConstantsAssumption DEF Typed, Busy, MarkKey, dedupeKey, Time
<1>11. \A i \in Goroutines : i # g => MarkKey(i)' = MarkKey(i) /\ (Busy(i)' <=> Busy(i))
  BY <1>4, Zenon DEF MarkKey, Busy
<1>12. MarkedRemembered'
  <2> SUFFICES ASSUME NEW i \in Goroutines, Busy(i)'
               PROVE  Remembered(MarkKey(i), todo[i].at)'
    BY Zenon DEF MarkedRemembered
  <2>1. CASE i = g
    BY <1>1, <1>2, <1>3, <1>4, <2>1 DEF Remembered
  <2>2. CASE i # g
    <3>1. Busy(i) /\ MarkKey(i)' = MarkKey(i) /\ todo'[i] = todo[i]
      BY <1>4, <1>11, <2>2, Zenon
    <3>2. Remembered(MarkKey(i), todo[i].at)
      BY <3>1, Zenon DEF Marks, MarkedRemembered
    <3>3. /\ todo[i].at <= now
          /\ \/ seenPairs'[MarkKey(i)] # Never /\ todo[i].at <= seenPairs'[MarkKey(i)]
             \/ now - todo[i].at >= Window
      BY <1>6, <1>10, <3>1, <3>2, Zenon
    <3> QED
      BY <1>2, <3>1, <3>3, Zenon DEF Remembered
  <2> QED
    BY <2>1, <2>2, Zenon
<1>13. ASSUME NEW i \in Goroutines, i # g, Busy(i), MarkKey(i) = k
       PROVE  now - todo[i].at >= Window
  BY <1>5, <1>10, <1>13, Zenon DEF Marks, MarkedRemembered
<1>14. MarkedApart'
  <2> SUFFICES ASSUME NEW i \in Goroutines, NEW j \in Goroutines, i # j,
                      Busy(i)', Busy(j)', MarkKey(i)' = MarkKey(j)'
               PROVE  Apart(todo'[i].at, todo'[j].at)
    BY Zenon DEF MarkedApart, Apart
  <2>1. CASE i = g
    BY <1>1, <1>4, <1>11, <1>13, <2>1, Zenon DEF Apart
  <2>2. CASE j = g
    BY <1>1, <1>4, <1>11, <1>13, <2>2, Zenon DEF Apart
  <2>3. CASE i # g /\ j # g
    BY <1>4, <1>11, <2>3, Zenon DEF Marks, MarkedApart
  <2> QED
    BY <2>1, <2>2, <2>3, Zenon
<1>15. MarkedApartFromSent'
  <2> SUFFICES ASSUME NEW i \in Goroutines, NEW m \in sent, Busy(i)',
                      MarkKey(i)' = <<KeyOf[m.n.of], m.n.uid>>
               PROVE  Apart(todo'[i].at, m.at)
    BY <1>2, Zenon DEF MarkedApartFromSent, Apart
  <2>1. CASE i = g
    <3>1. Remembered(k, m.at) /\ m.at \in Nat
      BY <1>4, <1>8, <2>1, Zenon DEF Marks, SentRemembered
    <3> QED
      BY <1>1, <1>4, <1>5, <2>1, <3>1, Zenon DEF Apart
  <2>2. CASE i # g
    BY <1>4, <1>11, <2>2, Zenon DEF Marks, MarkedApartFromSent
  <2> QED
    BY <2>1, <2>2, Zenon
<1>16. OncePerWindow'
  BY <1>2, Zenon DEF Marks, OncePerWindow
<1> QED
  BY <1>7, <1>9, <1>12, <1>14, <1>15, <1>16, Zenon DEF Marks

LEMMA UnmarksFacts ==
  ASSUME Typed, NEW g \in Goroutines, Unmarks(g)
  PROVE  /\ todo[g] # None /\ ~Busy(g)'
         /\ \A i \in Goroutines : i # g => todo'[i] = todo[i]
BY Zenon DEF Typed, TypeOK, Unmarks, Busy

(* What is sent takes over the mark of its goroutine.                      *)
LEMMA SendMarks ==
  ASSUME Typed, Marks, NEW g \in Goroutines, Unmarks(g), sent' = sent \union {Marked(g)}
  PROVE  Marks'
<1> DEFINE new == Marked(g)
<1>1. now' = now /\ seenPairs' = seenPairs /\ Busy(g)
  BY Zenon DEF Unmarks
<1>2. <<KeyOf[new.n.of], new.n.uid>> = MarkKey(g) /\ new.at = todo[g].at
  BY <1>1, MarkedType, Zenon
<1>3. /\ ~Busy(g)'
      /\ \A i \in Goroutines : i # g => MarkKey(i)' = MarkKey(i) /\ (Busy(i)' <=> Busy(i)) /\ todo'[i] = todo[i]
  BY UnmarksFacts, Zenon DEF MarkKey, Busy
<1> HIDE DEF new
<1>4. SeenNotAhead'
  BY <1>1, Zenon DEF Marks, SeenNotAhead
<1>5. SentRemembered'
  <2>1. Remembered(MarkKey(g), new.at)
    BY <1>1, <1>2, Zenon DEF Marks, MarkedRemembered
  <2>2. ASSUME NEW m \in sent' PROVE Remembered(<<KeyOf[m.n.of], m.n.uid>>, m.at)
    BY <1>2, <2>1, <2>2, Zenon DEF new, Marks, SentRemembered
  <2> QED
    BY <1>1, <2>2, Zenon DEF SentRemembered, Remembered
<1>6. MarkedRemembered'
  BY <1>1, <1>3, Zenon DEF Marks, MarkedRemembered, Remembered
<1>7. MarkedApart'
  BY <1>3, Zenon DEF Marks, MarkedApart
<1>8. MarkedApartFromSent'
  <2> SUFFICES ASSUME NEW i \in Goroutines, NEW m \in sent', Busy(i)',
                      MarkKey(i)' = <<KeyOf[m.n.of], m.n.uid>>
               PROVE  Apart(todo'[i].at, m.at)
    BY Zenon DEF MarkedApartFromSent, Apart
  <2>1. i # g /\ MarkKey(i)' = MarkKey(i) /\ Busy(i) /\ todo'[i] = todo[i]
    BY <1>3, Zenon
  <2>2. CASE m = new
    BY <1>1, <1>2, <2>1, <2>2, Zenon DEF Marks, MarkedApart
  <2>3. CASE m \in sent
    BY <2>1, <2>3, Zenon DEF Marks, MarkedApartFromSent
  <2> QED
    BY <2>2, <2>3, Zenon DEF new
<1>9. OncePerWindow'
  <2> SUFFICES ASSUME NEW a \in sent', NEW b \in sent',
                      a # b, a.n.uid = b.n.uid, KeyOf[a.n.of] = KeyOf[b.n.of]
               PROVE  Apart(a.at, b.at)
    BY Zenon DEF OncePerWindow, Apart
  <2>1. ASSUME NEW m \in sent, new.n.uid = m.n.uid, KeyOf[new.n.of] = KeyOf[m.n.of]
        PROVE  Apart(new.at, m.at) /\ Apart(m.at, new.at)
    BY <1>1, <1>2, <2>1, Zenon DEF Marks, MarkedApartFromSent, Apart
  <2>2. CASE a = new
    BY <2>1, <2>2, Zenon DEF new
  <2>3. CASE b = new
    BY <2>1, <2>3, Zenon DEF new
  <2>4. CASE a \in sent /\ b \in sent
    BY <2>4, Zenon DEF Marks, OncePerWindow, Apart
  <2> QED
    BY <2>2, <2>3, <2>4, Zenon DEF new
<1> QED
  BY <1>4, <1>5, <1>6, <1>7, <1>8, <1>9, Zenon DEF Marks

(* The passing of time, and the removal of entries older than the window,  *)
(* forget no mark that matters.                                            *)
LEMMA ForgetMarks ==
  ASSUME Typed, Marks, Cleanup \/ Tick
  PROVE  Marks'
<1>1. UNCHANGED <<todo, sent, lost>>
  BY Zenon DEF Cleanup, Tick, history
<1>2. /\ now \in Nat /\ now' \in Nat /\ now <= now' /\ Window \in Nat \ {0} /\ Never \notin Nat
      /\ seenPairs \in [dedupeKey -> Nat \union {Never}]
  BY ConstantsAssumption DEF Typed, TypeOK, Time, Cleanup, Tick
<1>3. ASSUME NEW k \in dedupeKey, NEW t \in Nat, Remembered(k, t)
      PROVE  /\ t <= now'
             /\ \/ seenPairs'[k] # Never /\ t <= seenPairs'[k]
                \/ now' - t >= Window
  <2>1. CASE Tick
    BY <1>2, <1>3, <2>1 DEF Tick, Remembered
  <2>2. CASE Cleanup /\ Expired(k)
    BY <1>2, <1>3, <2>2 DEF Cleanup, Remembered, Expired
  <2>3. CASE Cleanup /\ ~Expired(k)
    BY <1>2, <1>3, <2>3, Zenon DEF Cleanup, Remembered
  <2> QED
    BY <2>1, <2>2, <2>3, Zenon
<1>4. SeenNotAhead'
  <2> SUFFICES ASSUME NEW k \in dedupeKey, seenPairs'[k] # Never
               PROVE  seenPairs'[k] <= now'
    BY Zenon DEF SeenNotAhead
  <2>1. seenPairs'[k] = seenPairs[k]
    BY Zenon DEF Cleanup, Tick
  <2> QED
    BY <1>2, <2>1 DEF Marks, SeenNotAhead
<1>5. SentRemembered'
  <2> SUFFICES ASSUME NEW m \in sent PROVE Remembered(<<KeyOf[m.n.of], m.n.uid>>, m.at)'
    BY <1>1, Zenon DEF SentRemembered
  <2>1. <<KeyOf[m.n.of], m.n.uid>> \in dedupeKey /\ m.at \in Nat
    BY ConstantsAssumption DEF Typed, TypeOK, Notification, dedupeKey, Time
  <2> QED
    BY <1>3, <2>1, Zenon DEF Marks, SentRemembered, Remembered
<1>6. MarkedRemembered'
  <2> SUFFICES ASSUME NEW g \in Goroutines, Busy(g)
               PROVE  /\ todo[g].at <= now'
                      /\ \/ seenPairs'[MarkKey(g)] # Never /\ todo[g].at <= seenPairs'[MarkKey(g)]
                         \/ now' - todo[g].at >= Window
    BY <1>1, Zenon DEF MarkedRemembered, Remembered, MarkKey, Busy
  <2>1. MarkKey(g) \in dedupeKey /\ todo[g].at \in Nat
    BY HandlingType, ConstantsAssumption DEF Typed, Busy, MarkKey, dedupeKey, Time
  <2> QED
    BY <1>3, <2>1, Zenon DEF Marks, MarkedRemembered
<1>7. MarkedApart' /\ MarkedApartFromSent' /\ OncePerWindow'
  BY <1>1, Zenon DEF Marks, MarkedApart, MarkedApartFromSent, OncePerWindow, Apart, MarkKey, Busy
<1> QED
  BY <1>4, <1>5, <1>6, <1>7, Zenon DEF Marks

LEMMA MarksStep == Typed /\ Marks /\ [Next]_vars => Marks'
<1> SUFFICES ASSUME Typed, Marks, [Next]_vars PROVE Marks'
  BY Zenon
<1>0. todo \in [Goroutines -> Handling \union {None}] /\ TypeOK
  BY Zenon DEF Typed, TypeOK
<1>1. CASE Tick \/ Cleanup
  BY <1>1, ForgetMarks, Zenon
<1>2. ASSUME UNCHANGED <<now, seenPairs, sent, todo>> PROVE Marks'
  BY <1>2, QuietMarks, Zenon
<1>3. CASE Environment \/ Watch \/ StopWatch \/ StopFlow \/ \E g \in Goroutines : Receive(g)
  BY <1>1, <1>2, <1>3, Zenon DEF Environment, CreateWarning, ModifyWarning, ObserveDrop, WatchCloses,
     Cancel, Watch, StopWatch, StopFlow, Receive, history
<1>4. ASSUME NEW g \in Goroutines, NEW x, Begin(g, x), UNCHANGED <<now, seenPairs, sent>> PROVE Marks'
  <2>1. \A i \in Goroutines : Busy(i)' => todo'[i] = todo[i]
    BY <1>0, <1>4 DEF Begin, Busy
  <2> QED
    BY <1>4, <2>1, QuietMarks, Zenon
<1>5. ASSUME NEW e \in Warnings, TakeEvent(e) PROVE Marks'
  BY <1>4, <1>5, Zenon DEF TakeEvent, Goroutines
<1>6. ASSUME NEW f \in Flows, TakeDrop(f) PROVE Marks'
  BY <1>4, <1>6, Zenon DEF TakeDrop, Goroutines
<1>7. ASSUME NEW g \in Goroutines, Idles(g) PROVE Marks'
  <2>1. \A i \in Goroutines : Busy(i)' => todo'[i] = todo[i]
    BY <1>0, <1>7, Zenon DEF Idles, Busy
  <2> QED
    BY <1>7, <2>1, QuietMarks, Zenon DEF Idles, history
<1>8. ASSUME NEW g \in Goroutines, NEW u \in Uids, Visit(g, u) PROVE Marks'
  BY <1>0, <1>7, <1>8, VisitCases, MarkingMarks, Zenon
<1>9. ASSUME NEW g \in Goroutines, Return(g) PROVE Marks'
  <2>1. \A i \in Goroutines : Busy(i)' => todo'[i] = todo[i]
    BY <1>0, <1>9, Zenon DEF Return, Busy
  <2> QED
    BY <1>9, <2>1, QuietMarks, Zenon DEF Return, history
<1>10. ASSUME NEW g \in Goroutines, Send(g) PROVE Marks'
  BY <1>10, SendUnmarks, SendMarks, Zenon DEF Send
<1>11. ASSUME NEW g \in Goroutines, SendCancelled(g) \/ SendDefault(g) PROVE Marks'
  <2>1. Unmarks(g) /\ sent' = sent
    BY <1>11, SendUnmarks, Zenon DEF SendCancelled, SendDefault
  <2>2. \A i \in Goroutines : Busy(i)' => todo'[i] = todo[i]
    BY <2>1, UnmarksFacts, Zenon
  <2> QED
    BY <2>1, <2>2, QuietMarks, Zenon DEF Unmarks
<1>12. ASSUME NEW g \in Goroutines, Handle(g) PROVE Marks'
  <2>1. CASE NextNamespace(g)
    BY <1>0, <1>7, <2>1, NextNamespaceIdles, Zenon
  <2>2. CASE SendPanics(g)
    BY <1>2, <2>2, Zenon DEF SendPanics, history
  <2> QED
    BY <1>8, <1>9, <1>10, <1>11, <1>12, <2>1, <2>2, Zenon DEF Handle
<1>13. CASE UNCHANGED vars
  BY <1>2, <1>13, Zenon DEF vars
<1> QED
  BY <1>1, <1>3, <1>5, <1>6, <1>12, <1>13, Zenon DEF Next, WatchLoop, FlowLoop, Goroutines

LEMMA CorrelatorInit == Init => Typed /\ Marks
<1> SUFFICES ASSUME Init PROVE Typed /\ Marks
  BY Zenon
<1>1. TypeOK
  <2>1. /\ channel \in [Goroutines -> Seq(Notification)]
        /\ \A g \in Goroutines : Len(channel[g]) <= Capacity
    BY ConstantsAssumption DEF Init
  <2>2. {watching, cancelled, closed, flowExited, panicked} \subseteq BOOLEAN
    BY Zenon DEF Init
  <2> QED
    BY <2>1, <2>2, ConstantsAssumption DEF Init, TypeOK, Time
<1>2. ByWatch /\ Closing /\ InNamespace
  BY DEF Init, ByWatch, Closing, InNamespace, Busy, Goroutines
<1>3. Marks
  BY Zenon DEF Init, Marks, SeenNotAhead, SentRemembered, MarkedRemembered, MarkedApart,
     MarkedApartFromSent, OncePerWindow, Busy
<1> QED
  BY <1>1, <1>2, <1>3, Zenon DEF Typed

LEMMA CorrelatorInvariant == Spec => [](Typed /\ Marks)
<1>1. Typed /\ Marks /\ [Next]_vars => (Typed /\ Marks)'
  BY TypedStep, MarksStep, Zenon
<1> QED
  BY <1>1, CorrelatorInit, PTL DEF Spec

(* The two goroutines of the correlator, the replayed watches, the cleanup *)
(* and the cancelled context never let one pair of an observation's key    *)
(* and a constraint through twice within dedupeWindow.                     *)
THEOREM CorrelatedOncePerWindow == Spec => [](TypeOK /\ OncePerWindow)
<1>1. Typed /\ Marks => TypeOK /\ OncePerWindow
  BY Zenon DEF Typed, Marks
<1> QED
  BY <1>1, CorrelatorInvariant, PTL

(* The goroutine that closes the channels never sends to them afterwards:  *)
(* only the flow goroutine, about to send, can panic.                      *)
THEOREM PanicOnlyInFlow == Spec => []PanicsInFlow
<1>1. Typed /\ Marks => PanicsInFlow
  BY Zenon DEF Typed, Closing, Busy, PanicsInFlow
<1> QED
  BY <1>1, CorrelatorInvariant, PTL

(* Where a mark went: the map's entry for k is the mark of what was sent   *)
(* or lost, or of what a goroutine is about to send.                       *)
Gone(k, t) == \E m \in sent \union lost : <<KeyOf[m.n.of], m.n.uid>> = k /\ m.at = t
Held(k, t) == \E g \in Goroutines : Busy(g) /\ MarkKey(g) = k /\ todo[g].at = t

Explained == \A k \in dedupeKey : seenPairs[k] # Never => Gone(k, seenPairs[k]) \/ Held(k, seenPairs[k])

LEMMA ExplainedMeans == Typed => (Explained <=> SeenExplained)
<1> SUFFICES ASSUME Typed PROVE Explained <=> SeenExplained
  BY Zenon
<1>1. \A g \in Goroutines : Busy(g) =>
        <<KeyOf[Marked(g).n.of], Marked(g).n.uid>> = MarkKey(g) /\ Marked(g).at = todo[g].at
  BY MarkedType, Zenon
<1>2. \A g \in Goroutines : Busy(g) <=> todo[g] # None /\ todo[g].sending # None
  BY Zenon DEF Busy
<1> QED
  BY <1>1, <1>2 DEF Explained, SeenExplained, Gone, Held

(* A step that leaves the map alone or removes entries of it, and takes no *)
(* mark away.                                                              *)
LEMMA QuietExplained ==
  ASSUME Explained, sent \subseteq sent', lost \subseteq lost',
         \A k \in dedupeKey : seenPairs'[k] \in {seenPairs[k], Never},
         \A g \in Goroutines : Busy(g) => todo'[g] = todo[g] \/ Marked(g) \in sent' \union lost',
         Typed
  PROVE  Explained'
<1> SUFFICES ASSUME NEW k \in dedupeKey, seenPairs'[k] # Never
             PROVE  \/ \E m \in sent' \union lost' : <<KeyOf[m.n.of], m.n.uid>> = k /\ m.at = seenPairs'[k]
                    \/ \E g \in Goroutines : Busy(g)' /\ MarkKey(g)' = k /\ todo'[g].at = seenPairs'[k]
  BY Zenon DEF Explained, Gone, Held
<1>1. seenPairs'[k] = seenPairs[k]
  BY Zenon
<1>2. CASE Gone(k, seenPairs[k])
  BY <1>1, <1>2, Zenon DEF Gone
<1>3. CASE Held(k, seenPairs[k])
  <2>1. PICK g \in Goroutines : Busy(g) /\ MarkKey(g) = k /\ todo[g].at = seenPairs[k]
    BY <1>3, Zenon DEF Held
  <2>2. CASE todo'[g] = todo[g]
    BY <1>1, <2>1, <2>2, Zenon DEF Busy, MarkKey
  <2>3. CASE Marked(g) \in sent' \union lost'
    BY <1>1, <2>1, <2>3, MarkedType, Zenon
  <2> QED
    BY <2>1, <2>2, <2>3, Zenon
<1> QED
  BY <1>1, <1>2, <1>3, Zenon DEF Explained

LEMMA ExplainedStep == Typed /\ Explained /\ [Next]_vars => Explained'
<1> SUFFICES ASSUME Typed, Explained, [Next]_vars PROVE Explained'
  BY Zenon
<1>0. todo \in [Goroutines -> Handling \union {None}] /\ TypeOK
  BY Zenon DEF Typed, TypeOK
<1>1. ASSUME UNCHANGED <<sent, lost, todo>>, seenPairs' = seenPairs \/ Cleanup PROVE Explained'
  <2>1. \A k \in dedupeKey : seenPairs'[k] \in {seenPairs[k], Never}
    BY <1>1, Zenon DEF Cleanup
  <2> QED
    BY <1>1, <2>1, QuietExplained, Zenon
<1>2. CASE Environment \/ Watch \/ StopWatch \/ StopFlow \/ Cleanup \/ \E g \in Goroutines : Receive(g)
  BY <1>1, <1>2, Zenon DEF Environment, CreateWarning, ModifyWarning, ObserveDrop, WatchCloses, Tick,
     Cancel, Watch, StopWatch, StopFlow, Cleanup, Receive, history
<1>3. ASSUME NEW g \in Goroutines, ~Busy(g), \A i \in Goroutines : i # g => todo'[i] = todo[i],
             UNCHANGED <<sent, lost, seenPairs>>
      PROVE  Explained'
  <2>1. \A i \in Goroutines : Busy(i) => todo'[i] = todo[i]
    BY <1>3, Zenon
  <2> QED
    BY <1>3, <2>1, QuietExplained, Zenon
<1>4. ASSUME NEW e \in Warnings, TakeEvent(e) PROVE Explained'
  BY <1>0, <1>3, <1>4, Zenon DEF TakeEvent, Idle, Begin, Busy, Goroutines
<1>5. ASSUME NEW f \in Flows, TakeDrop(f) PROVE Explained'
  BY <1>0, <1>3, <1>5, Zenon DEF TakeDrop, Idle, Begin, Busy, Goroutines
<1>6. ASSUME NEW g \in Goroutines, Idles(g) PROVE Explained'
  BY <1>0, <1>3, <1>6, Zenon DEF Idles, history
<1>7. ASSUME NEW g \in Goroutines, NEW u \in Uids, todo[g] # None, Marking(g, u) PROVE Explained'
  <2> DEFINE q == <<KeyOf[todo[g].of], u>>
  <2>1. PICK h \in Handling : /\ todo' = [todo EXCEPT ![g] = h] /\ h.of = todo[g].of
                              /\ h.sending = u /\ h.at = now
    BY <1>7, Zenon DEF Marking
  <2>2. ~Busy(g) /\ seenPairs' = [seenPairs EXCEPT ![q] = now] /\ UNCHANGED <<sent, lost>>
    BY <1>7, Zenon DEF Marking, history
  <2>3. /\ todo'[g] = h /\ Busy(g)' /\ MarkKey(g)' = q /\ h # None
        /\ \A i \in Goroutines : i # g => todo'[i] = todo[i]
    BY <1>0, <2>1, ConstantsAssumption, Zenon DEF Busy, MarkKey
  <2> SUFFICES ASSUME NEW k \in dedupeKey, seenPairs'[k] # Never
               PROVE  \/ \E m \in sent' \union lost' : <<KeyOf[m.n.of], m.n.uid>> = k /\ m.at = seenPairs'[k]
                      \/ \E i \in Goroutines : Busy(i)' /\ MarkKey(i)' = k /\ todo'[i].at = seenPairs'[k]
    BY Zenon DEF Explained, Gone, Held
  <2>4. CASE k = q
    BY <1>0, <2>1, <2>2, <2>3, <2>4, Zenon DEF TypeOK
  <2>5. CASE k # q
    <3>1. seenPairs'[k] = seenPairs[k]
      BY <1>0, <2>2, <2>5, Zenon DEF TypeOK
    <3>2. \A i \in Goroutines : Busy(i) => Busy(i)' /\ MarkKey(i)' = MarkKey(i) /\ todo'[i] = todo[i]
      BY <2>2, <2>3, Zenon DEF Busy, MarkKey
    <3> QED
      BY <2>2, <3>1, <3>2, Zenon DEF Explained, Gone, Held
  <2> QED
    BY <2>4, <2>5, Zenon
<1>8. ASSUME NEW g \in Goroutines, NEW u \in Uids, Visit(g, u) PROVE Explained'
  BY <1>0, <1>6, <1>7, <1>8, VisitCases, Zenon
<1>9. ASSUME NEW g \in Goroutines, Return(g) PROVE Explained'
  BY <1>0, <1>3, <1>9, Zenon DEF Return, Busy, history
<1>10. ASSUME NEW g \in Goroutines, Send(g) \/ SendCancelled(g) \/ SendDefault(g) PROVE Explained'
  <2>1. Unmarks(g) /\ sent \subseteq sent' /\ lost \subseteq lost' /\ Marked(g) \in sent' \union lost'
    BY <1>10, SendUnmarks, Zenon DEF Send, SendCancelled, SendDefault
  <2>2. \A i \in Goroutines : Busy(i) => todo'[i] = todo[i] \/ Marked(i) \in sent' \union lost'
    BY <2>1, UnmarksFacts, Zenon
  <2>3. \A k \in dedupeKey : seenPairs'[k] \in {seenPairs[k], Never}
    BY <2>1, Zenon DEF Unmarks
  <2> QED
    BY <2>1, <2>2, <2>3, QuietExplained, Zenon
<1>11. ASSUME NEW g \in Goroutines, Handle(g) PROVE Explained'
  <2>1. CASE NextNamespace(g)
    BY <1>0, <1>6, <2>1, NextNamespaceIdles, Zenon
  <2>2. CASE SendPanics(g)
    BY <1>1, <2>2, Zenon DEF SendPanics, history
  <2> QED
    BY <1>8, <1>9, <1>10, <1>11, <2>1, <2>2, Zenon DEF Handle
<1>12. CASE UNCHANGED vars
  BY <1>1, <1>12, Zenon DEF vars
<1> QED
  BY <1>2, <1>4, <1>5, <1>11, <1>12, Zenon DEF Next, WatchLoop, FlowLoop, Goroutines

(* The correlator skips a pair as seen only when a notification of it was  *)
(* sent, is about to be sent, or was lost to a full channel or to the      *)
(* cancelled context: tryMarkSeen makes no other entry, and no step takes  *)
(* a mark from a goroutine without one of these.                           *)
THEOREM SkipsExplained == Spec => []SeenExplained
<1>1. Init => Explained
  BY Zenon DEF Init, Explained
<1>2. Typed /\ Marks => (Explained <=> SeenExplained)
  BY ExplainedMeans, Zenon
<1> QED
  BY <1>1, <1>2, ExplainedStep, CorrelatorInvariant, PTL DEF Spec

=============================================================================
