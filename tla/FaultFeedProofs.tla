---------------------------- MODULE FaultFeedProofs ----------------------------
(***************************************************************************)
(* That the fault events tell the whole story, for any number of motors    *)
(* and faults and any capacity of the queue.  What is told by a queue and  *)
(* what one pass of read() queues are recursive functions; SetInduction is *)
(* the induction they need.                                                *)
(***************************************************************************)
EXTENDS FaultFeed, SequenceTheorems, WellFoundedInduction, TLAPS

Views == [Components -> [fault : Faults, lost : BOOLEAN]]

(***************************************************************************)
(* Induction over the natural numbers, for sets: the least number outside  *)
(* of S would follow one inside.                                           *)
(***************************************************************************)
Below == {p \in Nat \X Nat : p[1] < p[2]}

LEMMA BelowIsWellFounded == IsWellFoundedOn(Below, Nat)
<1>1. Below = OpToRel(<, Nat)
  BY Zenon DEF OpToRel, Below
<1> QED  BY <1>1, NatLessThanWellFounded, Zenon

LEMMA SetInduction ==
    ASSUME NEW S, 0 \in S, \A n \in Nat : n \in S => n + 1 \in S
    PROVE  Nat \subseteq S
<1> SUFFICES ASSUME Nat \ S # {} PROVE FALSE
  OBVIOUS
<1>1. PICK x \in Nat \ S : \A y \in Nat \ S : ~(<<y, x>> \in Below)
  BY BelowIsWellFounded, WFMin, Zenon
<1>2. x # 0 /\ x \in Nat /\ x \notin S
  BY <1>1
<1>3. x - 1 \in Nat \ S /\ x - 1 < x
  BY <1>2
<1>4. <<x - 1, x>> \in Below
  BY <1>2, <1>3 DEF Below
<1> QED  BY <1>1, <1>3, <1>4

-------------------------------------------------------------------------------
(* What a queue tells *)

\* f is the recursive function by which ToldAll is defined, as far as n.
IsTold(f, n, v, queue) == f = [i \in 0..n |-> IF i = 0 THEN v ELSE Told(f[i - 1], queue[i])]

LEMMA SomeTold ==
    ASSUME NEW v, NEW queue
    PROVE  \A n \in Nat : \E f : IsTold(f, n, v, queue)
<1> DEFINE S == {n \in Nat : \E f : IsTold(f, n, v, queue)}
<1>1. 0 \in S
  <2>1. IsTold([i \in 0..0 |-> v], 0, v, queue)
    BY DEF IsTold
  <2> QED  BY <2>1
<1>2. ASSUME NEW n \in Nat, n \in S PROVE n + 1 \in S
  <2>1. PICK f : IsTold(f, n, v, queue)
    BY <1>2
  <2> DEFINE g == [i \in 0..(n + 1) |-> IF i = n + 1 THEN Told(f[n], queue[n + 1]) ELSE f[i]]
  <2>2. IsTold(g, n + 1, v, queue)
    <3>1. g = [i \in 0..(n + 1) |-> g[i]]
      OBVIOUS
    <3>2. ASSUME NEW i \in 0..(n + 1)
          PROVE  g[i] = IF i = 0 THEN v ELSE Told(g[i - 1], queue[i])
      <4>1. CASE i = 0
        BY <4>1, <2>1 DEF IsTold
      <4>2. CASE i # 0 /\ i # n + 1
        <5>1. i \in 0..n /\ i - 1 \in 0..n /\ i - 1 # n + 1 /\ i - 1 \in 0..(n + 1)
          BY <4>2
        <5>2. f[i] = Told(f[i - 1], queue[i])
          BY <5>1, <4>2, <2>1 DEF IsTold
        <5> QED  BY <5>1, <5>2, <4>2
      <4>3. CASE i = n + 1
        BY <4>3
      <4> QED  BY <4>1, <4>2, <4>3
    <3> HIDE DEF g
    <3> QED  BY <3>1, <3>2, Zenon DEF IsTold
  <2> QED  BY <2>2
<1> HIDE DEF S
<1>3. Nat \subseteq S
  BY <1>1, <1>2, SetInduction
<1> QED  BY <1>3 DEF S

LEMMA ToldAllIs ==
    ASSUME NEW v, NEW queue, Len(queue) \in Nat
    PROVE  \E f : IsTold(f, Len(queue), v, queue) /\ ToldAll(v, queue) = f[Len(queue)]
<1> DEFINE g == CHOOSE UpTo : IsTold(UpTo, Len(queue), v, queue)
<1>1. IsTold(g, Len(queue), v, queue)
  BY SomeTold, Zenon
<1>2. ToldAll(v, queue) = g[Len(queue)]
  BY Zenon DEF ToldAll, IsTold
<1> QED  BY <1>1, <1>2, Zenon

LEMMA EmptyTellsNothing == ASSUME NEW v PROVE ToldAll(v, <<>>) = v
<1>1. PICK f : IsTold(f, 0, v, <<>>) /\ ToldAll(v, <<>>) = f[0]
  BY ToldAllIs
<1> QED  BY <1>1 DEF IsTold

\* An event at the end of the queue is told last.
LEMMA AppendTells ==
    ASSUME NEW v, NEW T, NEW queue \in Seq(T), NEW e \in T
    PROVE  ToldAll(v, Append(queue, e)) = Told(ToldAll(v, queue), e)
<1> DEFINE n == Len(queue)
           longer == Append(queue, e)
<1>1. n \in Nat /\ Len(longer) = n + 1 /\ longer[n + 1] = e
      /\ \A i \in 1..n : longer[i] = queue[i]
  BY AppendProperties, LenProperties
<1>2. PICK f : IsTold(f, n, v, queue) /\ ToldAll(v, queue) = f[n]
  BY <1>1, ToldAllIs
<1>3. PICK g : IsTold(g, n + 1, v, longer) /\ ToldAll(v, longer) = g[n + 1]
  <2>1. PICK g : IsTold(g, Len(longer), v, longer) /\ ToldAll(v, longer) = g[Len(longer)]
    <3> HIDE DEF n, longer
    <3> QED  BY <1>1, ToldAllIs
  <2> QED  BY <1>1, <2>1
<1> HIDE DEF n, longer
<1> DEFINE S == {k \in Nat : k <= n => g[k] = f[k]}
<1>4. 0 \in S
  BY <1>1, <1>2, <1>3 DEF IsTold
<1>5. ASSUME NEW k \in Nat, k \in S PROVE k + 1 \in S
  <2> SUFFICES ASSUME k + 1 <= n PROVE g[k + 1] = f[k + 1]
    OBVIOUS
  <2>1. k <= n /\ k + 1 \in 0..n /\ k + 1 \in 0..(n + 1) /\ k + 1 \in 1..n
    BY <1>1
  <2>2. (k + 1) - 1 = k /\ k + 1 # 0
    OBVIOUS
  <2>3. f[k + 1] = Told(f[k], queue[k + 1])
    BY <1>2, <2>1, <2>2 DEF IsTold
  <2>4. g[k + 1] = Told(g[k], longer[k + 1])
    BY <1>3, <2>1, <2>2 DEF IsTold
  <2> QED  BY <1>1, <1>5, <2>1, <2>3, <2>4
<1> HIDE DEF S
<1>6. Nat \subseteq S
  BY <1>4, <1>5, SetInduction
<1>7. g[n] = f[n]
  BY <1>1, <1>6 DEF S
<1>8. g[n + 1] = Told(g[n], e)
  BY <1>1, <1>3 DEF IsTold
<1> QED  BY <1>2, <1>3, <1>7, <1>8 DEF n, longer

LEMMA ToldType ==
    ASSUME NEW v \in Views, NEW e \in Events
    PROVE  Told(v, e) \in Views
BY DEF Told, Views, Events, Kinds

LEMMA ToldAllType ==
    ASSUME NEW v \in Views, NEW queue \in Seq(Events)
    PROVE  ToldAll(v, queue) \in Views
<1>1. PICK f : IsTold(f, Len(queue), v, queue) /\ ToldAll(v, queue) = f[Len(queue)]
  BY ToldAllIs, LenProperties
<1> DEFINE S == {n \in Nat : n <= Len(queue) => f[n] \in Views}
<1>2. 0 \in S
  BY <1>1 DEF IsTold
<1>3. ASSUME NEW n \in Nat, n \in S PROVE n + 1 \in S
  <2> SUFFICES ASSUME n + 1 <= Len(queue) PROVE f[n + 1] \in Views
    OBVIOUS
  <2>1. f[n + 1] = Told(f[n], queue[n + 1]) /\ f[n] \in Views
    BY <1>1, <1>3, LenProperties DEF IsTold
  <2>2. queue[n + 1] \in Events
    BY ElementOfSeq
  <2> QED  BY <2>1, <2>2, ToldType
<1> HIDE DEF S
<1>4. Nat \subseteq S
  BY <1>2, <1>3, SetInduction
<1> QED  BY <1>1, <1>4, LenProperties DEF S

-------------------------------------------------------------------------------
(* What one look queues, and what that tells *)

SignalTold(v, m, tracker, health) ==
    IF SignalEdge(tracker, health)
    THEN Told(v, Event(m, IF health THEN "SIGNAL_OK" ELSE "SIGNAL_LOST", tracker.fault))
    ELSE v

FaultTold(v, m, tracker, current, health) ==
    IF FaultEdge(tracker, current, health)
    THEN Told(v, Event(m, FaultKind(tracker.fault, current), current))
    ELSE v

LookTold(v, m, tracker, current, health) ==
    FaultTold(SignalTold(v, m, tracker, health), m, tracker, current, health)

LEMMA EventType ==
    ASSUME NEW c \in Components, NEW kind \in Kinds, NEW f \in Faults
    PROVE  Event(c, kind, f) \in Events
BY DEF Event, Events

LEMMA FaultKindType ==
    ASSUME NEW was, NEW now
    PROVE  FaultKind(was, now) \in Kinds /\ FaultKind(was, now) \notin {"SIGNAL_LOST", "SIGNAL_OK"}
BY DEF FaultKind, Kinds

LEMMA LookQueues ==
    ASSUME NEW m \in MotorSet, NEW tracker \in Trackers, NEW current \in Faults,
           NEW health \in BOOLEAN
    PROVE  /\ MotorEvents(m, tracker, current, health) \in Seq(Events)
           /\ \A v, queue : queue \in Seq(Events) =>
                 ToldAll(v, queue \o MotorEvents(m, tracker, current, health))
                     = LookTold(ToldAll(v, queue), m, tracker, current, health)
<1> DEFINE s == Event(m, IF health THEN "SIGNAL_OK" ELSE "SIGNAL_LOST", tracker.fault)
           f == Event(m, FaultKind(tracker.fault, current), current)
           queued == MotorEvents(m, tracker, current, health)
<1>1. s \in Events /\ f \in Events
  <2>1. m \in Components /\ tracker.fault \in Faults
    BY DEF Components, Trackers
  <2>2. (IF health THEN "SIGNAL_OK" ELSE "SIGNAL_LOST") \in Kinds
    BY DEF Kinds
  <2> QED  BY <2>1, <2>2, EventType, FaultKindType
<1>2. queued = (IF SignalEdge(tracker, health) THEN <<s>> ELSE <<>>)
               \o (IF FaultEdge(tracker, current, health) THEN <<f>> ELSE <<>>)
  BY DEF MotorEvents
<1>3. \A v : LookTold(v, m, tracker, current, health)
          = LET w == IF SignalEdge(tracker, health) THEN Told(v, s) ELSE v
            IN  IF FaultEdge(tracker, current, health) THEN Told(w, f) ELSE w
  BY DEF LookTold, SignalTold, FaultTold
<1> HIDE DEF s, f, queued
<1>4. queued \in Seq(Events)
  BY <1>1, <1>2
<1>5. ASSUME NEW v, NEW queue \in Seq(Events)
      PROVE  ToldAll(v, queue \o queued) = LookTold(ToldAll(v, queue), m, tracker, current, health)
  <2> DEFINE w == ToldAll(v, queue)
  <2>1. Append(queue, s) \in Seq(Events) /\ Append(queue, f) \in Seq(Events)
    BY <1>1, AppendProperties
  <2>2. CASE SignalEdge(tracker, health) /\ FaultEdge(tracker, current, health)
    <3> DEFINE once == Append(queue, s)
    <3>1. queued = <<s>> \o <<f>>
      BY <1>2, <2>2
    <3>2. queue \o queued = (queue \o <<s>>) \o <<f>>
      BY <1>1, <3>1, ConcatAssociative
    <3>3. queue \o <<s>> = once /\ once \o <<f>> = Append(once, f)
      BY <1>1, <2>1, AppendIsConcat
    <3>4. ToldAll(v, once) = Told(w, s)
      BY <1>1, AppendTells
    <3> HIDE DEF once
    <3>5. ToldAll(v, Append(once, f)) = Told(ToldAll(v, once), f)
      BY <1>1, <2>1, AppendTells DEF once
    <3> QED  BY <1>3, <2>2, <3>2, <3>3, <3>4, <3>5
  <2>3. CASE SignalEdge(tracker, health) /\ ~FaultEdge(tracker, current, health)
    <3>1. queue \o queued = Append(queue, s)
      BY <1>1, <1>2, <2>3
    <3>2. ToldAll(v, queue \o queued) = Told(w, s)
      BY <1>1, <3>1, AppendTells
    <3> QED  BY <1>3, <2>3, <3>2
  <2>4. CASE ~SignalEdge(tracker, health) /\ FaultEdge(tracker, current, health)
    <3>1. queue \o queued = Append(queue, f)
      BY <1>1, <1>2, <2>4
    <3>2. ToldAll(v, queue \o queued) = Told(w, f)
      BY <1>1, <3>1, AppendTells
    <3> QED  BY <1>3, <2>4, <3>2
  <2>5. CASE ~SignalEdge(tracker, health) /\ ~FaultEdge(tracker, current, health)
    <3>1. queue \o queued = queue
      BY <1>2, <2>5
    <3> QED  BY <1>3, <2>5, <3>1
  <2> QED  BY <2>2, <2>3, <2>4, <2>5
<1> QED  BY <1>4, <1>5 DEF queued

\* A look at motor m leaves the reader agreeing with the tracker of m, and knowing of
\* the others what it knew.
LEMMA LookAgrees ==
    ASSUME NEW v \in Views, NEW m \in MotorSet, NEW tracker \in Trackers,
           NEW current \in Faults, NEW health \in BOOLEAN,
           \/ Agrees(v[m], tracker) /\ (tracker.seen \/ ~health)
           \/ Agrees(v[m], Tracked(tracker, current, health))
    PROVE  LET w == LookTold(v, m, tracker, current, health) IN
           /\ w \in Views
           /\ Agrees(w[m], Tracked(tracker, current, health))
           /\ \A c \in Components \ {m} : w[c] = v[c]
<1> DEFINE s == Event(m, IF health THEN "SIGNAL_OK" ELSE "SIGNAL_LOST", tracker.fault)
           f == Event(m, FaultKind(tracker.fault, current), current)
           u == SignalTold(v, m, tracker, health)
           w == LookTold(v, m, tracker, current, health)
           after == Tracked(tracker, current, health)
<1>1. m \in Components /\ tracker.fault \in Faults /\ tracker.signal_lost_reported \in BOOLEAN
  BY DEF Components, Trackers
<1>2. u = IF SignalEdge(tracker, health) THEN [v EXCEPT ![m].lost = ~health] ELSE v
  BY <1>1 DEF SignalTold, Told, Event, Views
<1>3. w = IF FaultEdge(tracker, current, health) THEN [u EXCEPT ![m].fault = current] ELSE u
  BY <1>1, FaultKindType DEF LookTold, FaultTold, Told, Event
<1>4. u \in Views /\ u[m].fault = v[m].fault /\ \A c \in Components \ {m} : u[c] = v[c]
  BY <1>1, <1>2 DEF Views
<1>5. w \in Views /\ w[m].lost = u[m].lost /\ \A c \in Components \ {m} : w[c] = v[c]
  BY <1>1, <1>3, <1>4 DEF Views
<1>6. w[m].lost = after.signal_lost_reported
  <2>1. after.signal_lost_reported
            = IF SignalEdge(tracker, health) THEN ~health ELSE tracker.signal_lost_reported
    BY DEF Tracked
  <2>2. u[m].lost = IF SignalEdge(tracker, health) THEN ~health ELSE v[m].lost
    BY <1>1, <1>2 DEF Views
  <2> QED  BY <1>5, <2>1, <2>2 DEF Agrees
<1>7. IF IsFault(after.fault) THEN w[m].fault = after.fault ELSE ~IsFault(w[m].fault)
  <2>1. after.fault = IF health THEN current ELSE tracker.fault
    BY DEF Tracked
  <2>2. w[m].fault = IF FaultEdge(tracker, current, health) THEN current ELSE v[m].fault
    BY <1>1, <1>3, <1>4 DEF Views
  <2> QED  BY <2>1, <2>2 DEF Agrees, FaultEdge
<1> QED  BY <1>5, <1>6, <1>7 DEF Agrees

-------------------------------------------------------------------------------
(* One pass of read() *)

\* f is the recursive function by which Detected is defined, as far as n.
IsDetected(f, n) ==
    f = [i \in 0..n |->
            IF i = 0 THEN <<>>
            ELSE f[i - 1] \o MotorEvents(Motors[i], trackers[Motors[i]], code[Motors[i]],
                                         Fresh(Motors[i]))]

LEMMA SomeDetected == \A n \in Nat : \E f : IsDetected(f, n)
<1> DEFINE Joined(q, m) == q \o MotorEvents(m, trackers[m], code[m], Fresh(m))
           S == {n \in Nat : \E f : IsDetected(f, n)}
<1> HIDE DEF Joined
<1>0. \A f, n : IsDetected(f, n)
                <=> f = [i \in 0..n |-> IF i = 0 THEN <<>> ELSE Joined(f[i - 1], Motors[i])]
  BY Zenon DEF IsDetected, Joined
<1>1. 0 \in S
  <2> DEFINE h == [i \in 0..0 |-> <<>>]
  <2>1. h = [i \in 0..0 |-> IF i = 0 THEN <<>> ELSE Joined(h[i - 1], Motors[i])]
    OBVIOUS
  <2>2. IsDetected(h, 0)
    BY <1>0, <2>1, Zenon
  <2> QED  BY <2>2
<1>2. ASSUME NEW n \in Nat, n \in S PROVE n + 1 \in S
  <2>1. PICK f : IsDetected(f, n)
    BY <1>2
  <2> DEFINE g == [i \in 0..(n + 1) |-> IF i = n + 1 THEN Joined(f[n], Motors[n + 1]) ELSE f[i]]
  <2>2. IsDetected(g, n + 1)
    <3>1. g = [i \in 0..(n + 1) |-> g[i]]
      OBVIOUS
    <3>2. ASSUME NEW i \in 0..(n + 1)
          PROVE  g[i] = IF i = 0 THEN <<>> ELSE Joined(g[i - 1], Motors[i])
      <4>1. CASE i = 0
        BY <4>1, <2>1, <1>0
      <4>2. CASE i # 0 /\ i # n + 1
        <5>1. i \in 0..n /\ i - 1 \in 0..n /\ i - 1 # n + 1 /\ i - 1 \in 0..(n + 1)
          BY <4>2
        <5>2. f[i] = Joined(f[i - 1], Motors[i])
          BY <5>1, <4>2, <2>1, <1>0
        <5> QED  BY <5>1, <5>2, <4>2
      <4>3. CASE i = n + 1
        BY <4>3
      <4> QED  BY <4>1, <4>2, <4>3
    <3> HIDE DEF g
    <3> QED  BY <1>0, <3>1, <3>2, Zenon
  <2> QED  BY <2>2
<1> HIDE DEF S
<1>3. Nat \subseteq S
  BY <1>1, <1>2, SetInduction
<1> QED  BY <1>3 DEF S

\* Its values, one motor after the other.
LEMMA DetectedStep ==
    ASSUME NEW f, IsDetected(f, Len(Motors))
    PROVE  /\ f[0] = <<>>
           /\ \A n \in Nat : n + 1 <= Len(Motors) =>
                 LET m == Motors[n + 1]
                 IN  f[n + 1] = f[n] \o MotorEvents(m, trackers[m], code[m], Fresh(m))
<1> DEFINE Joined(q, m) == q \o MotorEvents(m, trackers[m], code[m], Fresh(m))
<1> HIDE DEF Joined
<1>1. f = [i \in 0..Len(Motors) |-> IF i = 0 THEN <<>> ELSE Joined(f[i - 1], Motors[i])]
  BY Zenon DEF IsDetected, Joined
<1>2. f[0] = <<>>
  BY <1>1, MotorsAssumption
<1>3. ASSUME NEW n \in Nat, n + 1 <= Len(Motors)
      PROVE  f[n + 1] = Joined(f[n], Motors[n + 1])
  <2>1. n + 1 \in 0..Len(Motors) /\ n + 1 # 0 /\ (n + 1) - 1 = n
    BY <1>3, MotorsAssumption
  <2> QED  BY <1>1, <2>1
<1> QED  BY <1>2, <1>3, Zenon DEF Joined

LEMMA DetectedIs ==
    \E f : IsDetected(f, Len(Motors))
           /\ Detected = f[Len(Motors)] \o BusEvents(trackers[Bus], bus)
<1> DEFINE g == CHOOSE UpTo : IsDetected(UpTo, Len(Motors))
<1>1. IsDetected(g, Len(Motors))
  BY SomeDetected, MotorsAssumption, Zenon
<1>2. Detected = g[Len(Motors)] \o BusEvents(trackers[Bus], bus)
  BY Zenon DEF Detected, IsDetected
<1> QED  BY <1>1, <1>2, Zenon

\* The reader agrees with the trackers: with those of before the pass.
Agreed(v) == \A c \in Components : Agrees(v[c], trackers[c])

\* What was not looked at yet has not changed, while watched.
NotYetSeen ==
    watched =>
        /\ \A m \in MotorSet : ~trackers[m].seen => ~heard[m]
        /\ ~trackers[Bus].seen => bus = "ok" /\ trackers[Bus].fault = "none"

TrackerAfter(c) ==
    IF c = Bus THEN BusTracked(trackers[Bus], bus) ELSE Tracked(trackers[c], code[c], Fresh(c))

LEMMA FreshIsBoolean == ASSUME TypeOK, NEW m \in MotorSet PROVE Fresh(m) \in BOOLEAN
BY DEF TypeOK, Fresh, StillSilent, NobodySilent

LEMMA DetectedType == ASSUME TypeOK PROVE Detected \in Seq(Events)
<1>1. PICK f : IsDetected(f, Len(Motors)) /\ Detected = f[Len(Motors)] \o BusEvents(trackers[Bus], bus)
  BY DetectedIs
<1> DEFINE Look(m) == MotorEvents(m, trackers[m], code[m], Fresh(m))
           S == {n \in Nat : n <= Len(Motors) => f[n] \in Seq(Events)}
<1>2. f[0] = <<>> /\ \A n \in Nat : n + 1 <= Len(Motors) => f[n + 1] = f[n] \o Look(Motors[n + 1])
  BY <1>1, DetectedStep, Zenon
<1>3. \A m \in MotorSet : Look(m) \in Seq(Events)
  <2> SUFFICES ASSUME NEW m \in MotorSet PROVE Look(m) \in Seq(Events)
    OBVIOUS
  <2>1. trackers[m] \in Trackers /\ code[m] \in Faults
    BY DEF TypeOK, Components, Faults
  <2> QED  BY <2>1, FreshIsBoolean, LookQueues
<1>4. 0 \in S
  <2>1. f[0] = <<>>
    BY <1>2, Zenon
  <2>2. f[0] \in Seq(Events)
    BY <2>1
  <2> QED  BY <2>2, Zenon
<1>5. ASSUME NEW n \in Nat, n \in S PROVE n + 1 \in S
  <2> SUFFICES ASSUME n + 1 <= Len(Motors) PROVE f[n + 1] \in Seq(Events)
    OBVIOUS
  <2>1. Motors[n + 1] \in MotorSet /\ n <= Len(Motors)
    BY MotorsAssumption DEF MotorSet
  <2>2. Look(Motors[n + 1]) \in Seq(Events)
    BY <1>3, <2>1
  <2> HIDE DEF Look
  <2> QED  BY <1>2, <1>5, <2>1, <2>2, ConcatProperties
<1> HIDE DEF S, Look
<1>6. f[Len(Motors)] \in Seq(Events)
  <2>1. Nat \subseteq S
    BY <1>4, <1>5, SetInduction
  <2> QED  BY <2>1, MotorsAssumption DEF S
<1>7. BusEvents(trackers[Bus], bus) \in Seq(Events)
  <2>1. Event(Bus, FaultKind(trackers[Bus].fault, BusFault(bus)), BusFault(bus)) \in Events
    BY FaultKindType, EventType DEF Components, BusFault, Faults, BusFaults, Healthy
  <2> QED  BY <2>1 DEF BusEvents
<1> QED  BY <1>1, <1>6, <1>7, ConcatProperties

\* A pass of read() queues exactly what leaves the reader agreeing with the new trackers.
LEMMA ReadTells ==
    ASSUME TypeOK, NotYetSeen, watched, Agreed(ToldAll(view, pending))
    PROVE  \A c \in Components : Agrees(ToldAll(view, pending \o Detected)[c], TrackerAfter(c))
<1>1. PICK f : IsDetected(f, Len(Motors)) /\ Detected = f[Len(Motors)] \o BusEvents(trackers[Bus], bus)
  BY DetectedIs
<1> DEFINE Look(m) == MotorEvents(m, trackers[m], code[m], Fresh(m))
           v == ToldAll(view, pending)
           u(n) == ToldAll(view, pending \o f[n])
           Right(n) ==
               /\ f[n] \in Seq(Events)
               /\ u(n) \in Views
               /\ \A m \in MotorSet : \/ Agrees(u(n)[m], TrackerAfter(m))
                                      \/ Agrees(u(n)[m], trackers[m]) /\ \A i \in 1..n : Motors[i] # m
               /\ u(n)[Bus] = v[Bus]
           S == {n \in Nat : n <= Len(Motors) => Right(n)}
<1>2. f[0] = <<>> /\ \A n \in Nat : n + 1 <= Len(Motors) => f[n + 1] = f[n] \o Look(Motors[n + 1])
  BY <1>1, DetectedStep, Zenon
<1>3. pending \in Seq(Events) /\ view \in Views /\ v \in Views
  BY ToldAllType DEF TypeOK, Views
<1>4. 0 \in S
  <2>1. f[0] = <<>> /\ pending \o <<>> = pending
    BY <1>2, <1>3, ConcatEmptySeq, Zenon
  <2>2. u(0) = v
    BY <2>1
  <2>3. f[0] \in Seq(Events)
    BY <2>1
  <2>4. \A m \in MotorSet : Agrees(v[m], trackers[m])
    BY DEF Agreed, Components
  <2>5. \A m : \A i \in 1..0 : Motors[i] # m
    OBVIOUS
  <2> HIDE DEF u, v
  <2>6. Right(0)
    BY <1>3, <2>2, <2>3, <2>4, <2>5, Zenon
  <2> QED  BY <2>6
<1>5. ASSUME NEW n \in Nat, n \in S PROVE n + 1 \in S
  <2> SUFFICES ASSUME n + 1 <= Len(Motors) PROVE Right(n + 1)
    OBVIOUS
  <2> DEFINE m == Motors[n + 1]
             w == LookTold(u(n), m, trackers[m], code[m], Fresh(m))
  <2>1. m \in MotorSet /\ m \in Components /\ n <= Len(Motors) /\ m # Bus
    BY MotorsAssumption DEF MotorSet, Components
  <2>2. Right(n)
    BY <1>5, <2>1
  <2>3. trackers[m] \in Trackers /\ code[m] \in Faults /\ Fresh(m) \in BOOLEAN
    BY <2>1, FreshIsBoolean DEF TypeOK, Faults
  <2>4. /\ Look(m) \in Seq(Events)
        /\ \A q \in Seq(Events) :
               ToldAll(view, q \o Look(m)) = LookTold(ToldAll(view, q), m, trackers[m], code[m], Fresh(m))
    BY <2>1, <2>3, LookQueues
  <2>5. \/ Agrees(u(n)[m], trackers[m]) /\ (trackers[m].seen \/ ~Fresh(m))
        \/ Agrees(u(n)[m], Tracked(trackers[m], code[m], Fresh(m)))
    BY <2>1, <2>2 DEF NotYetSeen, Fresh, TrackerAfter
  <2>6. /\ w \in Views
        /\ Agrees(w[m], TrackerAfter(m))
        /\ \A c \in Components \ {m} : w[c] = u(n)[c]
    <3> HIDE DEF m, u
    <3> QED  BY <2>1, <2>2, <2>3, <2>5, LookAgrees DEF TrackerAfter
  <2> HIDE DEF Look, m
  <2>7. f[n + 1] = f[n] \o Look(m)
    BY <1>2 DEF m
  <2>8. /\ f[n + 1] \in Seq(Events) /\ pending \o f[n] \in Seq(Events)
        /\ pending \o f[n + 1] = (pending \o f[n]) \o Look(m)
    <3>1. f[n] \in Seq(Events)
      BY <2>2, Zenon
    <3> DEFINE q == f[n]
               look == Look(m)
    <3>2. pending \in Seq(Events) /\ q \in Seq(Events) /\ look \in Seq(Events)
      BY <1>3, <2>4, <3>1, Zenon
    <3> HIDE DEF q, look
    <3>3. q \o look \in Seq(Events) /\ pending \o q \in Seq(Events)
      BY <3>2, ConcatProperties
    <3>4. (pending \o q) \o look = pending \o (q \o look)
      BY <3>2, ConcatAssociative
    <3> QED  BY <2>7, <3>3, <3>4, Zenon DEF q, look
  <2>9. u(n + 1) = w
    BY <2>4, <2>8
  <2>10. \A c \in MotorSet : \A i \in 1..n + 1 : Motors[i] # c => c # m \/ i # n + 1
    BY DEF m
  <2>11. ASSUME NEW c \in MotorSet
         PROVE  \/ Agrees(w[c], TrackerAfter(c))
                \/ Agrees(w[c], trackers[c]) /\ \A i \in 1..n + 1 : Motors[i] # c
    <3>1. CASE c = m
      BY <2>6, <3>1
    <3>2. CASE c # m
      <4>1. w[c] = u(n)[c]
        BY <2>6, <3>2 DEF Components
      <4>2. Motors[n + 1] # c
        BY <3>2 DEF m
      <4>3. \/ Agrees(u(n)[c], TrackerAfter(c))
            \/ Agrees(u(n)[c], trackers[c]) /\ \A i \in 1..n : Motors[i] # c
        BY <2>2
      <4>4. (\A i \in 1..n : Motors[i] # c) => \A i \in 1..n + 1 : Motors[i] # c
        BY <4>2
      <4> HIDE DEF w, u
      <4> QED  BY <4>1, <4>3, <4>4
    <3> QED  BY <3>1, <3>2
  <2>12. w[Bus] = v[Bus]
    BY <2>1, <2>2, <2>6 DEF Components
  <2> HIDE DEF u, w, v
  <2> QED  BY <2>6, <2>8, <2>9, <2>11, <2>12
<1> DEFINE N == Len(Motors)
<1>6. Right(N)
  <2> HIDE DEF S, Right
  <2>1. Nat \subseteq S
    BY <1>4, <1>5, SetInduction
  <2> QED  BY <2>1, MotorsAssumption DEF S
<1>7. \A m \in MotorSet : Agrees(u(N)[m], TrackerAfter(m))
  <2> SUFFICES ASSUME NEW m \in MotorSet PROVE Agrees(u(N)[m], TrackerAfter(m))
    OBVIOUS
  <2>1. \E i \in 1..N : Motors[i] = m
    BY DEF MotorSet
  <2> HIDE DEF u
  <2> QED  BY <1>6, <2>1
<1> DEFINE e == Event(Bus, FaultKind(trackers[Bus].fault, BusFault(bus)), BusFault(bus))
           end == ToldAll(view, pending \o Detected)
<1> HIDE DEF Look
<1>8. e \in Events /\ BusFault(bus) \in Faults /\ BusFault(bus) # "not_enabled"
  BY FaultKindType, EventType DEF Components, BusFault, Faults, BusFaults, Healthy
<1>9. CASE trackers[Bus].seen /\ BusFault(bus) # trackers[Bus].fault
  <2>1. Detected = Append(f[N], e)
    BY <1>1, <1>6, <1>8, <1>9, AppendIsConcat DEF BusEvents
  <2>2. pending \o f[N] \in Seq(Events) /\ pending \o Detected = Append(pending \o f[N], e)
    BY <1>3, <1>6, <1>8, <2>1, ConcatProperties, ConcatAssociative, AppendIsConcat
  <2>3. end = Told(u(N), e)
    <3> DEFINE q == pending \o f[N]
    <3> HIDE DEF e, q
    <3>1. q \in Seq(Events) /\ end = ToldAll(view, Append(q, e))
      BY <2>2, Zenon DEF q
    <3>2. ToldAll(view, Append(q, e)) = Told(ToldAll(view, q), e)
      BY <1>8, <3>1, AppendTells
    <3> QED  BY <3>1, <3>2, Zenon DEF q
  <2>4. end = [u(N) EXCEPT ![Bus].fault = BusFault(bus)]
    <3> HIDE DEF u, end
    <3> QED  BY <2>3, FaultKindType DEF Told, Event
  <2>5. /\ end[Bus].fault = BusFault(bus) /\ end[Bus].lost = u(N)[Bus].lost
        /\ \A m \in MotorSet : end[m] = u(N)[m]
    <3> HIDE DEF u, end
    <3> QED  BY <1>6, <2>4, MotorsAssumption DEF Views, Components, MotorSet
  <2> HIDE DEF u, end, v
  <2>6. Agrees(end[Bus], TrackerAfter(Bus))
    BY <1>3, <1>6, <2>5 DEF Agreed, Agrees, TrackerAfter, BusTracked, TypeOK, Trackers, Components, v
  <2> QED  BY <1>7, <2>5, <2>6 DEF Components, end
<1>10. CASE ~(trackers[Bus].seen /\ BusFault(bus) # trackers[Bus].fault)
  <2>1. Detected = f[N]
    BY <1>1, <1>6, <1>10, ConcatEmptySeq DEF BusEvents
  <2>2. end = u(N)
    BY <2>1
  <2> HIDE DEF u, end, v
  <2>3. BusFault(bus) = trackers[Bus].fault
    BY <1>10 DEF NotYetSeen, BusFault
  <2>4. Agrees(end[Bus], TrackerAfter(Bus))
    BY <1>3, <1>6, <2>2, <2>3 DEF Agreed, Agrees, TrackerAfter, BusTracked, TypeOK, Trackers, Components, v
  <2> QED  BY <1>7, <2>2, <2>4 DEF Components, end
<1> QED  BY <1>9, <1>10

-------------------------------------------------------------------------------
(* The invariant *)

\* The inductive invariant behind EventsTellAll.
StoryInv ==
    /\ TypeOK
    /\ NotYetSeen
    /\ watched /\ dropped = 0 => Agreed(ToldAll(view, pending))

LEMMA TrackerAfterType ==
    ASSUME TypeOK, NEW c \in Components
    PROVE  TrackerAfter(c) \in Trackers
<1>1. CASE c = Bus
  <2>1. trackers[Bus] \in Trackers
    BY DEF TypeOK, Components
  <2>2. BusFault(bus) \in Faults
    BY DEF BusFault, Faults, BusFaults, Healthy
  <2>3. [trackers[Bus] EXCEPT !.fault = BusFault(bus), !.seen = TRUE] \in Trackers
    BY <2>1, <2>2 DEF Trackers
  <2> QED  BY <1>1, <2>3 DEF TrackerAfter, BusTracked
<1>2. CASE c # Bus
  <2>1. c \in MotorSet /\ trackers[c] \in Trackers /\ code[c] \in Faults
    BY <1>2 DEF Components, TypeOK, Faults
  <2>2. Fresh(c) \in BOOLEAN
    BY <2>1, FreshIsBoolean
  <2> QED  BY <1>2, <2>1, <2>2 DEF TrackerAfter, Tracked, Trackers, SignalEdge
<1> QED  BY <1>1, <1>2

LEMMA KeptType ==
    ASSUME NEW queue \in Seq(Events)
    PROVE  /\ Kept(queue) \in Seq(Events) /\ Len(Kept(queue)) <= QueueCap
           /\ Overflow(queue) \in Nat
           /\ Overflow(queue) = 0 => Kept(queue) = queue
<1>1. Len(queue) \in Nat /\ \A i \in 1..Len(queue) : queue[i] \in Events
  BY ElementOfSeq, LenProperties
<1>2. Overflow(queue) \in Nat
  BY <1>1, QueueAssumption DEF Overflow
<1>3. /\ SubSeq(queue, Overflow(queue) + 1, Len(queue)) \in Seq(Events)
      /\ Len(SubSeq(queue, Overflow(queue) + 1, Len(queue)))
             = IF Overflow(queue) + 1 <= Len(queue) THEN Len(queue) - (Overflow(queue) + 1) + 1 ELSE 0
  <2>1. \A i \in Overflow(queue) + 1..Len(queue) : queue[i] \in Events
    BY <1>1, <1>2
  <2> QED  BY <1>1, <1>2, <2>1, SubSeqProperties
<1>4. Len(SubSeq(queue, Overflow(queue) + 1, Len(queue))) <= QueueCap
  BY <1>1, <1>3, QueueAssumption DEF Overflow
<1>5. Overflow(queue) = 0 => SubSeq(queue, Overflow(queue) + 1, Len(queue)) = queue
  BY SubSeqFull
<1> QED  BY <1>2, <1>3, <1>4, <1>5 DEF Kept

LEMMA StoryInit == Init => StoryInv
<1> SUFFICES ASSUME Init PROVE StoryInv
  OBVIOUS
<1>1. TypeOK
  <2>1. FreshTracker \in Trackers /\ NothingToldOf \in [fault : Faults, lost : BOOLEAN]
    BY DEF FreshTracker, Trackers, NothingToldOf, Faults, Healthy
  <2>2. <<>> \in Seq(Events) /\ Len(<<>>) <= QueueCap
    BY QueueAssumption
  <2> QED  BY <2>1, <2>2 DEF Init, TypeOK, BusStates, Healthy
<1>2. NotYetSeen
  BY DEF Init, NotYetSeen, FreshTracker, Components
<1>3. Agreed(ToldAll(view, pending))
  <2>1. ToldAll(view, pending) = view
    BY EmptyTellsNothing DEF Init
  <2>2. Agrees(NothingToldOf, FreshTracker)
    BY DEF Agrees, FreshTracker, NothingToldOf, IsFault, Healthy
  <2>3. \A c \in Components : view[c] = NothingToldOf /\ trackers[c] = FreshTracker
    BY DEF Init
  <2> QED  BY <2>1, <2>2, <2>3 DEF Agreed
<1> QED  BY <1>1, <1>2, <1>3 DEF StoryInv

\* Where neither the reader, the queue nor the trackers change, and an unseen motor is
\* heard, or an unseen bus changes, only once watched has been given up.
LEMMA StoryKept ==
    ASSUME StoryInv, TypeOK', UNCHANGED <<trackers, pending, dropped, view>>,
           \/ watched' = watched /\ UNCHANGED <<heard, bus>>
           \/ \E m \in MotorSet :
                 /\ watched' = (watched /\ trackers[m].seen)
                 /\ heard' = [heard EXCEPT ![m] = TRUE] /\ bus' = bus
           \/ watched' = (watched /\ trackers[Bus].seen) /\ heard' = heard
    PROVE  StoryInv'
<1>1. NotYetSeen'
  BY DEF StoryInv, NotYetSeen, TypeOK
<1>2. watched' => watched
  BY DEF StoryInv, TypeOK
<1>3. Agreed(ToldAll(view, pending)) => Agreed(ToldAll(view, pending))'
  BY DEF Agreed
<1> QED  BY <1>1, <1>2, <1>3 DEF StoryInv

LEMMA ReadKeepsStory == StoryInv /\ Read => StoryInv'
<1> SUFFICES ASSUME StoryInv, Read PROVE StoryInv'
  OBVIOUS
<1> DEFINE queue == pending \o Detected
<1>1. TypeOK /\ pending \in Seq(Events) /\ Detected \in Seq(Events) /\ dropped \in Nat
  BY DetectedType DEF StoryInv, TypeOK
<1>2. queue \in Seq(Events)
  BY <1>1, ConcatProperties
<1>3. /\ pending' = Kept(queue) /\ dropped' = dropped + Overflow(queue)
      /\ trackers' = [c \in Components |-> TrackerAfter(c)]
      /\ UNCHANGED <<isOpen, enabled, heard, code, bus, view, watched>>
  BY DEF Read, TrackerAfter
<1> HIDE DEF queue
<1>4. TypeOK'
  <2>1. pending' \in Seq(Events) /\ Len(pending') <= QueueCap
    BY <1>2, <1>3, KeptType
  <2>2. dropped' \in Nat
    BY <1>1, <1>2, <1>3, KeptType
  <2>3. trackers' \in [Components -> Trackers]
    BY <1>1, <1>3, TrackerAfterType
  <2>4. silent' \in [MotorSet -> BOOLEAN]
    BY <1>1 DEF Read, StillSilent, NobodySilent, TypeOK
  <2>5. word' \in [MotorSet -> {"frame", "lost", "hollow"}]
    BY <1>1 DEF Read, LastWord, TypeOK
  <2> QED  BY <1>1, <1>3, <2>1, <2>2, <2>3, <2>4, <2>5 DEF TypeOK
<1>5. NotYetSeen'
  <2>1. \A c \in Components : trackers'[c].seen
    BY <1>3 DEF TrackerAfter, BusTracked, Tracked, StoryInv, TypeOK, Trackers
  <2> QED  BY <2>1 DEF NotYetSeen, Components
<1>6. ASSUME watched', dropped' = 0 PROVE Agreed(ToldAll(view, pending))'
  <2>1. watched /\ dropped = 0 /\ Overflow(queue) = 0
    BY <1>1, <1>2, <1>3, <1>6, KeptType
  <2>2. pending' = queue
    BY <1>2, <1>3, <2>1, KeptType
  <2>3. \A c \in Components : Agrees(ToldAll(view, queue)[c], TrackerAfter(c))
    BY <1>1, <2>1, ReadTells DEF StoryInv, queue
  <2> QED  BY <1>3, <2>2, <2>3 DEF Agreed
<1> QED  BY <1>4, <1>5, <1>6 DEF StoryInv

LEMMA PublishKeepsStory == StoryInv /\ PublishFaultEvents => StoryInv'
<1> SUFFICES ASSUME StoryInv, PublishFaultEvents PROVE StoryInv'
  OBVIOUS
<1>1. /\ view' = ToldAll(view, pending) /\ pending' = <<>>
      /\ UNCHANGED <<isOpen, enabled, heard, code, silent, bus, trackers, dropped, watched, word>>
  BY DEF PublishFaultEvents
<1>2. TypeOK'
  <2>1. view' \in [Components -> [fault : Faults, lost : BOOLEAN]]
    BY <1>1, ToldAllType DEF StoryInv, TypeOK, Views
  <2>2. pending' \in Seq(Events) /\ Len(pending') <= QueueCap
    BY <1>1, QueueAssumption
  <2> QED  BY <1>1, <2>1, <2>2 DEF StoryInv, TypeOK
<1>3. NotYetSeen'
  BY <1>1 DEF StoryInv, NotYetSeen
<1>4. ToldAll(view', pending') = ToldAll(view, pending)
  BY <1>1, EmptyTellsNothing
<1>5. watched' /\ dropped' = 0 => Agreed(ToldAll(view, pending))'
  BY <1>1, <1>4 DEF StoryInv, Agreed
<1> QED  BY <1>2, <1>3, <1>5 DEF StoryInv

LEMMA StoryStep == StoryInv /\ [Next]_vars => StoryInv'
<1> SUFFICES ASSUME StoryInv, [Next]_vars PROVE StoryInv'
  OBVIOUS
<1> USE DEF StoryInv
<1>1. CASE Activate
  <2>1. TypeOK'
    BY <1>1 DEF TypeOK, Activate, NobodySilent
  <2> QED  BY <1>1, <2>1, StoryKept DEF Activate
<1>2. CASE Deactivate
  <2>1. TypeOK'
    BY <1>2 DEF TypeOK, Deactivate
  <2> QED  BY <1>2, <2>1, StoryKept DEF Deactivate
<1>3. ASSUME NEW data \in BOOLEAN, SetMotorsEnabled(data) PROVE StoryInv'
  <2>1. TypeOK'
    BY <1>3 DEF TypeOK, SetMotorsEnabled, NobodySilent
  <2> QED  BY <1>3, <2>1, StoryKept DEF SetMotorsEnabled
<1>4. ASSUME NEW m \in MotorSet, NEW f \in Healthy \cup MotorFaults, FeedbackArrives(m, f)
      PROVE  StoryInv'
  <2>1. TypeOK'
    BY <1>4 DEF TypeOK, FeedbackArrives, Components, Trackers
  <2> QED  BY <1>4, <2>1, StoryKept DEF FeedbackArrives
<1>5. ASSUME NEW m \in MotorSet, FeedbackOverdue(m) PROVE StoryInv'
  <2>1. TypeOK'
    BY <1>5 DEF TypeOK, FeedbackOverdue
  <2> QED  BY <1>5, <2>1, StoryKept DEF FeedbackOverdue
<1>6. ASSUME NEW state \in BusStates, BusChanges(state) PROVE StoryInv'
  <2>1. TypeOK'
    BY <1>6 DEF TypeOK, BusChanges, Components, Trackers
  <2> QED  BY <1>6, <2>1, StoryKept DEF BusChanges
<1>7. CASE UNCHANGED vars
  <2>1. TypeOK'
    BY <1>7 DEF TypeOK, vars
  <2> QED  BY <1>7, <2>1, StoryKept DEF vars
<1> QED
  BY <1>1, <1>2, <1>3, <1>4, <1>5, <1>6, <1>7, ReadKeepsStory, PublishKeepsStory
  DEF Next, Lifecycle, Receive, Overrun

\* The detector's state, the queue and the reader's view keep their types; the queue
\* never outgrows kMaxPendingFaultEvents (FaultDetector::queue_event).
THEOREM FeedTypeCorrect == Spec => []TypeOK
<1>1. StoryInv => TypeOK
  BY DEF StoryInv
<1> QED  BY StoryInit, StoryStep, <1>1, PTL DEF Spec

\* As long as no event was dropped, whoever follows /fault_events knows of every motor
\* and of the bus what the detector knows, once the queue is published.
THEOREM TheEventsTellAll == Spec => []EventsTellAll
<1>1. StoryInv => EventsTellAll
  BY DEF StoryInv, EventsTellAll, Agreed
<1> QED  BY StoryInit, StoryStep, <1>1, PTL DEF Spec

===============================================================================
