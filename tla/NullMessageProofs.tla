------------------------- MODULE NullMessageProofs -------------------------
(***************************************************************************)
(* Proofs about NullMessage, for any number of ranks, any graph with at    *)
(* most one link between two ranks, any delays (zero included) and any     *)
(* SchedulerTune.                                                          *)
(***************************************************************************)
EXTENDS NullMessage, TLAPS, FiniteSetTheorems, SequenceTheorems

-----------------------------------------------------------------------------
(* The links. *)

LEMMA NeighboursSymmetric ==
  ASSUME NEW r \in Rank, NEW s \in Neighbours(r)
  PROVE  /\ s \in Rank /\ s # r /\ r \in Neighbours(s)
         /\ <<r, s>> \in Bundles /\ <<s, r>> \in Bundles
<1>1. s \in Rank /\ s # r /\ \E l \in Links : l.ends = {r, s}
  BY DEF Neighbours
<1>2. r \in Neighbours(s)
  BY <1>1 DEF Neighbours
<1> QED
  BY <1>1, <1>2 DEF Bundles

LEMMA BundlesAreNeighbours ==
  ASSUME NEW b \in Bundles
  PROVE  b = <<b[1], b[2]>> /\ b[1] \in Rank /\ b[2] \in Neighbours(b[1])
BY DEF Bundles

\* With one link between two ranks, the delay of the bundle is that of its link.
LEMMA OneDelay ==
  ASSUME OneLinkEach, NEW r \in Rank, NEW s \in Neighbours(r)
  PROVE  \E l \in Links : Bundle(r, s) = {l} /\ l.delay \in Nat /\ BundleDelay(r, s) = l.delay
<1>1. PICK l \in Links : l.ends = {r, s}
  BY DEF Neighbours
<1>2. Bundle(r, s) = {l}
  BY <1>1 DEF OneLinkEach, Bundle
<1>3. l.delay \in Nat
  BY LinksAssumption
<1>4. {k.delay : k \in Bundle(r, s)} = {l.delay}
  BY <1>2
<1>5. BundleDelay(r, s) = l.delay
  BY <1>2, <1>3, <1>4 DEF BundleDelay
<1> QED
  BY <1>2, <1>3, <1>5

LEMMA DelayIsNat ==
  ASSUME OneLinkEach, NEW r \in Rank, NEW s \in Neighbours(r)
  PROVE  BundleDelay(r, s) \in Nat
BY OneDelay

LEMMA NullDelayIsNat ==
  ASSUME NEW r \in Rank, NEW s \in Neighbours(r)
  PROVE  NullDelay[<<r, s>>] \in Nat
BY TimeAssumption, NeighboursSymmetric

-----------------------------------------------------------------------------
(* The queues of messages. *)

\* No guarantee in q is beyond h.
Bounded(q, h) == \A i \in 1..Len(q) : q[i].guarantee <= h

\* The packets in q are received no earlier than low, nor than a guarantee before
\* them in q.
InOrder(q, low) ==
  \A k \in 1..Len(q) : q[k].rxTime > 0 =>
    /\ low <= q[k].rxTime
    /\ \A i \in 1..(k - 1) : q[i].guarantee <= q[k].rxTime

LEMMA AppendElements ==
  ASSUME NEW q \in Seq(Message), NEW m \in Message
  PROVE  /\ Append(q, m) \in Seq(Message) /\ Len(q) \in Nat /\ Len(Append(q, m)) = Len(q) + 1
         /\ \A i \in 1..Len(q) : Append(q, m)[i] = q[i] /\ q[i] \in Message
         /\ Append(q, m)[Len(q) + 1] = m
BY AppendProperties, ElementOfSeq, LenProperties

LEMMA AppendBounded ==
  ASSUME NEW q \in Seq(Message), NEW m \in Message, NEW h \in Nat, NEW g \in Nat,
         Bounded(q, h), h <= g, m.guarantee <= g
  PROVE  Bounded(Append(q, m), g)
<1> SUFFICES ASSUME NEW i \in 1..(Len(q) + 1) PROVE Append(q, m)[i].guarantee <= g
  BY AppendElements DEF Bounded
<1>1. CASE i = Len(q) + 1
  BY <1>1, AppendElements
<1>2. CASE i \in 1..Len(q)
  <2>1. Append(q, m)[i] = q[i] /\ q[i].guarantee \in Nat
    BY <1>2, AppendElements DEF Message
  <2> QED
    BY <1>2, <2>1 DEF Bounded
<1> QED
  BY <1>1, <1>2, AppendElements

LEMMA AppendInOrder ==
  ASSUME NEW q \in Seq(Message), NEW m \in Message, NEW h \in Nat, NEW low \in Nat,
         Bounded(q, h), InOrder(q, low), low <= h, m.rxTime > 0 => h <= m.rxTime
  PROVE  InOrder(Append(q, m), low)
<1> DEFINE a == Append(q, m)
<1> SUFFICES ASSUME NEW k \in 1..(Len(q) + 1), a[k].rxTime > 0
             PROVE  low <= a[k].rxTime /\ \A i \in 1..(k - 1) : a[i].guarantee <= a[k].rxTime
  BY AppendElements DEF InOrder
<1>1. Len(q) \in Nat /\ (\A i \in 1..Len(q) : a[i] = q[i] /\ q[i] \in Message) /\ a[Len(q) + 1] = m
  BY AppendElements
<1> HIDE DEF a
<1>2. CASE k = Len(q) + 1
  <2>1. a[k].rxTime = m.rxTime /\ m.rxTime \in Nat /\ h <= m.rxTime
    BY <1>1, <1>2 DEF Message
  <2>2. ASSUME NEW i \in 1..(k - 1) PROVE a[i].guarantee <= a[k].rxTime
    <3>1. i \in 1..Len(q)
      BY <1>1, <1>2
    <3>2. a[i].guarantee \in Nat /\ a[i].guarantee <= h
      BY <1>1, <3>1 DEF Message, Bounded
    <3> QED
      BY <2>1, <3>2
  <2> QED
    BY <2>1, <2>2
<1>3. CASE k \in 1..Len(q)
  <2>1. \A i \in 1..(k - 1) : i \in 1..Len(q)
    BY <1>1, <1>3
  <2> QED
    BY <1>1, <1>3, <2>1 DEF InOrder
<1> QED
  BY <1>1, <1>2, <1>3

LEMMA TailElements ==
  ASSUME NEW q \in Seq(Message), q # <<>>
  PROVE  /\ Tail(q) \in Seq(Message) /\ Head(q) \in Message /\ Len(q) \in Nat \ {0}
         /\ Head(q) = q[1] /\ Len(Tail(q)) = Len(q) - 1
         /\ \A i \in 1..(Len(q) - 1) : Tail(q)[i] = q[i + 1]
         /\ \A i \in 1..Len(q) : q[i] \in Message
BY HeadTailProperties, LenProperties, ElementOfSeq, EmptySeq

LEMMA TailBounded ==
  ASSUME NEW q \in Seq(Message), q # <<>>, NEW h \in Nat, Bounded(q, h)
  PROVE  Bounded(Tail(q), h) /\ Head(q).guarantee <= h
<1>1. ASSUME NEW i \in 1..(Len(q) - 1) PROVE Tail(q)[i].guarantee <= h
  <2>1. i + 1 \in 1..Len(q) /\ Tail(q)[i] = q[i + 1]
    BY TailElements
  <2> QED
    BY <2>1 DEF Bounded
<1>2. q[1].guarantee <= h
  BY TailElements DEF Bounded
<1> QED
  BY <1>1, <1>2, TailElements DEF Bounded

LEMMA TailInOrder ==
  ASSUME NEW q \in Seq(Message), q # <<>>, NEW low \in Nat, InOrder(q, low)
  PROVE  /\ InOrder(Tail(q), low) /\ InOrder(Tail(q), Head(q).guarantee)
         /\ Head(q).rxTime > 0 => low <= Head(q).rxTime
<1>1. ASSUME NEW k \in 1..(Len(q) - 1), Tail(q)[k].rxTime > 0
      PROVE  /\ low <= Tail(q)[k].rxTime /\ Head(q).guarantee <= Tail(q)[k].rxTime
             /\ \A i \in 1..(k - 1) : Tail(q)[i].guarantee <= Tail(q)[k].rxTime
  <2>1. k + 1 \in 1..Len(q) /\ Tail(q)[k] = q[k + 1] /\ 1 \in 1..((k + 1) - 1)
    BY TailElements
  <2>2. low <= q[k + 1].rxTime /\ \A i \in 1..((k + 1) - 1) : q[i].guarantee <= q[k + 1].rxTime
    BY <1>1, <2>1 DEF InOrder
  <2>3. ASSUME NEW i \in 1..(k - 1) PROVE Tail(q)[i].guarantee <= Tail(q)[k].rxTime
    <3>1. i + 1 \in 1..((k + 1) - 1) /\ Tail(q)[i] = q[i + 1]
      BY TailElements
    <3> QED
      BY <2>1, <2>2, <3>1
  <2> QED
    BY <2>1, <2>2, <2>3, TailElements
<1>2. Head(q).rxTime > 0 => low <= Head(q).rxTime
  BY TailElements DEF InOrder
<1> QED
  BY <1>1, <1>2, TailElements DEF InOrder

-----------------------------------------------------------------------------
(* Types. *)

\* x is not later than what a rank with the events S can do next to its neighbour s.
IsBound(r, s, S, x) ==
  x <= m_safeTime[r] + BundleDelay(r, s) /\ \A e \in S : x <= e.ts + BundleDelay(r, s)

\* A guarantee is the greatest of these bounds.
IsGreatestBound(r, s, S, g) ==
  IsBound(r, s, S, g) /\ \A x \in Nat : IsBound(r, s, S, x) => x <= g

LEMMA GuaranteeType ==
  ASSUME OneLinkEach, TypeOK, NEW r \in Rank, NEW s \in Neighbours(r),
         NEW S \in SUBSET Event, NEW g \in Guarantees(r, s, S)
  PROVE  /\ g \in Nat /\ g <= m_safeTime[r] + BundleDelay(r, s)
         /\ \A e \in S : g <= e.ts + BundleDelay(r, s)
         /\ IsGreatestBound(r, s, S, g)
<1>1. PICK next \in S : IsNext(next, S) /\ g = Lesser(next.ts, m_safeTime[r]) + BundleDelay(r, s)
  BY DEF Guarantees
<1>2. next.ts \in Nat /\ m_safeTime[r] \in Nat /\ BundleDelay(r, s) \in Nat
  BY DelayIsNat DEF Event, TypeOK
<1>3. g \in Nat /\ g <= m_safeTime[r] + BundleDelay(r, s) /\ g <= next.ts + BundleDelay(r, s)
  BY <1>1, <1>2 DEF Lesser
<1>4. ASSUME NEW e \in S PROVE g <= e.ts + BundleDelay(r, s)
  <2>1. e.ts \in Nat /\ next.ts <= e.ts
    BY <1>1, <1>2 DEF IsNext, Before, Event
  <2> QED
    BY <1>2, <1>3, <2>1
<1>5. ASSUME NEW x \in Nat, IsBound(r, s, S, x) PROVE x <= g
  <2>1. x <= m_safeTime[r] + BundleDelay(r, s) /\ x <= next.ts + BundleDelay(r, s)
    BY <1>5 DEF IsBound
  <2> QED
    BY <1>1, <1>2, <2>1 DEF Lesser
<1> QED
  BY <1>3, <1>4, <1>5 DEF IsBound, IsGreatestBound

LEMMA InitType == OneLinkEach /\ Init => TypeOK
<1> SUFFICES ASSUME OneLinkEach, Init PROVE TypeOK
  OBVIOUS
<1>1. \A b \in Bundles : <<>> \in Seq(Message)
  BY EmptySeq
<1>2. m_events \in [Rank -> SUBSET Event]
  BY TimeAssumption DEF Init, Event, AppUid, StopUid
<1> QED
  BY <1>1, <1>2, TimeAssumption DEF Init, TypeOK, FirstNullUid, READY

LEMMA CountType ==
  ASSUME NEW f \in [Rank -> Nat], NEW r \in Rank, NEW n \in Nat
  PROVE  [f EXCEPT ![r] = @ + n] \in [Rank -> Nat]
OBVIOUS

LEMMA InsertType ==
  ASSUME NEW f \in [Rank -> SUBSET Event], NEW r \in Rank, NEW S \in SUBSET Event
  PROVE  [f EXCEPT ![r] = @ \cup S] \in [Rank -> SUBSET Event]
OBVIOUS

\* Sending a message to s.
LEMMA SendType ==
  ASSUME TypeOK, NEW r \in Rank, NEW s \in Neighbours(r), NEW m \in Message
  PROVE  [channel EXCEPT ![<<r, s>>] = Append(@, m)] \in [Bundles -> Seq(Message)]
BY NeighboursSymmetric, AppendElements DEF TypeOK

\* Run numbers the null message events from m_uid on, without a repetition.
LEMMA NumberOfNeighbour ==
  ASSUME NEW r \in Rank, NEW s \in Neighbours(r)
  PROVE  /\ Cardinality({q \in Neighbours(r) : q < s}) \in Nat
         /\ Cardinality(Neighbours(r)) \in Nat
         /\ Cardinality({q \in Neighbours(r) : q < s}) < Cardinality(Neighbours(r))
         /\ \A t \in Neighbours(r) :
              Cardinality({q \in Neighbours(r) : q < s}) = Cardinality({q \in Neighbours(r) : q < t})
                => s = t
<1> DEFINE Below(t) == {q \in Neighbours(r) : q < t}
<1>1. \A q \in Neighbours(r) : q \in Nat
  BY RankAssumption DEF Neighbours
<1>2. IsFiniteSet(Neighbours(r))
  BY RankAssumption, FS_Subset DEF Neighbours
<1>3. ASSUME NEW S, NEW T, S \subseteq T, T \subseteq Neighbours(r), S # T
      PROVE  Cardinality(S) < Cardinality(T)
  <2>1. IsFiniteSet(T) /\ IsFiniteSet(S)
    BY <1>2, <1>3, FS_Subset
  <2> QED
    BY <1>3, <2>1, FS_Subset, FS_CardinalityType
<1>4. \A t \in Neighbours(r) : Cardinality(Below(t)) \in Nat /\ Below(t) \subseteq Neighbours(r)
  BY <1>2, FS_Subset, FS_CardinalityType
<1>5. Cardinality(Neighbours(r)) \in Nat
  BY <1>2, FS_CardinalityType
<1>6. Cardinality(Below(s)) < Cardinality(Neighbours(r))
  <2>1. s \in Nat /\ ~ (s < s)
    BY <1>1
  <2> QED
    BY <1>3, <2>1
<1>7. ASSUME NEW t \in Neighbours(r), NEW u \in Neighbours(r), t < u
      PROVE  Cardinality(Below(t)) < Cardinality(Below(u))
  <2>0. t \in Nat /\ u \in Nat /\ ~ (t < t)
    BY <1>1
  <2>1. t \in Below(u) /\ t \notin Below(t)
    BY <1>7, <2>0
  <2>2. Below(t) \subseteq Below(u)
    <3>1. ASSUME NEW q \in Neighbours(r), q < t PROVE q < u
      <4>1. q \in Nat
        BY <1>1
      <4> QED
        BY <1>7, <2>0, <3>1, <4>1
    <3> QED
      BY <3>1
  <2> QED
    BY <1>3, <1>4, <2>1, <2>2
<1>8. ASSUME NEW t \in Neighbours(r), Cardinality(Below(s)) = Cardinality(Below(t)) PROVE s = t
  <2>1. s \in Nat /\ t \in Nat
    BY <1>1
  <2> QED
    BY <1>4, <1>7, <1>8, <2>1
<1> QED
  BY <1>4, <1>5, <1>6, <1>8

LEMMA RunType == ASSUME OneLinkEach, TypeOK, NEW r \in Rank, Run(r) PROVE TypeOK'
<1> DEFINE uidOf(s) == m_uid[r] + Cardinality({q \in Neighbours(r) : q < s})
<1>1. ASSUME NEW s \in Neighbours(r)
      PROVE  /\ uidOf(s) \in Nat /\ BundleDelay(r, s) \in Nat
             /\ NullDelay[<<r, s>>] \in Nat
  <2>1. m_uid[r] \in Nat /\ Cardinality({q \in Neighbours(r) : q < s}) \in Nat
    BY NumberOfNeighbour DEF TypeOK
  <2> QED
    BY <2>1, DelayIsNat, NullDelayIsNat
<1>2. channel' \in [Bundles -> Seq(Message)]
  <2>1. ASSUME NEW b \in Bundles, b[1] = r
        PROVE  Append(channel[b], NullMessageWith(BundleDelay(r, b[2]))) \in Seq(Message)
    <3>1. NullMessageWith(BundleDelay(r, b[2])) \in Message
      BY <1>1, <2>1, BundlesAreNeighbours DEF NullMessageWith, Message
    <3> QED
      BY <3>1, AppendElements DEF TypeOK
  <2> QED
    BY <2>1 DEF Run, TypeOK
<1>3. m_nullEventId' \in [Bundles -> Nat]
  <2>1. \A b \in Bundles : b[1] = r => uidOf(b[2]) \in Nat
    BY <1>1, BundlesAreNeighbours
  <2>2. m_nullEventId' = [b \in Bundles |-> IF b[1] = r THEN uidOf(b[2]) ELSE m_nullEventId[b]]
    BY DEF Run
  <2> HIDE DEF uidOf
  <2> QED
    BY <2>1, <2>2 DEF TypeOK
<1>4. m_events' \in [Rank -> SUBSET Event]
  <2>1. {[ts |-> NullDelay[<<r, s>>], uid |-> uidOf(s)] : s \in Neighbours(r)} \subseteq Event
    <3> SUFFICES ASSUME NEW s \in Neighbours(r)
                 PROVE  [ts |-> NullDelay[<<r, s>>], uid |-> uidOf(s)] \in Event
      OBVIOUS
    <3>1. uidOf(s) \in Nat /\ NullDelay[<<r, s>>] \in Nat
      BY <1>1
    <3> HIDE DEF uidOf
    <3> QED
      BY <3>1 DEF Event
  <2>2. m_events' = [m_events EXCEPT ![r] =
          @ \cup {[ts |-> NullDelay[<<r, s>>], uid |-> uidOf(s)] : s \in Neighbours(r)}]
    BY DEF Run
  <2> HIDE DEF uidOf
  <2> QED
    BY <2>1, <2>2 DEF TypeOK
<1>5. m_uid' \in [Rank -> Nat]
  <2>1. Cardinality(Neighbours(r)) \in Nat
    BY RankAssumption, FS_Subset, FS_CardinalityType DEF Neighbours
  <2> QED
    BY <2>1 DEF Run, TypeOK
<1> QED
  BY <1>2, <1>3, <1>4, <1>5 DEF Run, Goto, TypeOK, clockVars, bundleVars

LEMMA TakeType ==
  ASSUME TypeOK, NEW r \in Rank, NEW s \in Rank, Take(r, s)
  PROVE  /\ channel' \in [Bundles -> Seq(Message)] /\ m_guaranteeTime' \in [Bundles -> Nat]
         /\ m_events' \in [Rank -> SUBSET Event] /\ m_uid' \in [Rank -> Nat]
         /\ Head(channel[<<s, r>>]) \in Message
<1>1. s \in Neighbours(r) /\ channel[<<s, r>>] # <<>> /\ <<s, r>> \in Bundles /\ <<r, s>> \in Bundles
  BY NeighboursSymmetric DEF Take
<1>2. channel[<<s, r>>] \in Seq(Message)
  BY <1>1 DEF TypeOK
<1>3. Tail(channel[<<s, r>>]) \in Seq(Message) /\ Head(channel[<<s, r>>]) \in Message
  BY <1>1, <1>2, TailElements
<1>4. channel' \in [Bundles -> Seq(Message)]
  BY <1>3 DEF Take, TypeOK
<1>5. m_guaranteeTime' \in [Bundles -> Nat]
  BY <1>3 DEF Take, TypeOK, Message
<1>6. m_events' \in [Rank -> SUBSET Event] /\ m_uid' \in [Rank -> Nat]
  <2> DEFINE rx == Head(channel[<<s, r>>]).rxTime
             new == [ts |-> rx, uid |-> m_uid[r]]
  <2>1. new \in Event
    BY <1>3 DEF TypeOK, Message, Event
  <2>2. \/ UNCHANGED <<m_events, m_uid>>
        \/ m_events' = [m_events EXCEPT ![r] = @ \cup {new}] /\ m_uid' = [m_uid EXCEPT ![r] = @ + 1]
    BY DEF Take
  <2> HIDE DEF new
  <2>3. {new} \in SUBSET Event /\ m_events \in [Rank -> SUBSET Event] /\ m_uid \in [Rank -> Nat]
    BY <2>1 DEF TypeOK
  <2>4. [m_events EXCEPT ![r] = @ \cup {new}] \in [Rank -> SUBSET Event]
    BY <2>3, InsertType
  <2>5. [m_uid EXCEPT ![r] = @ + 1] \in [Rank -> Nat]
    BY <2>3, CountType
  <2> QED
    BY <2>2, <2>3, <2>4, <2>5
<1> QED
  BY <1>3, <1>4, <1>5, <1>6

LEMMA NextType == OneLinkEach /\ TypeOK /\ [Next]_vars => TypeOK'
<1> SUFFICES ASSUME OneLinkEach, TypeOK, [Next]_vars PROVE TypeOK'
  OBVIOUS
<1> USE DEF Goto
<1>1. ASSUME NEW r \in Rank, RunReturns(r) \/ EventReturns(r) PROVE TypeOK'
  BY <1>1 DEF RunReturns, EventReturns, TypeOK, eventVars, clockVars, bundleVars
<1>2. ASSUME NEW r \in Rank, ProcessOneEvent(r) PROVE TypeOK'
  BY <1>2 DEF ProcessOneEvent, TypeOK, bundleVars, Event, READY
<1>3. ASSUME NEW r \in Rank, ReceiveNonBlocking(r) \/ ReceiveBlocking(r) PROVE TypeOK'
  <2>1. PICK s \in Rank : Take(r, s)
    BY <1>3 DEF ReceiveNonBlocking, ReceiveBlocking
  <2>2. pc' \in [Rank -> {"start", "loop", "event", "receive", "safe", "done"}]
    BY <1>3 DEF ReceiveNonBlocking, ReceiveBlocking, TypeOK
  <2> QED
    BY <2>1, <2>2, TakeType DEF Take, TypeOK, clockVars
<1>4. ASSUME NEW r \in Rank, CalculateSafeTime(r) PROVE TypeOK'
  <2>1. \A s \in Neighbours(r) : m_guaranteeTime[<<r, s>>] \in Nat
    BY NeighboursSymmetric DEF TypeOK
  <2>2. PICK safe \in {Infinity} \cup {m_guaranteeTime[<<r, s>>] : s \in Neighbours(r)} :
          m_safeTime' = [m_safeTime EXCEPT ![r] = safe]
    BY <1>4 DEF CalculateSafeTime
  <2>3. safe \in Nat
    BY <2>1, <2>2, TimeAssumption
  <2>4. m_safeTime' \in [Rank -> Nat]
    BY <2>2, <2>3 DEF TypeOK
  <2>5. pc' \in [Rank -> {"start", "loop", "event", "receive", "safe", "done"}]
    BY <1>4 DEF CalculateSafeTime, TypeOK
  <2> QED
    BY <1>4, <2>4, <2>5 DEF CalculateSafeTime, TypeOK, eventVars, clockVars
<1>5. ASSUME NEW r \in Rank, NEW s \in Rank, NullMessageEventHandler(r, s) PROVE TypeOK'
  <2>1. s \in Neighbours(r) /\ <<r, s>> \in Bundles /\ NullDelay[<<r, s>>] \in Nat
    BY <1>5, NeighboursSymmetric, NullDelayIsNat DEF NullMessageEventHandler, IsNullEvent
  <2>2. PICK g \in Guarantees(r, s, m_events[r]) :
          channel' = [channel EXCEPT ![<<r, s>>] = Append(@, NullMessageWith(g))]
    BY <1>5 DEF NullMessageEventHandler
  <2>3. g \in Nat
    BY <2>1, GuaranteeType DEF TypeOK
  <2>4. NullMessageWith(g) \in Message
    BY <2>3 DEF NullMessageWith, Message
  <2>5. channel' \in [Bundles -> Seq(Message)]
    BY <2>1, <2>2, <2>4, SendType
  <2>6. m_events' \in [Rank -> SUBSET Event]
    <3> DEFINE null == [ts |-> m_currentTs[r] + NullDelay[<<r, s>>], uid |-> m_uid[r]]
    <3>1. null \in Event
      BY <2>1 DEF TypeOK, Event
    <3>2. m_events' = [m_events EXCEPT ![r] = @ \cup {null}]
      BY <1>5 DEF NullMessageEventHandler
    <3> HIDE DEF null
    <3> QED
      BY <3>1, <3>2 DEF TypeOK
  <2>7. m_nullEventId' \in [Bundles -> Nat] /\ m_uid' \in [Rank -> Nat]
        /\ pc' \in [Rank -> {"start", "loop", "event", "receive", "safe", "done"}]
    <3>1. /\ m_nullEventId' = [m_nullEventId EXCEPT ![<<r, s>>] = m_uid[r]]
          /\ m_uid' = [m_uid EXCEPT ![r] = @ + 1] /\ pc' = [pc EXCEPT ![r] = "receive"]
      BY <1>5 DEF NullMessageEventHandler
    <3> QED
      BY <3>1, CountType DEF TypeOK
  <2> QED
    BY <1>5, <2>5, <2>6, <2>7 DEF NullMessageEventHandler, TypeOK, clockVars, bundleVars
<1>6. ASSUME NEW r \in Rank, NEW d \in Delays, Schedule(r, d) PROVE TypeOK'
  <2>1. d \in Nat
    BY TimeAssumption
  <2> QED
    BY <1>6, <2>1 DEF Schedule, TypeOK, Event, clockVars, bundleVars
<1>7. ASSUME NEW r \in Rank, NEW s \in Rank, NEW l \in Links, NEW txTime \in TxTimes,
             SendPacket(r, s, l, txTime)
      PROVE  TypeOK'
  <2> DEFINE complete == [ts |-> m_currentTs[r] + txTime, uid |-> m_uid[r]]
             pending  == m_events[r] \cup {complete}
             null == [ts |-> m_currentTs[r] + NullDelay[<<r, s>>], uid |-> m_uid[r] + 1]
  <2>1. /\ s \in Neighbours(r) /\ <<r, s>> \in Bundles /\ NullDelay[<<r, s>>] \in Nat
        /\ txTime \in Nat /\ l.delay \in Nat /\ m_currentTs[r] \in Nat /\ m_uid[r] \in Nat
    BY <1>7, NeighboursSymmetric, NullDelayIsNat, TimeAssumption, LinksAssumption
    DEF SendPacket, TypeOK
  <2>2. complete \in Event /\ null \in Event
    BY <2>1 DEF Event
  <2>3. pending \in SUBSET Event /\ m_events' \in [Rank -> SUBSET Event]
    BY <1>7, <2>2 DEF SendPacket, TypeOK
  <2>4. PICK g \in Guarantees(r, s, pending) : channel' = [channel EXCEPT ![<<r, s>>] =
          Append(@, [rxTime |-> m_currentTs[r] + txTime + l.delay, guarantee |-> g])]
    BY <1>7 DEF SendPacket
  <2>5. g \in Nat
    BY <2>1, <2>3, GuaranteeType
  <2>6. [rxTime |-> m_currentTs[r] + txTime + l.delay, guarantee |-> g] \in Message
    BY <2>1, <2>5 DEF Message
  <2>7. channel' \in [Bundles -> Seq(Message)]
    BY <2>1, <2>4, <2>6, SendType
  <2>8. /\ m_transmitting' \in [Rank -> [Links -> Nat]] /\ cancelled' \in [Rank -> SUBSET Nat]
        /\ m_nullEventId' \in [Bundles -> Nat] /\ m_uid' \in [Rank -> Nat]
        /\ work' \in [Rank -> Nat]
    <3>1. m_transmitting' = [m_transmitting EXCEPT ![r][l] = m_uid[r]]
      BY <1>7 DEF SendPacket
    <3>2. cancelled' = [cancelled EXCEPT ![r] = @ \cup {m_nullEventId[<<r, s>>]}]
      BY <1>7 DEF SendPacket
    <3>3. /\ m_nullEventId' = [m_nullEventId EXCEPT ![<<r, s>>] = m_uid[r] + 1]
          /\ m_uid' = [m_uid EXCEPT ![r] = @ + 2] /\ work' = [work EXCEPT ![r] = @ + 1]
      BY <1>7 DEF SendPacket
    <3>4. m_transmitting' \in [Rank -> [Links -> Nat]]
      BY <2>1, <3>1 DEF TypeOK
    <3>5. cancelled' \in [Rank -> SUBSET Nat]
      BY <2>1, <3>2 DEF TypeOK
    <3>6. m_uid' \in [Rank -> Nat] /\ work' \in [Rank -> Nat]
      <4>1. [m_uid EXCEPT ![r] = @ + 2] \in [Rank -> Nat]
        BY CountType DEF TypeOK
      <4>2. [work EXCEPT ![r] = @ + 1] \in [Rank -> Nat]
        BY CountType DEF TypeOK
      <4> QED
        BY <3>3, <4>1, <4>2
    <3>7. m_nullEventId' \in [Bundles -> Nat]
      <4>1. m_nullEventId \in [Bundles -> Nat]
        BY DEF TypeOK
      <4>3. m_uid[r] + 1 \in Nat
        BY <2>1
      <4>2. m_nullEventId' = [m_nullEventId EXCEPT ![<<r, s>>] = m_uid[r] + 1]
        BY <3>3
      <4> QED
        BY <4>1, <4>2, <4>3
    <3> QED
      BY <3>4, <3>5, <3>6, <3>7
  <2> QED
    BY <1>7, <2>3, <2>7, <2>8 DEF SendPacket, TypeOK, clockVars, bundleVars
<1>8. CASE UNCHANGED vars
  BY <1>8 DEF vars, TypeOK, eventVars, clockVars, bundleVars
<1> QED
  BY <1>1, <1>2, <1>3, <1>4, <1>5, <1>6, <1>7, <1>8, RunType DEF Next, Loop, Program

-----------------------------------------------------------------------------
(* What a step changes. *)

\* A rank is alone in changing its own variables; what others see of it is what it
\* puts into their channels.
LEMMA OthersUnchanged ==
  ASSUME TypeOK, NEW r \in Rank, Loop(r) \/ Program(r), NEW x \in Rank, x # r
  PROVE  /\ UNCHANGED <<pc[x], m_events[x], cancelled[x], m_uid[x], m_currentUid[x]>>
         /\ UNCHANGED <<m_currentTs[x], m_safeTime[x], m_transmitting[x]>>
         /\ \A s \in Neighbours(x) : UNCHANGED <<m_nullEventId[<<x, s>>], m_guaranteeTime[<<x, s>>]>>
<1> USE DEF Goto
<1>0. \A s \in Neighbours(x) : <<x, s>> \in Bundles /\ s \in Rank
  BY NeighboursSymmetric
<1>1. CASE RunReturns(r) \/ EventReturns(r) \/ CalculateSafeTime(r)
  BY <1>0, <1>1 DEF RunReturns, EventReturns, CalculateSafeTime, TypeOK, eventVars, clockVars, bundleVars
<1>2. CASE ProcessOneEvent(r)
  BY <1>0, <1>2 DEF ProcessOneEvent, TypeOK, bundleVars
<1>3. CASE ReceiveNonBlocking(r) \/ ReceiveBlocking(r)
  <2>1. PICK s \in Rank : Take(r, s)
    BY <1>3 DEF ReceiveNonBlocking, ReceiveBlocking
  <2>2. UNCHANGED pc[x]
    BY <1>3 DEF ReceiveNonBlocking, ReceiveBlocking, TypeOK
  <2>3. UNCHANGED <<m_events[x], m_uid[x]>>
    BY <2>1 DEF Take, TypeOK
  <2>4. \A t \in Neighbours(x) : UNCHANGED m_guaranteeTime[<<x, t>>]
    BY <1>0, <2>1 DEF Take, TypeOK
  <2> QED
    BY <2>1, <2>2, <2>3, <2>4 DEF Take, clockVars
<1>4. CASE Run(r)
  BY <1>0, <1>4 DEF Run, TypeOK, clockVars, bundleVars
<1>5. ASSUME NEW s \in Rank, NullMessageEventHandler(r, s)
      PROVE  /\ UNCHANGED <<pc[x], m_events[x], cancelled[x], m_uid[x], m_currentUid[x]>>
             /\ UNCHANGED <<m_currentTs[x], m_safeTime[x], m_transmitting[x]>>
             /\ \A t \in Neighbours(x) :
                  UNCHANGED <<m_nullEventId[<<x, t>>], m_guaranteeTime[<<x, t>>]>>
  <2>1. \A t \in Neighbours(x) : UNCHANGED m_nullEventId[<<x, t>>]
    BY <1>0, <1>5 DEF NullMessageEventHandler, TypeOK
  <2> QED
    BY <1>5, <2>1 DEF NullMessageEventHandler, TypeOK, clockVars, bundleVars
<1>6. CASE \E d \in Delays : Schedule(r, d)
  BY <1>0, <1>6 DEF Schedule, TypeOK, clockVars, bundleVars
<1>7. ASSUME NEW s \in Rank, NEW l \in Links, NEW txTime \in TxTimes, SendPacket(r, s, l, txTime)
      PROVE  /\ UNCHANGED <<pc[x], m_events[x], cancelled[x], m_uid[x], m_currentUid[x]>>
             /\ UNCHANGED <<m_currentTs[x], m_safeTime[x], m_transmitting[x]>>
             /\ \A t \in Neighbours(x) :
                  UNCHANGED <<m_nullEventId[<<x, t>>], m_guaranteeTime[<<x, t>>]>>
  <2>1. \A t \in Neighbours(x) : UNCHANGED m_nullEventId[<<x, t>>]
    BY <1>0, <1>7 DEF SendPacket, TypeOK
  <2>2. UNCHANGED m_transmitting[x]
    BY <1>7 DEF SendPacket, TypeOK
  <2> QED
    BY <1>7, <2>1, <2>2 DEF SendPacket, TypeOK, clockVars, bundleVars
<1> QED
  BY <1>1, <1>2, <1>3, <1>4, <1>5, <1>6, <1>7 DEF Loop, Program

\* The numbers of the events of a rank.
Numbers(r) ==
  /\ FirstNullUid <= m_uid[r]
  /\ \A e \in m_events[r] : e.uid < m_uid[r]
  /\ \A e, f \in m_events[r] : e.uid = f.uid => e = f
  /\ m_currentUid[r] < m_uid[r]
  /\ pc[r] = "event" => \A e \in m_events[r] : e.uid # m_currentUid[r]
  /\ \A u \in cancelled[r] : u < m_uid[r]
  /\ \A s \in Neighbours(r) : m_nullEventId[<<r, s>>] < m_uid[r]
  /\ pc[r] # "start" =>
       \A s, q \in Neighbours(r) : m_nullEventId[<<r, s>>] = m_nullEventId[<<r, q>>] => s = q

LEMMA NumbersSame ==
  ASSUME NEW x \in Rank, Numbers(x),
         UNCHANGED <<m_events[x], cancelled[x], m_uid[x], m_currentUid[x]>>,
         \A s \in Neighbours(x) : UNCHANGED m_nullEventId[<<x, s>>],
         pc'[x] = "event" => pc[x] = "event",
         pc[x] = "start" => pc'[x] = "start"
  PROVE  Numbers(x)'
BY DEF Numbers

\* A new event takes the next number, and may become a null message event.
LEMMA NumbersInsert ==
  ASSUME TypeOK, NEW x \in Rank, Numbers(x), NEW e, e.uid = m_uid[x],
         m_events'[x] = m_events[x] \cup {e}, m_uid'[x] = m_uid[x] + 1,
         UNCHANGED <<cancelled[x], m_currentUid[x]>>,
         \A s \in Neighbours(x) :
           UNCHANGED m_nullEventId[<<x, s>>] \/ m_nullEventId'[<<x, s>>] = m_uid[x],
         \A s, q \in Neighbours(x) :
           m_nullEventId'[<<x, s>>] = m_uid[x] /\ m_nullEventId'[<<x, q>>] = m_uid[x] => s = q,
         pc'[x] = "event" => pc[x] = "event",
         pc[x] = "start" => pc'[x] = "start"
  PROVE  Numbers(x)'
<1>1. /\ m_uid[x] \in Nat /\ m_currentUid[x] \in Nat
      /\ \A f \in m_events[x] : f.uid \in Nat
      /\ \A u \in cancelled[x] : u \in Nat
      /\ \A s \in Neighbours(x) : m_nullEventId[<<x, s>>] \in Nat
  <2>1. m_uid[x] \in Nat /\ m_currentUid[x] \in Nat /\ \A u \in cancelled[x] : u \in Nat
    BY DEF TypeOK
  <2>2. \A f \in m_events[x] : f.uid \in Nat
    BY DEF TypeOK, Event
  <2>3. \A s \in Neighbours(x) : m_nullEventId[<<x, s>>] \in Nat
    BY NeighboursSymmetric DEF TypeOK
  <2> QED
    BY <2>1, <2>2, <2>3
<1>2. \A f \in m_events'[x] : f.uid < m_uid'[x]
  BY <1>1 DEF Numbers
<1>3. \A f, g \in m_events'[x] : f.uid = g.uid => f = g
  BY <1>1 DEF Numbers
<1>4. pc'[x] = "event" => \A f \in m_events'[x] : f.uid # m_currentUid'[x]
  BY <1>1 DEF Numbers
<1>5. FirstNullUid <= m_uid'[x] /\ m_currentUid'[x] < m_uid'[x]
      /\ \A u \in cancelled'[x] : u < m_uid'[x]
  BY <1>1 DEF Numbers, FirstNullUid
<1>6. \A s \in Neighbours(x) : m_nullEventId'[<<x, s>>] < m_uid'[x]
  BY <1>1 DEF Numbers
<1>7. pc'[x] # "start" => \A s, q \in Neighbours(x) :
        m_nullEventId'[<<x, s>>] = m_nullEventId'[<<x, q>>] => s = q
  BY <1>1 DEF Numbers
<1> QED
  BY <1>2, <1>3, <1>4, <1>5, <1>6, <1>7 DEF Numbers

LEMMA InitNumbers == ASSUME Init, NEW r \in Rank PROVE Numbers(r)
<1>1. \A s \in Neighbours(r) : m_nullEventId[<<r, s>>] = 0
  BY NeighboursSymmetric DEF Init
<1> QED
  BY <1>1 DEF Init, Numbers, FirstNullUid, AppUid, StopUid

LEMMA RunNumbers ==
  ASSUME TypeOK, NEW r \in Rank, Numbers(r), Run(r)
  PROVE  Numbers(r)'
<1> DEFINE n(s) == Cardinality({q \in Neighbours(r) : q < s})
           N == Cardinality(Neighbours(r))
           null(s) == [ts |-> NullDelay[<<r, s>>], uid |-> m_uid[r] + n(s)]
<1>1. /\ pc'[r] = "loop"
      /\ m_events'[r] = m_events[r] \cup {null(s) : s \in Neighbours(r)}
      /\ m_uid'[r] = m_uid[r] + N
      /\ UNCHANGED <<cancelled[r], m_currentUid[r]>>
      /\ \A b \in Bundles : b[1] = r => m_nullEventId'[b] = m_uid[r] + n(b[2])
  BY DEF Run, Goto, TypeOK, clockVars
<1>2. \A s \in Neighbours(r) : m_nullEventId'[<<r, s>>] = m_uid[r] + n(s)
  BY <1>1, NeighboursSymmetric
<1>3. \A s \in Neighbours(r) : n(s) \in Nat /\ n(s) < N /\ \A t \in Neighbours(r) : n(s) = n(t) => s = t
  BY NumberOfNeighbour
<1>4. N \in Nat
  BY RankAssumption, FS_Subset, FS_CardinalityType DEF Neighbours
<1>5. m_uid[r] \in Nat /\ m_currentUid[r] \in Nat /\ \A u \in cancelled[r] : u \in Nat
  BY DEF TypeOK
<1>6. \A e \in m_events[r] : e.uid \in Nat
  BY DEF TypeOK, Event
<1>7. \A s \in Neighbours(r) : null(s).uid = m_uid[r] + n(s)
  OBVIOUS
<1>8. pc'[r] # "event"
  BY <1>1
<1> HIDE DEF n, N, null
<1>9. \A e \in m_events'[r] : e.uid < m_uid'[r]
  BY <1>1, <1>3, <1>4, <1>5, <1>6, <1>7 DEF Numbers
<1>10. ASSUME NEW e \in m_events'[r], NEW f \in m_events'[r], e.uid = f.uid PROVE e = f
  BY <1>1, <1>3, <1>5, <1>6, <1>7, <1>10 DEF Numbers
<1>11. /\ FirstNullUid <= m_uid'[r] /\ m_currentUid'[r] < m_uid'[r]
       /\ \A u \in cancelled'[r] : u < m_uid'[r]
  BY <1>1, <1>4, <1>5 DEF Numbers, FirstNullUid
<1>12. /\ \A s \in Neighbours(r) : m_nullEventId'[<<r, s>>] < m_uid'[r]
       /\ \A s, q \in Neighbours(r) : m_nullEventId'[<<r, s>>] = m_nullEventId'[<<r, q>>] => s = q
  BY <1>1, <1>2, <1>3, <1>4, <1>5
<1> QED
  BY <1>8, <1>9, <1>10, <1>11, <1>12 DEF Numbers

LEMMA ProcessNumbers ==
  ASSUME TypeOK, NEW r \in Rank, Numbers(r), ProcessOneEvent(r)
  PROVE  Numbers(r)'
<1>1. PICK next \in m_events[r] :
        /\ m_events'[r] = m_events[r] \ {next} /\ m_currentUid'[r] = next.uid
        /\ UNCHANGED <<cancelled[r], m_uid[r]>> /\ pc[r] = "loop" /\ UNCHANGED m_nullEventId
  BY DEF ProcessOneEvent, Goto, TypeOK
<1> QED
  BY <1>1 DEF Numbers

LEMMA TakeNumbers ==
  ASSUME TypeOK, NEW r \in Rank, Numbers(r), NEW s \in Rank, Take(r, s),
         pc'[r] # "event", pc[r] # "start"
  PROVE  Numbers(r)'
<1>1. /\ UNCHANGED <<cancelled[r], m_currentUid[r]>>
      /\ \A t \in Neighbours(r) : UNCHANGED m_nullEventId[<<r, t>>]
  BY DEF Take, clockVars
<1>2. CASE UNCHANGED <<m_events[r], m_uid[r]>>
  BY <1>1, <1>2, NumbersSame
<1>3. ASSUME NEW e, e.uid = m_uid[r], m_events'[r] = m_events[r] \cup {e}, m_uid'[r] = m_uid[r] + 1
      PROVE  Numbers(r)'
  <2>1. \A t \in Neighbours(r) : m_nullEventId'[<<r, t>>] # m_uid[r]
    <3> SUFFICES ASSUME NEW t \in Neighbours(r) PROVE m_nullEventId[<<r, t>>] # m_uid[r]
      BY <1>1
    <3>1. m_nullEventId[<<r, t>>] < m_uid[r] /\ m_uid[r] \in Nat /\ m_nullEventId[<<r, t>>] \in Nat
      BY NeighboursSymmetric DEF Numbers, TypeOK
    <3> QED
      BY <3>1
  <2> QED
    BY <1>1, <1>3, <2>1, NumbersInsert
<1>4. \/ UNCHANGED <<m_events[r], m_uid[r]>>
      \/ \E e : e.uid = m_uid[r] /\ m_events'[r] = m_events[r] \cup {e} /\ m_uid'[r] = m_uid[r] + 1
  <2> DEFINE new == [ts |-> Head(channel[<<s, r>>]).rxTime, uid |-> m_uid[r]]
  <2>1. new.uid = m_uid[r]
    OBVIOUS
  <2>2. \/ UNCHANGED <<m_events, m_uid>>
        \/ m_events' = [m_events EXCEPT ![r] = @ \cup {new}] /\ m_uid' = [m_uid EXCEPT ![r] = @ + 1]
    BY DEF Take
  <2> HIDE DEF new
  <2> QED
    BY <2>1, <2>2 DEF TypeOK
<1> QED
  BY <1>2, <1>3, <1>4

LEMMA NullMessageNumbers ==
  ASSUME TypeOK, NEW r \in Rank, Numbers(r), NEW s \in Rank, NullMessageEventHandler(r, s)
  PROVE  Numbers(r)'
<1> DEFINE null == [ts |-> m_currentTs[r] + NullDelay[<<r, s>>], uid |-> m_uid[r]]
<1>1. /\ m_events' = [m_events EXCEPT ![r] = @ \cup {null}]
      /\ m_uid' = [m_uid EXCEPT ![r] = @ + 1]
      /\ m_nullEventId' = [m_nullEventId EXCEPT ![<<r, s>>] = m_uid[r]]
      /\ pc[r] = "event" /\ pc' = [pc EXCEPT ![r] = "receive"]
      /\ UNCHANGED <<cancelled, m_currentUid>> /\ s \in Neighbours(r)
  BY DEF NullMessageEventHandler, Goto, clockVars, IsNullEvent
<1>2. null.uid = m_uid[r]
  OBVIOUS
<1> HIDE DEF null
<1>3. m_events'[r] = m_events[r] \cup {null} /\ m_uid'[r] = m_uid[r] + 1 /\ pc'[r] = "receive"
  BY <1>1 DEF TypeOK
<1>4. \A t \in Neighbours(r) : m_nullEventId'[<<r, t>>] =
        IF t = s THEN m_uid[r] ELSE m_nullEventId[<<r, t>>]
  BY <1>1, NeighboursSymmetric DEF TypeOK
<1>5. \A t \in Neighbours(r) : m_nullEventId[<<r, t>>] # m_uid[r]
  <2> SUFFICES ASSUME NEW t \in Neighbours(r) PROVE m_nullEventId[<<r, t>>] # m_uid[r]
    OBVIOUS
  <2>1. m_nullEventId[<<r, t>>] < m_uid[r] /\ m_uid[r] \in Nat /\ m_nullEventId[<<r, t>>] \in Nat
    BY NeighboursSymmetric DEF Numbers, TypeOK
  <2> QED
    BY <2>1
<1> QED
  BY <1>1, <1>2, <1>3, <1>4, <1>5, NumbersInsert

LEMMA ScheduleNumbers ==
  ASSUME TypeOK, NEW r \in Rank, Numbers(r), NEW d \in Delays, Schedule(r, d)
  PROVE  Numbers(r)'
<1> DEFINE e == [ts |-> m_currentTs[r] + d, uid |-> m_uid[r]]
<1>1. /\ m_events' = [m_events EXCEPT ![r] = @ \cup {e}]
      /\ m_uid' = [m_uid EXCEPT ![r] = @ + 1]
      /\ UNCHANGED <<pc, cancelled, m_currentUid, m_nullEventId>>
  BY DEF Schedule, clockVars
<1>2. e.uid = m_uid[r]
  OBVIOUS
<1> HIDE DEF e
<1>3. m_events'[r] = m_events[r] \cup {e} /\ m_uid'[r] = m_uid[r] + 1
  BY <1>1 DEF TypeOK
<1>4. \A t \in Neighbours(r) : m_nullEventId'[<<r, t>>] # m_uid[r]
  <2> SUFFICES ASSUME NEW t \in Neighbours(r) PROVE m_nullEventId[<<r, t>>] # m_uid[r]
    BY <1>1
  <2>1. m_nullEventId[<<r, t>>] < m_uid[r] /\ m_uid[r] \in Nat /\ m_nullEventId[<<r, t>>] \in Nat
    BY NeighboursSymmetric DEF Numbers, TypeOK
  <2> QED
    BY <2>1
<1> QED
  BY <1>1, <1>2, <1>3, <1>4, NumbersInsert

\* What SendPacket does: the events complete and null, and the message m.
SendEffect(r, s, l, txTime, complete, null, m) ==
  /\ s \in Neighbours(r) /\ l \in Bundle(r, s)
  /\ pc[r] = "event" /\ IsProgramEvent(r) /\ m_transmitting[r][l] = READY
  /\ complete.ts = m_currentTs[r] + txTime /\ complete.uid = m_uid[r]
  /\ null.ts = m_currentTs[r] + NullDelay[<<r, s>>] /\ null.uid = m_uid[r] + 1
  /\ m.rxTime = m_currentTs[r] + txTime + BundleDelay(r, s)
  /\ m.guarantee <= m_safeTime[r] + BundleDelay(r, s)
  /\ m.guarantee <= complete.ts + BundleDelay(r, s)
  /\ IsGreatestBound(r, s, m_events[r] \cup {complete}, m.guarantee)
  /\ channel' = [channel EXCEPT ![<<r, s>>] = Append(@, m)]
  /\ m_events'[r] = m_events[r] \cup {complete, null}
  /\ m_uid'[r] = m_uid[r] + 2
  /\ m_transmitting'[r] = [m_transmitting[r] EXCEPT ![l] = m_uid[r]]
  /\ cancelled'[r] = cancelled[r] \cup {m_nullEventId[<<r, s>>]}
  /\ \A t \in Neighbours(r) : m_nullEventId'[<<r, t>>] =
       IF t = s THEN m_uid[r] + 1 ELSE m_nullEventId[<<r, t>>]
  /\ UNCHANGED <<pc, m_currentUid, m_currentTs, m_guaranteeTime, m_safeTime>>

LEMMA SendPacketEffect ==
  ASSUME OneLinkEach, TypeOK, NEW r \in Rank, NEW s \in Rank, NEW l \in Links,
         NEW txTime \in TxTimes, SendPacket(r, s, l, txTime)
  PROVE  \E complete, null \in Event, m \in Message :
           SendEffect(r, s, l, txTime, complete, null, m)
<1> DEFINE complete == [ts |-> m_currentTs[r] + txTime, uid |-> m_uid[r]]
           pending  == m_events[r] \cup {complete}
           null == [ts |-> m_currentTs[r] + NullDelay[<<r, s>>], uid |-> m_uid[r] + 1]
<1>1. /\ s \in Neighbours(r) /\ l \in Bundle(r, s) /\ <<r, s>> \in Bundles
      /\ NullDelay[<<r, s>>] \in Nat
      /\ txTime \in Nat /\ l.delay \in Nat /\ m_currentTs[r] \in Nat /\ m_uid[r] \in Nat
      /\ l.delay = BundleDelay(r, s)
  <2>1. s \in Neighbours(r) /\ l \in Bundle(r, s)
    BY DEF SendPacket
  <2>2. l.delay \in Nat /\ l.delay = BundleDelay(r, s)
    BY <2>1, OneDelay
  <2> QED
    BY <2>1, <2>2, NeighboursSymmetric, NullDelayIsNat, TimeAssumption DEF TypeOK
<1>2. complete \in Event /\ null \in Event /\ pending \in SUBSET Event
  <2>1. complete \in Event /\ null \in Event
    BY <1>1 DEF Event
  <2>2. m_events[r] \in SUBSET Event
    BY DEF TypeOK
  <2> QED
    BY <2>1, <2>2
<1>3. PICK g \in Guarantees(r, s, pending) : channel' = [channel EXCEPT ![<<r, s>>] =
        Append(@, [rxTime |-> m_currentTs[r] + txTime + l.delay, guarantee |-> g])]
  BY DEF SendPacket
<1>4. g \in Nat /\ g <= m_safeTime[r] + BundleDelay(r, s) /\ g <= complete.ts + BundleDelay(r, s)
      /\ IsGreatestBound(r, s, pending, g)
  BY <1>1, <1>2, GuaranteeType
<1> DEFINE m == [rxTime |-> m_currentTs[r] + txTime + l.delay, guarantee |-> g]
<1>5. m \in Message /\ m.rxTime = m_currentTs[r] + txTime + BundleDelay(r, s) /\ m.guarantee = g
  BY <1>1, <1>4 DEF Message
<1>6. /\ m_events' = [m_events EXCEPT ![r] = pending \cup {null}]
      /\ m_uid' = [m_uid EXCEPT ![r] = @ + 2]
      /\ m_transmitting' = [m_transmitting EXCEPT ![r][l] = m_uid[r]]
      /\ cancelled' = [cancelled EXCEPT ![r] = @ \cup {m_nullEventId[<<r, s>>]}]
      /\ m_nullEventId' = [m_nullEventId EXCEPT ![<<r, s>>] = m_uid[r] + 1]
      /\ UNCHANGED <<pc, m_currentUid, m_currentTs, m_guaranteeTime, m_safeTime>>
      /\ pc[r] = "event" /\ IsProgramEvent(r) /\ m_transmitting[r][l] = READY
  BY DEF SendPacket, clockVars, bundleVars
<1>7. complete.ts = m_currentTs[r] + txTime /\ complete.uid = m_uid[r]
      /\ null.ts = m_currentTs[r] + NullDelay[<<r, s>>] /\ null.uid = m_uid[r] + 1
  OBVIOUS
<1> HIDE DEF complete, null, m
<1>8. m_events'[r] = m_events[r] \cup {complete, null} /\ m_uid'[r] = m_uid[r] + 2
  BY <1>6 DEF TypeOK
<1>9. m_transmitting'[r] = [m_transmitting[r] EXCEPT ![l] = m_uid[r]]
  BY <1>6 DEF TypeOK
<1>10. cancelled'[r] = cancelled[r] \cup {m_nullEventId[<<r, s>>]}
  BY <1>6 DEF TypeOK
<1>11. \A t \in Neighbours(r) : m_nullEventId'[<<r, t>>] =
        IF t = s THEN m_uid[r] + 1 ELSE m_nullEventId[<<r, t>>]
  BY <1>1, <1>6, NeighboursSymmetric DEF TypeOK
<1>12. channel' = [channel EXCEPT ![<<r, s>>] = Append(@, m)]
  BY <1>3 DEF m
<1>13. m.guarantee <= m_safeTime[r] + BundleDelay(r, s)
       /\ m.guarantee <= complete.ts + BundleDelay(r, s)
       /\ IsGreatestBound(r, s, m_events[r] \cup {complete}, m.guarantee)
  BY <1>4, <1>5
<1>14. SendEffect(r, s, l, txTime, complete, null, m)
  BY <1>1, <1>5, <1>6, <1>7, <1>8, <1>9, <1>10, <1>11, <1>12, <1>13 DEF SendEffect
<1> QED
  BY <1>2, <1>5, <1>14

LEMMA SendNumbers ==
  ASSUME OneLinkEach, TypeOK, NEW r \in Rank, Numbers(r), NEW s \in Rank, NEW l \in Links,
         NEW txTime \in TxTimes, SendPacket(r, s, l, txTime)
  PROVE  Numbers(r)'
<1>0. PICK complete, null \in Event, m \in Message : SendEffect(r, s, l, txTime, complete, null, m)
  BY SendPacketEffect
<1>1. /\ s \in Neighbours(r) /\ pc[r] = "event"
      /\ complete.uid = m_uid[r] /\ null.uid = m_uid[r] + 1
      /\ m_events'[r] = m_events[r] \cup {complete, null}
      /\ m_uid'[r] = m_uid[r] + 2
      /\ cancelled'[r] = cancelled[r] \cup {m_nullEventId[<<r, s>>]}
      /\ \A t \in Neighbours(r) : m_nullEventId'[<<r, t>>] =
           IF t = s THEN m_uid[r] + 1 ELSE m_nullEventId[<<r, t>>]
      /\ UNCHANGED <<pc, m_currentUid>>
  BY <1>0 DEF SendEffect
<1>2. m_uid[r] \in Nat /\ m_currentUid[r] \in Nat /\ \A u \in cancelled[r] : u \in Nat
  BY DEF TypeOK
<1>3. \A e \in m_events[r] : e.uid \in Nat
  BY DEF TypeOK, Event
<1>4. \A t \in Neighbours(r) : m_nullEventId[<<r, t>>] \in Nat
  BY NeighboursSymmetric DEF TypeOK
<1>5. \A e \in m_events'[r] : e.uid < m_uid'[r]
  BY <1>1, <1>2, <1>3 DEF Numbers
<1>6. ASSUME NEW e \in m_events'[r], NEW f \in m_events'[r], e.uid = f.uid PROVE e = f
  BY <1>1, <1>2, <1>3, <1>6 DEF Numbers
<1>7. \A e \in m_events'[r] : e.uid # m_currentUid'[r]
  BY <1>1, <1>2, <1>3 DEF Numbers
<1>8. /\ FirstNullUid <= m_uid'[r] /\ m_currentUid'[r] < m_uid'[r]
      /\ \A u \in cancelled'[r] : u < m_uid'[r]
  BY <1>1, <1>2, <1>4 DEF Numbers, FirstNullUid
<1>9. /\ \A t \in Neighbours(r) : m_nullEventId'[<<r, t>>] < m_uid'[r]
      /\ \A t, q \in Neighbours(r) : m_nullEventId'[<<r, t>>] = m_nullEventId'[<<r, q>>] => t = q
  BY <1>1, <1>2, <1>4 DEF Numbers
<1> QED
  BY <1>5, <1>6, <1>7, <1>8, <1>9 DEF Numbers

\* No step gives a number twice.
LEMMA NumbersStep ==
  ASSUME OneLinkEach, TypeOK, \A x \in Rank : Numbers(x), [Next]_vars, NEW x \in Rank
  PROVE  Numbers(x)'
<1>1. CASE UNCHANGED vars
  BY <1>1, NumbersSame DEF vars, eventVars, clockVars
<1>2. ASSUME NEW r \in Rank, Loop(r) \/ Program(r), x # r PROVE Numbers(x)'
  <2>1. /\ UNCHANGED <<pc[x], m_events[x], cancelled[x], m_uid[x], m_currentUid[x]>>
        /\ \A s \in Neighbours(x) : UNCHANGED m_nullEventId[<<x, s>>]
    BY <1>2, OthersUnchanged
  <2> QED
    BY <2>1, NumbersSame
<1>3. CASE RunReturns(x) \/ EventReturns(x) \/ CalculateSafeTime(x)
  <2>1. pc[x] # "start" /\ pc'[x] # "event"
        /\ UNCHANGED <<m_events, cancelled, m_uid, m_currentUid, m_nullEventId>>
    BY <1>3 DEF RunReturns, EventReturns, CalculateSafeTime, Goto, eventVars, clockVars, TypeOK
  <2> QED
    BY <2>1, NumbersSame
<1>4. CASE ReceiveNonBlocking(x) \/ ReceiveBlocking(x)
  <2>1. PICK s \in Rank : Take(x, s)
    BY <1>4 DEF ReceiveNonBlocking, ReceiveBlocking
  <2>2. pc[x] # "start" /\ pc'[x] # "event"
    BY <1>4 DEF ReceiveNonBlocking, ReceiveBlocking, Goto, TypeOK
  <2> QED
    BY <2>1, <2>2, TakeNumbers
<1>5. CASE Loop(x)
  BY <1>3, <1>4, <1>5, RunNumbers, ProcessNumbers, NullMessageNumbers DEF Loop
<1>6. CASE Program(x)
  BY <1>6, ScheduleNumbers, SendNumbers DEF Program
<1> QED
  BY <1>1, <1>2, <1>5, <1>6 DEF Next

(***************************************************************************)
(* Promises.  hi is the greatest guarantee each rank has ever given each   *)
(* neighbour.                                                              *)
(***************************************************************************)

\* What r has been told by s, up to h: r is not beyond it, and the packets under way
\* are in order with it.
Told(s, r, h) ==
  LET q == channel[<<s, r>>] IN
  /\ m_guaranteeTime[<<r, s>>] <= h /\ m_safeTime[r] <= h /\ m_currentTs[r] <= h
  /\ Bounded(q, h)
  /\ InOrder(q, m_guaranteeTime[<<r, s>>]) /\ InOrder(q, m_safeTime[r]) /\ InOrder(q, m_currentTs[r])

\* An event that is not cancelled and sends no null message may send a packet.
MaySend(s, uid) ==
  uid \notin cancelled[s] /\ \A t \in Neighbours(s) : uid # m_nullEventId[<<s, t>>]

\* A packet sent when one of q is received, over a link with delay d, keeps h.
NotBefore(q, h, d) == \A k \in 1..Len(q) : q[k].rxTime > 0 => h <= q[k].rxTime + d

\* What s may still send r keeps h: at once, from its pending events, or in answer
\* to the packets that are on their way to it ...
Idle(s, r, h) ==
  /\ \A e \in m_events[s] : MaySend(s, e.uid) => h <= e.ts + BundleDelay(s, r)
  /\ pc[s] = "event" /\ MaySend(s, m_currentUid[s]) => h <= m_currentTs[s] + BundleDelay(s, r)
  /\ \A q \in Neighbours(s) : NotBefore(channel[<<q, s>>], h, BundleDelay(s, r))

\* ... if the link is ready, and else once the transmission is complete.
Free(s, r, h) ==
  \A l \in Bundle(s, r) :
    IF m_transmitting[s][l] = READY THEN Idle(s, r, h)
    ELSE \E e \in m_events[s] : e.uid = m_transmitting[s][l] /\ h <= e.ts + BundleDelay(s, r)

\* The promises of all, none of which is beyond those it depends on.
Promise(hi) ==
  \A s \in Rank : \A r \in Neighbours(s) :
    /\ Told(s, r, hi[<<s, r>>]) /\ Free(s, r, hi[<<s, r>>])
    /\ \A q \in Neighbours(s) : hi[<<s, r>>] <= hi[<<q, s>>] + BundleDelay(s, r)
    /\ pc[s] = "start" => hi[<<s, r>>] = 0

\* No event of a rank is in its past.
Ahead ==
  \A r \in Rank :
    /\ \A e \in m_events[r] : m_currentTs[r] <= e.ts
    /\ pc[r] = "start" => m_currentTs[r] = 0

IInv ==
  /\ TypeOK
  /\ \A r \in Rank : Numbers(r)
  /\ Ahead
  /\ \E hi \in [Bundles -> Nat] : Promise(hi)

LEMMA LowerInOrder ==
  ASSUME NEW q \in Seq(Message), NEW a \in Nat, NEW b \in Nat, InOrder(q, a), b <= a
  PROVE  InOrder(q, b)
<1> SUFFICES ASSUME NEW k \in 1..Len(q), q[k].rxTime > 0
             PROVE  b <= q[k].rxTime /\ \A i \in 1..(k - 1) : q[i].guarantee <= q[k].rxTime
  BY DEF InOrder
<1>1. q[k].rxTime \in Nat
  <2>1. q[k] \in Message
    BY ElementOfSeq
  <2> QED
    BY <2>1 DEF Message
<1>2. a <= q[k].rxTime /\ \A i \in 1..(k - 1) : q[i].guarantee <= q[k].rxTime
  BY DEF InOrder
<1> QED
  BY <1>1, <1>2

LEMMA AppendNotBefore ==
  ASSUME NEW q \in Seq(Message), NEW m \in Message, NEW h, NEW d, NotBefore(q, h, d),
         m.rxTime > 0 => h <= m.rxTime + d
  PROVE  NotBefore(Append(q, m), h, d)
<1> SUFFICES ASSUME NEW k \in 1..(Len(q) + 1), Append(q, m)[k].rxTime > 0
             PROVE  h <= Append(q, m)[k].rxTime + d
  BY AppendElements DEF NotBefore
<1>1. CASE k = Len(q) + 1
  BY <1>1, AppendElements
<1>2. CASE k \in 1..Len(q)
  BY <1>2, AppendElements DEF NotBefore
<1> QED
  BY <1>1, <1>2, AppendElements

LEMMA TailNotBefore ==
  ASSUME NEW q \in Seq(Message), q # <<>>, NEW h, NEW d, NotBefore(q, h, d)
  PROVE  /\ NotBefore(Tail(q), h, d)
         /\ Head(q).rxTime > 0 => h <= Head(q).rxTime + d
<1>1. ASSUME NEW k \in 1..(Len(q) - 1), Tail(q)[k].rxTime > 0 PROVE h <= Tail(q)[k].rxTime + d
  <2>1. k + 1 \in 1..Len(q) /\ Tail(q)[k] = q[k + 1]
    BY TailElements
  <2> QED
    BY <1>1, <2>1 DEF NotBefore
<1>2. 1 \in 1..Len(q) /\ Head(q) = q[1]
  BY TailElements
<1> QED
  BY <1>1, <1>2, TailElements DEF NotBefore

LEMMA InOrderNotBefore ==
  ASSUME NEW q \in Seq(Message), NEW low \in Nat, NEW h \in Nat, NEW d \in Nat,
         InOrder(q, low), h <= low + d
  PROVE  NotBefore(q, h, d)
<1> SUFFICES ASSUME NEW k \in 1..Len(q), q[k].rxTime > 0 PROVE h <= q[k].rxTime + d
  BY DEF NotBefore
<1>1. q[k].rxTime \in Nat
  <2>1. q[k] \in Message
    BY ElementOfSeq
  <2> QED
    BY <2>1 DEF Message
<1>2. low <= q[k].rxTime
  BY DEF InOrder
<1> QED
  BY <1>1, <1>2

LEMMA ToldSame ==
  ASSUME NEW s \in Rank, NEW r \in Neighbours(s), NEW h \in Nat, Told(s, r, h),
         UNCHANGED <<channel[<<s, r>>], m_guaranteeTime[<<r, s>>], m_safeTime[r], m_currentTs[r]>>
  PROVE  Told(s, r, h)'
BY DEF Told, Bounded, InOrder

LEMMA ToldSend ==
  ASSUME TypeOK, NEW s \in Rank, NEW r \in Neighbours(s), NEW h \in Nat, NEW g \in Nat,
         Told(s, r, h), h <= g, NEW m \in Message, m.guarantee <= g, m.rxTime > 0 => h <= m.rxTime,
         channel'[<<s, r>>] = Append(channel[<<s, r>>], m),
         UNCHANGED <<m_guaranteeTime[<<r, s>>], m_safeTime[r], m_currentTs[r]>>
  PROVE  Told(s, r, g)'
<1> DEFINE q == channel[<<s, r>>]
<1>1. r \in Rank /\ <<s, r>> \in Bundles /\ <<r, s>> \in Bundles
  BY NeighboursSymmetric
<1>2. /\ q \in Seq(Message) /\ m_guaranteeTime[<<r, s>>] \in Nat
      /\ m_safeTime[r] \in Nat /\ m_currentTs[r] \in Nat
  BY <1>1 DEF TypeOK
<1>3. /\ m_guaranteeTime[<<r, s>>] <= h /\ m_safeTime[r] <= h /\ m_currentTs[r] <= h
      /\ Bounded(q, h)
      /\ InOrder(q, m_guaranteeTime[<<r, s>>]) /\ InOrder(q, m_safeTime[r])
      /\ InOrder(q, m_currentTs[r])
  BY DEF Told
<1> HIDE DEF q
<1>4. Bounded(Append(q, m), g)
  BY <1>2, <1>3, AppendBounded
<1>5. /\ InOrder(Append(q, m), m_guaranteeTime[<<r, s>>])
      /\ InOrder(Append(q, m), m_safeTime[r]) /\ InOrder(Append(q, m), m_currentTs[r])
  BY <1>2, <1>3, AppendInOrder
<1>6. m_guaranteeTime[<<r, s>>] <= g /\ m_safeTime[r] <= g /\ m_currentTs[r] <= g
  BY <1>2, <1>3
<1>7. channel'[<<s, r>>] = Append(q, m)
  BY DEF q
<1> QED
  BY <1>4, <1>5, <1>6, <1>7 DEF Told, Bounded, InOrder

\* A rank that does nothing, whatever packets are sent to it.
LEMMA FreeSame ==
  ASSUME NEW s \in Rank, NEW r \in Neighbours(s), NEW h \in Nat, Free(s, r, h),
         UNCHANGED <<m_events[s], cancelled[s], m_currentUid[s], m_currentTs[s], m_transmitting[s]>>,
         \A t \in Neighbours(s) : UNCHANGED m_nullEventId[<<s, t>>],
         pc'[s] = "event" => pc[s] = "event",
         \A q \in Neighbours(s) :
           NotBefore(channel[<<q, s>>], h, BundleDelay(s, r)) =>
             NotBefore(channel'[<<q, s>>], h, BundleDelay(s, r))
  PROVE  Free(s, r, h)'
<1>1. \A uid : MaySend(s, uid)' <=> MaySend(s, uid)
  BY DEF MaySend
<1>2. Idle(s, r, h) => Idle(s, r, h)'
  BY <1>1 DEF Idle, NotBefore
<1> QED
  BY <1>2 DEF Free

LEMMA FreeOthers ==
  ASSUME TypeOK, NEW a \in Rank, Loop(a) \/ Program(a), NEW s \in Rank, s # a,
         NEW r \in Neighbours(s), NEW h \in Nat, Free(s, r, h),
         \A q \in Neighbours(s) :
           NotBefore(channel[<<q, s>>], h, BundleDelay(s, r)) =>
             NotBefore(channel'[<<q, s>>], h, BundleDelay(s, r))
  PROVE  Free(s, r, h)'
<1>1. /\ UNCHANGED <<pc[s], m_events[s], cancelled[s], m_currentUid[s]>>
      /\ UNCHANGED <<m_currentTs[s], m_transmitting[s]>>
      /\ \A t \in Neighbours(s) : UNCHANGED m_nullEventId[<<s, t>>]
  BY OthersUnchanged
<1> QED
  BY <1>1, FreeSame

LEMMA ToldOthers ==
  ASSUME TypeOK, NEW a \in Rank, Loop(a) \/ Program(a), NEW s \in Rank,
         NEW r \in Neighbours(s), r # a, NEW h \in Nat, Told(s, r, h),
         UNCHANGED channel[<<s, r>>]
  PROVE  Told(s, r, h)'
<1>1. r \in Rank /\ s \in Neighbours(r)
  BY NeighboursSymmetric
<1>2. UNCHANGED <<m_guaranteeTime[<<r, s>>], m_safeTime[r], m_currentTs[r]>>
  BY <1>1, OthersUnchanged
<1> QED
  BY <1>2, ToldSame

LEMMA InitIInv == OneLinkEach /\ Init => IInv
<1> SUFFICES ASSUME OneLinkEach, Init PROVE IInv
  OBVIOUS
<1>1. TypeOK
  BY InitType
<1>2. \A r \in Rank : Numbers(r)
  BY InitNumbers
<1>3. Ahead
  BY TimeAssumption DEF Ahead, Init
<1>4. Promise([b \in Bundles |-> 0])
  <2> SUFFICES ASSUME NEW s \in Rank, NEW r \in Neighbours(s)
               PROVE  /\ Told(s, r, 0) /\ Free(s, r, 0)
                      /\ \A q \in Neighbours(s) : 0 <= 0 + BundleDelay(s, r)
    BY NeighboursSymmetric DEF Promise
  <2>1. /\ r \in Rank /\ <<s, r>> \in Bundles /\ <<r, s>> \in Bundles /\ BundleDelay(s, r) \in Nat
        /\ \A q \in Neighbours(s) : <<q, s>> \in Bundles
    BY NeighboursSymmetric, DelayIsNat
  <2>2. Told(s, r, 0)
    <3>1. channel[<<s, r>>] = <<>> /\ m_guaranteeTime[<<r, s>>] = 0
          /\ m_safeTime[r] = 0 /\ m_currentTs[r] = 0
      BY <2>1 DEF Init
    <3> QED
      BY <3>1 DEF Told, Bounded, InOrder
  <2>3. Idle(s, r, 0)
    <3>1. \A e \in m_events[s] : e.ts \in Nat
      BY <1>1 DEF TypeOK, Event
    <3>2. \A q \in Neighbours(s) : channel[<<q, s>>] = <<>>
      BY <2>1 DEF Init
    <3>3. \A e \in m_events[s] : 0 <= e.ts + BundleDelay(s, r)
      BY <2>1, <3>1
    <3>4. pc[s] # "event"
      BY DEF Init
    <3> QED
      BY <3>2, <3>3, <3>4 DEF Idle, NotBefore
  <2>4. \A l \in Bundle(s, r) : m_transmitting[s][l] = READY
    BY DEF Init, Bundle
  <2> QED
    BY <2>1, <2>2, <2>3, <2>4 DEF Free
<1>5. [b \in Bundles |-> 0] \in [Bundles -> Nat]
  OBVIOUS
<1> QED
  BY <1>1, <1>2, <1>3, <1>4, <1>5 DEF IInv

\* The steps, one by one.  A step that does nothing to events or messages:
LEMMA SilentPromise ==
  ASSUME TypeOK, NEW hi \in [Bundles -> Nat], Promise(hi),
         UNCHANGED <<m_events, cancelled, m_currentUid, m_currentTs, m_transmitting>>,
         UNCHANGED <<m_nullEventId, channel, m_guaranteeTime, m_safeTime>>,
         \A s \in Rank : pc'[s] = "event" => pc[s] = "event",
         \A s \in Rank : pc'[s] = "start" => pc[s] = "start"
  PROVE  Promise(hi)'
<1> SUFFICES ASSUME NEW s \in Rank, NEW r \in Neighbours(s)
             PROVE  /\ Told(s, r, hi[<<s, r>>])' /\ Free(s, r, hi[<<s, r>>])'
                    /\ \A q \in Neighbours(s) : hi[<<s, r>>] <= hi[<<q, s>>] + BundleDelay(s, r)
                    /\ pc'[s] = "start" => hi[<<s, r>>] = 0
  BY DEF Promise
<1>1. /\ Told(s, r, hi[<<s, r>>]) /\ Free(s, r, hi[<<s, r>>])
      /\ \A q \in Neighbours(s) : hi[<<s, r>>] <= hi[<<q, s>>] + BundleDelay(s, r)
      /\ pc[s] = "start" => hi[<<s, r>>] = 0
      /\ hi[<<s, r>>] \in Nat
  BY NeighboursSymmetric DEF Promise
<1>2. Told(s, r, hi[<<s, r>>])'
  BY <1>1, ToldSame
<1>3. Free(s, r, hi[<<s, r>>])'
  BY <1>1, FreeSame
<1> QED
  BY <1>1, <1>2, <1>3

LEMMA SafeTimePromise ==
  ASSUME TypeOK, NEW hi \in [Bundles -> Nat], Promise(hi), NEW a \in Rank, CalculateSafeTime(a)
  PROVE  Promise(hi)'
<1> SUFFICES ASSUME NEW s \in Rank, NEW r \in Neighbours(s)
             PROVE  /\ Told(s, r, hi[<<s, r>>])' /\ Free(s, r, hi[<<s, r>>])'
                    /\ \A q \in Neighbours(s) : hi[<<s, r>>] <= hi[<<q, s>>] + BundleDelay(s, r)
                    /\ pc'[s] = "start" => hi[<<s, r>>] = 0
  BY DEF Promise
<1>1. /\ Told(s, r, hi[<<s, r>>]) /\ Free(s, r, hi[<<s, r>>])
      /\ \A q \in Neighbours(s) : hi[<<s, r>>] <= hi[<<q, s>>] + BundleDelay(s, r)
      /\ pc[s] = "start" => hi[<<s, r>>] = 0
      /\ hi[<<s, r>>] \in Nat /\ r \in Rank /\ s \in Neighbours(r)
      /\ <<s, r>> \in Bundles /\ <<r, s>> \in Bundles
  BY NeighboursSymmetric DEF Promise
<1>2. /\ pc'[a] = "loop" /\ \A x \in Rank \ {a} : pc'[x] = pc[x]
      /\ UNCHANGED <<m_events, cancelled, m_currentUid, m_currentTs, m_transmitting>>
      /\ UNCHANGED <<m_nullEventId, channel, m_guaranteeTime>>
      /\ \A x \in Rank \ {a} : m_safeTime'[x] = m_safeTime[x]
  BY DEF CalculateSafeTime, Goto, TypeOK, eventVars, clockVars
<1>3. Free(s, r, hi[<<s, r>>])'
  BY <1>1, <1>2, FreeSame
<1>4. ASSUME r = a PROVE Told(s, r, hi[<<s, r>>])'
  <2>1. m_safeTime'[a] \in Nat /\ m_safeTime'[a] <= m_guaranteeTime[<<r, s>>]
        /\ m_guaranteeTime[<<r, s>>] \in Nat
    <3>1. Infinity \in Nat /\ m_guaranteeTime[<<r, s>>] \in Nat
          /\ \A x \in Neighbours(a) : m_guaranteeTime[<<a, x>>] \in Nat
      BY <1>1, TimeAssumption, NeighboursSymmetric DEF TypeOK
    <3> DEFINE S == {Infinity} \cup {m_guaranteeTime[<<a, x>>] : x \in Neighbours(a)}
    <3>2. PICK safe \in S : (\A g \in S : safe <= g) /\ m_safeTime' = [m_safeTime EXCEPT ![a] = safe]
      BY DEF CalculateSafeTime
    <3>3. safe \in Nat
      BY <3>1
    <3>4. safe <= m_guaranteeTime[<<r, s>>]
      BY <1>1, <1>4, <3>2
    <3>5. m_safeTime'[a] = safe
      BY <3>2 DEF TypeOK
    <3> QED
      BY <3>1, <3>3, <3>4, <3>5
  <2>2. channel[<<s, r>>] \in Seq(Message)
    BY <1>1 DEF TypeOK
  <2>3. InOrder(channel[<<s, r>>], m_guaranteeTime[<<r, s>>])
    BY <1>1 DEF Told
  <2>4. InOrder(channel[<<s, r>>], m_safeTime'[a])
    BY <2>1, <2>2, <2>3, LowerInOrder
  <2>5. m_safeTime'[r] <= hi[<<s, r>>]
    BY <1>1, <1>4, <2>1 DEF Told
  <2> QED
    BY <1>1, <1>2, <1>4, <2>4, <2>5 DEF Told, Bounded, InOrder
<1>5. Told(s, r, hi[<<s, r>>])'
  BY <1>1, <1>2, <1>4, ToldSame
<1> QED
  BY <1>1, <1>2, <1>3, <1>5

LEMMA ProcessPromise ==
  ASSUME TypeOK, \A x \in Rank : Numbers(x), NEW hi \in [Bundles -> Nat], Promise(hi),
         NEW a \in Rank, ProcessOneEvent(a), OneLinkEach
  PROVE  Promise(hi)'
<1> SUFFICES ASSUME NEW s \in Rank, NEW r \in Neighbours(s)
             PROVE  /\ Told(s, r, hi[<<s, r>>])' /\ Free(s, r, hi[<<s, r>>])'
                    /\ \A q \in Neighbours(s) : hi[<<s, r>>] <= hi[<<q, s>>] + BundleDelay(s, r)
                    /\ pc'[s] = "start" => hi[<<s, r>>] = 0
  BY DEF Promise
<1>1. /\ Told(s, r, hi[<<s, r>>]) /\ Free(s, r, hi[<<s, r>>])
      /\ \A q \in Neighbours(s) : hi[<<s, r>>] <= hi[<<q, s>>] + BundleDelay(s, r)
      /\ pc[s] = "start" => hi[<<s, r>>] = 0
      /\ hi[<<s, r>>] \in Nat /\ r \in Rank /\ s \in Neighbours(r)
      /\ <<s, r>> \in Bundles /\ <<r, s>> \in Bundles
  BY NeighboursSymmetric DEF Promise
<1>2. PICK next \in m_events[a] :
        /\ IsNext(next, m_events[a])
        /\ next.ts <= m_safeTime[a]
        /\ m_events' = [m_events EXCEPT ![a] = @ \ {next}]
        /\ m_currentTs' = [m_currentTs EXCEPT ![a] = next.ts]
        /\ m_currentUid' = [m_currentUid EXCEPT ![a] = next.uid]
        /\ m_transmitting' = [m_transmitting EXCEPT ![a] =
             [l \in Links |-> IF @[l] = next.uid THEN READY ELSE @[l]]]
        /\ UNCHANGED <<cancelled, m_nullEventId, channel, m_guaranteeTime, m_safeTime>>
        /\ pc[a] = "loop" /\ pc' = [pc EXCEPT ![a] = "event"]
  BY DEF ProcessOneEvent, Goto, bundleVars
<1>3. next.ts \in Nat /\ m_safeTime[a] \in Nat /\ m_currentTs'[a] = next.ts
      /\ m_events'[a] = m_events[a] \ {next} /\ m_currentUid'[a] = next.uid
      /\ (\A l \in Links : m_transmitting'[a][l] =
            IF m_transmitting[a][l] = next.uid THEN READY ELSE m_transmitting[a][l])
      /\ pc'[a] = "event"
  BY <1>2 DEF TypeOK, Event
<1>4. ASSUME NEW t \in Neighbours(a) PROVE InOrder(channel[<<t, a>>], m_safeTime[a])
  BY NeighboursSymmetric DEF Promise, Told
<1>5. ASSUME r = a PROVE Told(s, r, hi[<<s, r>>])'
  <2>1. channel[<<s, r>>] \in Seq(Message)
    BY <1>1 DEF TypeOK
  <2>2. InOrder(channel[<<s, r>>], next.ts)
    BY <1>1, <1>2, <1>3, <1>4, <1>5, <2>1, LowerInOrder
  <2>3. next.ts <= hi[<<s, r>>]
    <3>1. m_safeTime[a] <= hi[<<s, r>>]
      BY <1>1, <1>5 DEF Told
    <3> QED
      BY <1>1, <1>2, <1>3, <3>1
  <2> QED
    BY <1>1, <1>2, <1>3, <1>5, <2>2, <2>3 DEF Told, Bounded, InOrder
<1>6. Told(s, r, hi[<<s, r>>])'
  <2>1. ASSUME r # a PROVE UNCHANGED m_currentTs[r]
    BY <1>1, <1>2, <2>1 DEF TypeOK
  <2> QED
    BY <1>1, <1>2, <1>5, <2>1, ToldSame
<1>7. ASSUME s = a PROVE Free(s, r, hi[<<s, r>>])'
  <2> DEFINE d == BundleDelay(s, r)
             h == hi[<<s, r>>]
  <2>1. d \in Nat /\ h \in Nat
    BY <1>1, DelayIsNat
  <2>2. \A e \in m_events[s] : e.ts \in Nat /\ next.ts <= e.ts
    <3>1. \A e \in m_events[a] : e.ts \in Nat
      BY DEF TypeOK, Event
    <3>2. \A e \in m_events[a] : next.ts <= e.ts
      BY <1>2, <1>3, <3>1 DEF IsNext, Before
    <3> QED
      BY <1>7, <3>1, <3>2
  <2>3. \A uid : MaySend(s, uid)' <=> MaySend(s, uid)
    BY <1>2 DEF MaySend
  <2>4. Idle(s, r, h) => Idle(s, r, h)'
    BY <1>2, <1>3, <1>7, <2>3 DEF Idle, NotBefore
  <2>5. ASSUME h <= next.ts + d PROVE Idle(s, r, h)'
    <3>1. \A e \in m_events[s] : h <= e.ts + d
      BY <1>3, <2>1, <2>2, <2>5
    <3>2. ASSUME NEW q \in Neighbours(s) PROVE NotBefore(channel[<<q, s>>], h, d)
      <4>1. channel[<<q, s>>] \in Seq(Message)
        BY NeighboursSymmetric DEF TypeOK
      <4>2. h <= m_safeTime[s] + d
        BY <1>2, <1>3, <1>7, <2>1, <2>5
      <4> QED
        BY <1>3, <1>4, <1>7, <2>1, <4>1, <4>2, InOrderNotBefore
    <3>3. m_currentTs'[s] = next.ts /\ m_events'[s] = m_events[s] \ {next} /\ UNCHANGED channel
      BY <1>2, <1>3, <1>7
    <3> QED
      BY <2>5, <3>1, <3>2, <3>3 DEF Idle, NotBefore
  <2> HIDE DEF d, h
  <2>6. ASSUME NEW l \in Bundle(s, r), m_transmitting[s][l] # READY
        PROVE  \/ h <= next.ts + d /\ m_transmitting[s][l] = next.uid
               \/ /\ m_transmitting[s][l] # next.uid
                  /\ \E e \in m_events'[s] : e.uid = m_transmitting[s][l] /\ h <= e.ts + d
    <3>1. PICK e \in m_events[s] : e.uid = m_transmitting[s][l] /\ h <= e.ts + d
      BY <1>1, <2>6 DEF Free, d, h
    <3>2. CASE m_transmitting[s][l] = next.uid
      <4>1. e = next
        BY <1>2, <1>7, <3>1, <3>2 DEF Numbers
      <4> QED
        BY <3>1, <3>2, <4>1
    <3>3. CASE m_transmitting[s][l] # next.uid
      BY <1>3, <1>7, <3>1, <3>3
    <3> QED
      BY <3>2, <3>3
  <2>7. ASSUME NEW l \in Bundle(s, r)
        PROVE  IF m_transmitting'[s][l] = READY THEN Idle(s, r, h)'
               ELSE \E e \in m_events'[s] : e.uid = m_transmitting'[s][l] /\ h <= e.ts + d
    <3>1. m_transmitting'[s][l] =
            IF m_transmitting[s][l] = next.uid THEN READY ELSE m_transmitting[s][l]
      BY <1>3, <1>7 DEF Bundle
    <3>2. CASE m_transmitting[s][l] = READY
      <4>1. Idle(s, r, h)
        BY <1>1, <3>2 DEF Free, h
      <4> QED
        BY <2>4, <3>1, <3>2, <4>1
    <3>3. CASE m_transmitting[s][l] # READY
      BY <2>5, <2>6, <3>1, <3>3 DEF d, h
    <3> QED
      BY <3>2, <3>3
  <2> QED
    BY <2>7 DEF Free, d, h
<1>8. Free(s, r, hi[<<s, r>>])'
  <2>1. CASE s = a
    BY <1>7, <2>1
  <2>2. CASE s # a
    BY <1>1, <1>2, <2>2, FreeOthers DEF Loop
  <2> QED
    BY <2>1, <2>2
<1> QED
  BY <1>1, <1>2, <1>6, <1>8 DEF TypeOK

\* The next message for a, from p.
TakeEffect(a, p, m, q) ==
  /\ p \in Neighbours(a) /\ q = channel[<<p, a>>] /\ q # <<>> /\ m = Head(q)
  /\ channel' = [channel EXCEPT ![<<p, a>>] = Tail(q)]
  /\ m_guaranteeTime' = [m_guaranteeTime EXCEPT ![<<a, p>>] = m.guarantee]
  /\ \/ UNCHANGED m_events[a]
     \/ /\ m.rxTime > 0
        /\ \E e : e.ts = m.rxTime /\ m_events'[a] = m_events[a] \cup {e}
  /\ \A x \in Rank \ {a} : UNCHANGED m_events[x]
  /\ UNCHANGED <<cancelled, m_currentUid, m_currentTs, m_safeTime, m_nullEventId, m_transmitting>>

LEMMA TakeHasEffect ==
  ASSUME TypeOK, NEW a \in Rank, NEW p \in Rank, Take(a, p)
  PROVE  TakeEffect(a, p, Head(channel[<<p, a>>]), channel[<<p, a>>])
<1> DEFINE m == Head(channel[<<p, a>>])
           e == [ts |-> m.rxTime, uid |-> m_uid[a]]
<1>1. e.ts = m.rxTime
  OBVIOUS
<1>2. \/ UNCHANGED m_events
      \/ m.rxTime > 0 /\ m_events' = [m_events EXCEPT ![a] = @ \cup {e}]
  BY DEF Take
<1>3. /\ p \in Neighbours(a) /\ channel[<<p, a>>] # <<>>
      /\ channel' = [channel EXCEPT ![<<p, a>>] = Tail(channel[<<p, a>>])]
      /\ m_guaranteeTime' = [m_guaranteeTime EXCEPT ![<<a, p>>] = m.guarantee]
      /\ UNCHANGED <<cancelled, m_currentUid, m_currentTs, m_safeTime, m_nullEventId, m_transmitting>>
  BY DEF Take, clockVars
<1> HIDE DEF e, m
<1>4. /\ UNCHANGED m_events[a] \/ (m.rxTime > 0 /\ m_events'[a] = m_events[a] \cup {e})
      /\ \A x \in Rank \ {a} : UNCHANGED m_events[x]
  BY <1>2 DEF TypeOK
<1> QED
  BY <1>1, <1>3, <1>4 DEF TakeEffect, m

LEMMA TakePromise ==
  ASSUME TypeOK, NEW hi \in [Bundles -> Nat], Promise(hi), OneLinkEach,
         NEW a \in Rank, Loop(a), NEW p \in Rank, Take(a, p),
         \A x \in Rank : pc'[x] # "event" \/ pc'[x] = pc[x],
         \A x \in Rank : pc'[x] = "start" => pc[x] = "start"
  PROVE  Promise(hi)'
<1> SUFFICES ASSUME NEW s \in Rank, NEW r \in Neighbours(s)
             PROVE  /\ Told(s, r, hi[<<s, r>>])' /\ Free(s, r, hi[<<s, r>>])'
                    /\ \A q \in Neighbours(s) : hi[<<s, r>>] <= hi[<<q, s>>] + BundleDelay(s, r)
                    /\ pc'[s] = "start" => hi[<<s, r>>] = 0
  BY DEF Promise
<1>1. /\ Told(s, r, hi[<<s, r>>]) /\ Free(s, r, hi[<<s, r>>])
      /\ \A q \in Neighbours(s) : hi[<<s, r>>] <= hi[<<q, s>>] + BundleDelay(s, r)
      /\ pc[s] = "start" => hi[<<s, r>>] = 0
      /\ hi[<<s, r>>] \in Nat /\ r \in Rank /\ s \in Neighbours(r)
      /\ <<s, r>> \in Bundles /\ <<r, s>> \in Bundles
  BY NeighboursSymmetric DEF Promise
<1> DEFINE old == channel[<<p, a>>]
           m == Head(old)
<1>2. TakeEffect(a, p, m, old)
  BY TakeHasEffect
<1> HIDE DEF m, old
<1>3. /\ old = channel[<<p, a>>] /\ old # <<>> /\ m = Head(old) /\ p \in Neighbours(a)
      /\ channel' = [channel EXCEPT ![<<p, a>>] = Tail(old)]
      /\ m_guaranteeTime' = [m_guaranteeTime EXCEPT ![<<a, p>>] = m.guarantee]
      /\ UNCHANGED <<cancelled, m_currentUid, m_currentTs, m_safeTime, m_nullEventId, m_transmitting>>
  BY <1>2 DEF TakeEffect
<1>4. <<p, a>> \in Bundles /\ <<a, p>> \in Bundles /\ old \in Seq(Message)
  BY <1>3, NeighboursSymmetric DEF TypeOK
<1>5. /\ channel'[<<p, a>>] = Tail(old)
      /\ \A b \in Bundles : b # <<p, a>> => UNCHANGED channel[b]
      /\ m_guaranteeTime'[<<a, p>>] = m.guarantee
      /\ \A b \in Bundles : b # <<a, p>> => UNCHANGED m_guaranteeTime[b]
  BY <1>3, <1>4 DEF TypeOK
<1>6. ASSUME NEW h, NEW d, NEW b \in Bundles, NotBefore(channel[b], h, d)
      PROVE  NotBefore(channel'[b], h, d)
  <2>1. CASE b = <<p, a>>
    BY <1>3, <1>4, <1>5, <1>6, <2>1, TailNotBefore
  <2>2. CASE b # <<p, a>>
    BY <1>5, <1>6, <2>2
  <2> QED
    BY <2>1, <2>2
<1>7. ASSUME s = p, r = a PROVE Told(s, r, hi[<<s, r>>])'
  <2> DEFINE h == hi[<<s, r>>]
  <2>1. Bounded(old, h) /\ InOrder(old, m_safeTime[a]) /\ InOrder(old, m_currentTs[a])
        /\ InOrder(old, m_guaranteeTime[<<a, p>>])
    BY <1>1, <1>3, <1>7 DEF Told
  <2>2. m_safeTime[a] \in Nat /\ m_currentTs[a] \in Nat /\ m_guaranteeTime[<<a, p>>] \in Nat /\ h \in Nat
    BY <1>1, <1>4 DEF TypeOK
  <2> HIDE DEF h
  <2>3. Bounded(Tail(old), h) /\ m.guarantee <= h
    BY <1>3, <1>4, <2>1, <2>2, TailBounded
  <2>4. InOrder(Tail(old), m.guarantee) /\ InOrder(Tail(old), m_safeTime[a])
        /\ InOrder(Tail(old), m_currentTs[a])
    BY <1>3, <1>4, <2>1, <2>2, TailInOrder
  <2>5. /\ channel'[<<s, r>>] = Tail(old) /\ m_guaranteeTime'[<<r, s>>] = m.guarantee
        /\ m_safeTime'[r] = m_safeTime[a] /\ m_currentTs'[r] = m_currentTs[a]
        /\ m_safeTime[a] <= h /\ m_currentTs[a] <= h
    BY <1>1, <1>3, <1>5, <1>7 DEF Told, h
  <2>6. Told(s, r, h)'
    BY <2>3, <2>4, <2>5 DEF Told, Bounded, InOrder
  <2> QED
    BY <2>6 DEF h
<1>8. Told(s, r, hi[<<s, r>>])'
  <2>1. CASE s = p /\ r = a
    BY <1>7, <2>1
  <2>2. CASE ~ (s = p /\ r = a)
    <3>1. <<s, r>> # <<p, a>> /\ <<r, s>> # <<a, p>>
      BY <2>2
    <3> QED
      BY <1>1, <1>3, <1>5, <3>1, ToldSame
  <2> QED
    BY <2>1, <2>2
<1>9. ASSUME s = a PROVE Free(s, r, hi[<<s, r>>])'
  <2> DEFINE d == BundleDelay(s, r)
             h == hi[<<s, r>>]
  <2>1. \A uid : MaySend(s, uid)' <=> MaySend(s, uid)
    BY <1>3 DEF MaySend
  <2>2. m_events[s] \subseteq m_events'[s]
    BY <1>2, <1>9 DEF TakeEffect
  <2>3. ASSUME Idle(s, r, h) PROVE Idle(s, r, h)'
    <3>1. ASSUME NEW e \in m_events'[s], MaySend(s, e.uid) PROVE h <= e.ts + d
      <4>1. CASE e \in m_events[s]
        BY <2>3, <3>1, <4>1 DEF Idle
      <4>2. CASE e \notin m_events[s]
        <5>1. m.rxTime > 0 /\ e.ts = m.rxTime
          BY <1>2, <1>9, <3>1, <4>2 DEF TakeEffect
        <5>2. NotBefore(old, h, d)
          BY <1>3, <1>9, <2>3 DEF Idle
        <5> QED
          BY <1>3, <1>4, <5>1, <5>2, TailNotBefore
      <4> QED
        BY <4>1, <4>2
    <3>2. \A q \in Neighbours(s) : <<q, s>> \in Bundles /\ NotBefore(channel[<<q, s>>], h, d)
      BY <2>3, NeighboursSymmetric DEF Idle
    <3>3. \A q \in Neighbours(s) : NotBefore(channel'[<<q, s>>], h, d)
      BY <1>6, <3>2
    <3>4. pc'[s] = "event" => pc[s] = "event"
      OBVIOUS
    <3>5. pc'[s] = "event" /\ MaySend(s, m_currentUid[s]) => h <= m_currentTs[s] + d
      BY <2>3, <3>4 DEF Idle
    <3> QED
      BY <1>3, <2>1, <3>1, <3>3, <3>5 DEF Idle, NotBefore
  <2> HIDE DEF d, h
  <2>4. ASSUME NEW l \in Bundle(s, r)
        PROVE  IF m_transmitting'[s][l] = READY THEN Idle(s, r, h)'
               ELSE \E e \in m_events'[s] : e.uid = m_transmitting'[s][l] /\ h <= e.ts + d
    BY <1>1, <1>3, <2>2, <2>3 DEF Free, d, h
  <2> QED
    BY <2>4 DEF Free, d, h
<1>10. Free(s, r, hi[<<s, r>>])'
  <2>1. CASE s # a
    <3>1. \A q \in Neighbours(s) : <<q, s>> \in Bundles
      BY NeighboursSymmetric
    <3> QED
      BY <1>1, <1>6, <2>1, <3>1, FreeOthers
  <2> QED
    BY <1>9, <2>1
<1> QED
  BY <1>1, <1>8, <1>10

\* a sends p the message m, and from now on p holds the promise g.
LEMMA SentPromise ==
  ASSUME OneLinkEach, TypeOK, NEW hi \in [Bundles -> Nat], Promise(hi),
         NEW a \in Rank, Loop(a) \/ Program(a), NEW p \in Neighbours(a), NEW m \in Message,
         channel' = [channel EXCEPT ![<<a, p>>] = Append(@, m)],
         m.rxTime > 0 => hi[<<a, p>>] <= m.rxTime,
         NEW g \in Nat, hi[<<a, p>>] <= g, m.guarantee <= g,
         \A q \in Neighbours(a) : g <= hi[<<q, a>>] + BundleDelay(a, p),
         \A r \in Neighbours(a) : Free(a, r, IF r = p THEN g ELSE hi[<<a, r>>])',
         UNCHANGED <<m_guaranteeTime, m_safeTime, m_currentTs>>,
         pc'[a] # "start"
  PROVE  Promise([hi EXCEPT ![<<a, p>>] = g])'
<1> DEFINE up == [hi EXCEPT ![<<a, p>>] = g]
<1>1. /\ <<a, p>> \in Bundles
      /\ up[<<a, p>>] = g
      /\ \A b \in Bundles : b # <<a, p>> => up[b] = hi[b]
      /\ \A b \in Bundles : up[b] \in Nat /\ hi[b] \in Nat /\ hi[b] <= up[b]
  <2>1. <<a, p>> \in Bundles
    BY NeighboursSymmetric
  <2>2. up[<<a, p>>] = g /\ \A b \in Bundles : b # <<a, p>> => up[b] = hi[b]
    BY <2>1
  <2>3. \A b \in Bundles : hi[b] \in Nat
    OBVIOUS
  <2> HIDE DEF up
  <2>4. ASSUME NEW b \in Bundles PROVE up[b] \in Nat /\ hi[b] <= up[b]
    <3>1. CASE b = <<a, p>>
      BY <2>2, <3>1
    <3>2. CASE b # <<a, p>>
      <4>1. up[b] = hi[b] /\ hi[b] \in Nat
        BY <2>2, <2>3, <3>2
      <4> QED
        BY <4>1
    <3> QED
      BY <3>1, <3>2
  <2> QED
    BY <2>1, <2>2, <2>3, <2>4
<1> HIDE DEF up
<1> SUFFICES ASSUME NEW s \in Rank, NEW r \in Neighbours(s)
             PROVE  /\ Told(s, r, up[<<s, r>>])' /\ Free(s, r, up[<<s, r>>])'
                    /\ \A q \in Neighbours(s) : up[<<s, r>>] <= up[<<q, s>>] + BundleDelay(s, r)
                    /\ pc'[s] = "start" => up[<<s, r>>] = 0
  BY DEF Promise, up
<1>2. /\ Told(s, r, hi[<<s, r>>]) /\ Free(s, r, hi[<<s, r>>])
      /\ \A q \in Neighbours(s) : hi[<<s, r>>] <= hi[<<q, s>>] + BundleDelay(s, r)
      /\ pc[s] = "start" => hi[<<s, r>>] = 0
      /\ hi[<<s, r>>] \in Nat /\ r \in Rank /\ s \in Neighbours(r) /\ BundleDelay(s, r) \in Nat
      /\ <<s, r>> \in Bundles /\ <<r, s>> \in Bundles
      /\ \A q \in Neighbours(s) : <<q, s>> \in Bundles
  BY NeighboursSymmetric, DelayIsNat DEF Promise
<1>3. /\ channel'[<<a, p>>] = Append(channel[<<a, p>>], m)
      /\ \A b \in Bundles : channel[b] \in Seq(Message)
      /\ \A b \in Bundles : b # <<a, p>> => UNCHANGED channel[b]
  BY <1>1 DEF TypeOK
<1>4. Told(s, r, up[<<s, r>>])'
  <2>1. CASE <<s, r>> = <<a, p>>
    BY <1>1, <1>2, <1>3, <2>1, ToldSend
  <2>2. CASE <<s, r>> # <<a, p>>
    BY <1>1, <1>2, <1>3, <2>2, ToldSame
  <2> QED
    BY <2>1, <2>2
<1>5. Free(s, r, up[<<s, r>>])'
  <2>1. CASE s = a
    <3>1. up[<<s, r>>] = IF r = p THEN g ELSE hi[<<a, r>>]
      BY <1>1, <1>2, <2>1
    <3> QED
      BY <2>1, <3>1
  <2>2. CASE s # a
    <3> DEFINE h == hi[<<s, r>>]
               d == BundleDelay(s, r)
    <3>1. up[<<s, r>>] = h
      BY <1>1, <1>2, <2>2
    <3>2. ASSUME NEW q \in Neighbours(s), NotBefore(channel[<<q, s>>], h, d)
          PROVE  NotBefore(channel'[<<q, s>>], h, d)
      <4>1. <<q, s>> \in Bundles
        BY <1>2
      <4>2. CASE <<q, s>> = <<a, p>>
        <5>1. h <= hi[<<a, p>>] + d
          BY <1>2, <4>2
        <5>2. m.rxTime > 0 => h <= m.rxTime + d
          <6>1. h \in Nat /\ d \in Nat /\ hi[<<a, p>>] \in Nat
            BY <1>1, <1>2
          <6>2. m.rxTime \in Nat
            BY DEF Message
          <6> HIDE DEF h, d
          <6> QED
            BY <5>1, <6>1, <6>2
        <5> QED
          BY <1>3, <3>2, <4>1, <4>2, <5>2, AppendNotBefore
      <4>3. CASE <<q, s>> # <<a, p>>
        BY <1>3, <3>2, <4>1, <4>3
      <4> QED
        BY <4>2, <4>3
    <3> QED
      BY <1>2, <2>2, <3>1, <3>2, FreeOthers
  <2> QED
    BY <2>1, <2>2
<1>6. ASSUME NEW q \in Neighbours(s) PROVE up[<<s, r>>] <= up[<<q, s>>] + BundleDelay(s, r)
  <2>1. hi[<<q, s>>] \in Nat /\ up[<<q, s>>] \in Nat /\ hi[<<q, s>>] <= up[<<q, s>>]
    BY <1>1, <1>2
  <2>2. up[<<s, r>>] \in Nat /\ up[<<s, r>>] <= hi[<<q, s>>] + BundleDelay(s, r)
    <3>1. CASE s = a /\ r = p
      BY <1>1, <3>1
    <3>2. CASE ~ (s = a /\ r = p)
      <4>1. up[<<s, r>>] = hi[<<s, r>>]
        BY <1>1, <1>2, <3>2
      <4> QED
        BY <1>2, <4>1
    <3> QED
      BY <3>1, <3>2
  <2>3. BundleDelay(s, r) \in Nat
    BY <1>2
  <2> QED
    BY <2>1, <2>2, <2>3
<1>7. pc'[s] = "start" => up[<<s, r>>] = 0
  <2>1. CASE s = a
    BY <2>1
  <2>2. CASE s # a
    BY <1>1, <1>2, <2>2, OthersUnchanged
  <2> QED
    BY <2>1, <2>2
<1> QED
  BY <1>4, <1>5, <1>6, <1>7

\* What NullMessageEventHandler does: the next event null, and the message m.
NullEffect(a, p, null, m) ==
  /\ p \in Neighbours(a) /\ IsNullEvent(a, p)
  /\ pc[a] = "event" /\ pc'[a] = "receive"
  /\ null.ts = m_currentTs[a] + NullDelay[<<a, p>>] /\ null.uid = m_uid[a]
  /\ m.rxTime = 0 /\ m.guarantee <= m_safeTime[a] + BundleDelay(a, p)
  /\ \A e \in m_events[a] : m.guarantee <= e.ts + BundleDelay(a, p)
  /\ IsGreatestBound(a, p, m_events[a], m.guarantee)
  /\ channel' = [channel EXCEPT ![<<a, p>>] = Append(@, m)]
  /\ m_events'[a] = m_events[a] \cup {null}
  /\ \A t \in Neighbours(a) : m_nullEventId'[<<a, t>>] =
       IF t = p THEN m_uid[a] ELSE m_nullEventId[<<a, t>>]
  /\ UNCHANGED <<cancelled, m_currentUid, m_currentTs, m_guaranteeTime, m_safeTime, m_transmitting>>

LEMMA NullHasEffect ==
  ASSUME OneLinkEach, TypeOK, NEW a \in Rank, NEW p \in Rank, NullMessageEventHandler(a, p)
  PROVE  \E null \in Event, m \in Message : NullEffect(a, p, null, m)
<1> DEFINE null == [ts |-> m_currentTs[a] + NullDelay[<<a, p>>], uid |-> m_uid[a]]
<1>1. /\ p \in Neighbours(a) /\ IsNullEvent(a, p)
      /\ pc[a] = "event" /\ pc' = [pc EXCEPT ![a] = "receive"]
      /\ m_events' = [m_events EXCEPT ![a] = @ \cup {null}]
      /\ m_nullEventId' = [m_nullEventId EXCEPT ![<<a, p>>] = m_uid[a]]
      /\ UNCHANGED <<cancelled, m_currentUid, m_currentTs, m_guaranteeTime, m_safeTime>>
      /\ UNCHANGED m_transmitting
  BY DEF NullMessageEventHandler, Goto, IsNullEvent, clockVars, bundleVars
<1>2. m_events[a] \in SUBSET Event /\ m_currentTs[a] \in Nat /\ m_uid[a] \in Nat
      /\ NullDelay[<<a, p>>] \in Nat
  BY <1>1, NullDelayIsNat DEF TypeOK
<1>3. null \in Event /\ null.ts = m_currentTs[a] + NullDelay[<<a, p>>] /\ null.uid = m_uid[a]
  BY <1>2 DEF Event
<1>4. PICK g \in Guarantees(a, p, m_events[a]) :
        channel' = [channel EXCEPT ![<<a, p>>] = Append(@, NullMessageWith(g))]
  BY DEF NullMessageEventHandler
<1>5. /\ g \in Nat /\ g <= m_safeTime[a] + BundleDelay(a, p)
      /\ \A e \in m_events[a] : g <= e.ts + BundleDelay(a, p)
      /\ IsGreatestBound(a, p, m_events[a], g)
  BY <1>1, <1>2, GuaranteeType
<1> DEFINE m == NullMessageWith(g)
<1>6. m \in Message /\ m.rxTime = 0 /\ m.guarantee = g
  BY <1>5 DEF NullMessageWith, Message
<1>7. channel' = [channel EXCEPT ![<<a, p>>] = Append(@, m)]
  BY <1>4
<1> HIDE DEF null, m
<1>8. m_events'[a] = m_events[a] \cup {null} /\ pc'[a] = "receive"
  BY <1>1 DEF TypeOK
<1>9. \A t \in Neighbours(a) : m_nullEventId'[<<a, t>>] =
        IF t = p THEN m_uid[a] ELSE m_nullEventId[<<a, t>>]
  BY <1>1, NeighboursSymmetric DEF TypeOK
<1>10. NullEffect(a, p, null, m)
  BY <1>1, <1>3, <1>5, <1>6, <1>7, <1>8, <1>9 DEF NullEffect
<1> QED
  BY <1>3, <1>6, <1>10

LEMMA NullPromise ==
  ASSUME OneLinkEach, TypeOK, \A x \in Rank : Numbers(x), NEW hi \in [Bundles -> Nat], Promise(hi),
         NEW a \in Rank, NEW p \in Rank, NullMessageEventHandler(a, p)
  PROVE  \E up \in [Bundles -> Nat] : Promise(up)'
<1>1. PICK null \in Event, m \in Message : NullEffect(a, p, null, m)
  BY NullHasEffect
<1>2. /\ p \in Neighbours(a) /\ IsNullEvent(a, p) /\ pc[a] = "event" /\ pc'[a] = "receive"
      /\ null.uid = m_uid[a]
      /\ m.rxTime = 0 /\ m.guarantee <= m_safeTime[a] + BundleDelay(a, p)
      /\ \A e \in m_events[a] : m.guarantee <= e.ts + BundleDelay(a, p)
      /\ channel' = [channel EXCEPT ![<<a, p>>] = Append(@, m)]
      /\ m_events'[a] = m_events[a] \cup {null}
      /\ \A t \in Neighbours(a) : m_nullEventId'[<<a, t>>] =
           IF t = p THEN m_uid[a] ELSE m_nullEventId[<<a, t>>]
      /\ UNCHANGED <<cancelled, m_currentUid, m_currentTs, m_guaranteeTime, m_safeTime>>
      /\ UNCHANGED m_transmitting
  BY <1>1 DEF NullEffect
<1>3. /\ hi[<<a, p>>] \in Nat /\ m.guarantee \in Nat /\ m_safeTime[a] \in Nat /\ m_uid[a] \in Nat
      /\ \A r \in Neighbours(a) : BundleDelay(a, r) \in Nat
  BY <1>2, NeighboursSymmetric, DelayIsNat DEF TypeOK, Message
<1>4. PICK g \in Nat : /\ hi[<<a, p>>] <= g /\ m.guarantee <= g
                       /\ g = hi[<<a, p>>] \/ g = m.guarantee
  <2>1. CASE hi[<<a, p>>] <= m.guarantee
    BY <1>3, <2>1
  <2>2. CASE m.guarantee <= hi[<<a, p>>]
    BY <1>3, <2>2
  <2> QED
    BY <1>3, <2>1, <2>2
<1>5. ASSUME NEW q \in Neighbours(a) PROVE g <= hi[<<q, a>>] + BundleDelay(a, p)
  <2>1. <<q, a>> \in Bundles /\ q \in Rank /\ a \in Neighbours(q)
    BY NeighboursSymmetric
  <2>2. m_safeTime[a] <= hi[<<q, a>>] /\ hi[<<a, p>>] <= hi[<<q, a>>] + BundleDelay(a, p)
    BY <1>2, <2>1 DEF Promise, Told
  <2>3. hi[<<q, a>>] \in Nat /\ BundleDelay(a, p) \in Nat
    BY <1>2, <1>3, <2>1
  <2> QED
    BY <1>2, <1>3, <1>4, <2>2, <2>3
<1>6. \A uid : uid # m_currentUid[a] /\ MaySend(a, uid)' => MaySend(a, uid)
  BY <1>2 DEF MaySend, IsNullEvent
<1>7. ASSUME NEW r \in Neighbours(a) PROVE Free(a, r, IF r = p THEN g ELSE hi[<<a, r>>])'
  <2> DEFINE h == IF r = p THEN g ELSE hi[<<a, r>>]
             d == BundleDelay(a, r)
  <2>1. /\ Free(a, r, hi[<<a, r>>]) /\ hi[<<a, r>>] \in Nat /\ h \in Nat /\ d \in Nat
        /\ \A q \in Neighbours(a) : <<q, a>> \in Bundles /\ InOrder(channel[<<q, a>>], m_safeTime[a])
    BY <1>3, NeighboursSymmetric DEF Promise, Told
  <2>2. h = hi[<<a, r>>] \/ (r = p /\ h = m.guarantee)
    BY <1>4
  <2>3. \A e \in m_events[a] : e.ts \in Nat
    BY DEF TypeOK, Event
  <2>4. \A q \in Neighbours(a) : UNCHANGED channel[<<q, a>>] /\ channel[<<q, a>>] \in Seq(Message)
    <3> SUFFICES ASSUME NEW q \in Neighbours(a)
                 PROVE  UNCHANGED channel[<<q, a>>] /\ channel[<<q, a>>] \in Seq(Message)
      OBVIOUS
    <3>1. <<q, a>> \in Bundles /\ <<q, a>> # <<a, p>>
      BY NeighboursSymmetric
    <3> QED
      BY <1>2, <3>1 DEF TypeOK
  <2> HIDE DEF h, d
  <2>5. ASSUME Idle(a, r, hi[<<a, r>>]) PROVE Idle(a, r, h)'
    <3>1. ASSUME NEW e \in m_events'[a], MaySend(a, e.uid)' PROVE h <= e.ts + d
      <4>1. CASE e = null
        BY <1>2, <3>1, <4>1 DEF MaySend
      <4>2. CASE e \in m_events[a]
        <5>1. e.uid # m_currentUid[a]
          BY <1>2, <4>2 DEF Numbers
        <5>2. MaySend(a, e.uid)
          BY <1>6, <3>1, <5>1
        <5>3. hi[<<a, r>>] <= e.ts + d
          BY <2>5, <4>2, <5>2 DEF Idle, d
        <5>4. r = p => m.guarantee <= e.ts + d
          BY <1>2, <4>2 DEF d
        <5> QED
          BY <2>2, <5>3, <5>4
      <4> QED
        BY <1>2, <3>1, <4>1, <4>2
    <3>2. ASSUME NEW q \in Neighbours(a) PROVE NotBefore(channel[<<q, a>>], h, d)
      <4>1. CASE h = hi[<<a, r>>]
        BY <2>5, <4>1 DEF Idle, d
      <4>2. CASE r = p /\ h = m.guarantee
        BY <1>2, <1>3, <2>1, <2>4, <4>2, InOrderNotBefore DEF d
      <4> QED
        BY <2>2, <4>1, <4>2
    <3>3. \A q \in Neighbours(a) : NotBefore(channel[<<q, a>>], h, d)'
      BY <2>4, <3>2 DEF NotBefore, d
    <3>4. pc'[a] # "event"
      BY <1>2
    <3> QED
      BY <3>1, <3>3, <3>4 DEF Idle, d
  <2>6. ASSUME NEW l \in Bundle(a, r)
        PROVE  IF m_transmitting'[a][l] = READY THEN Idle(a, r, h)'
               ELSE \E e \in m_events'[a] : e.uid = m_transmitting'[a][l] /\ h <= e.ts + d
    <3>1. CASE m_transmitting[a][l] = READY
      BY <1>2, <2>1, <2>5, <3>1 DEF Free
    <3>2. CASE m_transmitting[a][l] # READY
      <4>1. PICK e \in m_events[a] : e.uid = m_transmitting[a][l] /\ hi[<<a, r>>] <= e.ts + d
        BY <2>1, <3>2 DEF Free, d
      <4>2. r = p => m.guarantee <= e.ts + d
        BY <1>2 DEF d
      <4>3. h <= e.ts + d
        BY <2>2, <4>1, <4>2
      <4> QED
        BY <1>2, <3>2, <4>1, <4>3
    <3> QED
      BY <3>1, <3>2
  <2> QED
    BY <2>6 DEF Free, d, h
<1>8. Promise([hi EXCEPT ![<<a, p>>] = g])'
  <2>1. UNCHANGED <<m_guaranteeTime, m_safeTime, m_currentTs>> /\ pc'[a] # "start" /\ p \in Neighbours(a)
    BY <1>2
  <2>2. m.rxTime > 0 => hi[<<a, p>>] <= m.rxTime
    BY <1>2
  <2>3. Loop(a)
    BY DEF Loop
  <2> QED
    BY <1>2, <1>4, <1>5, <1>7, <2>1, <2>2, <2>3, SentPromise
<1> QED
  BY <1>8

LEMMA SendPromise ==
  ASSUME OneLinkEach, TypeOK, \A x \in Rank : Numbers(x), NEW hi \in [Bundles -> Nat], Promise(hi),
         NEW a \in Rank, NEW p \in Rank, NEW l \in Links, NEW txTime \in TxTimes,
         SendPacket(a, p, l, txTime)
  PROVE  \E up \in [Bundles -> Nat] : Promise(up)'
<1>1. PICK complete, null \in Event, m \in Message : SendEffect(a, p, l, txTime, complete, null, m)
  BY SendPacketEffect
<1>2. /\ p \in Neighbours(a) /\ l \in Bundle(a, p)
      /\ pc[a] = "event" /\ IsProgramEvent(a) /\ m_transmitting[a][l] = READY
      /\ complete.ts = m_currentTs[a] + txTime /\ complete.uid = m_uid[a]
      /\ null.uid = m_uid[a] + 1
      /\ m.rxTime = m_currentTs[a] + txTime + BundleDelay(a, p)
      /\ m.guarantee <= m_safeTime[a] + BundleDelay(a, p)
      /\ m.guarantee <= complete.ts + BundleDelay(a, p)
      /\ channel' = [channel EXCEPT ![<<a, p>>] = Append(@, m)]
      /\ m_events'[a] = m_events[a] \cup {complete, null}
      /\ m_transmitting'[a] = [m_transmitting[a] EXCEPT ![l] = m_uid[a]]
      /\ cancelled'[a] = cancelled[a] \cup {m_nullEventId[<<a, p>>]}
      /\ \A t \in Neighbours(a) : m_nullEventId'[<<a, t>>] =
           IF t = p THEN m_uid[a] + 1 ELSE m_nullEventId[<<a, t>>]
      /\ UNCHANGED <<pc, m_currentUid, m_currentTs, m_guaranteeTime, m_safeTime>>
  BY <1>1 DEF SendEffect
<1>3. /\ hi[<<a, p>>] \in Nat /\ m.guarantee \in Nat /\ m_safeTime[a] \in Nat /\ m_uid[a] \in Nat
      /\ m_currentTs[a] \in Nat /\ txTime \in Nat
      /\ \A r \in Neighbours(a) : BundleDelay(a, r) \in Nat
  BY <1>2, NeighboursSymmetric, DelayIsNat, TimeAssumption DEF TypeOK, Message
<1>4. PICK g \in Nat : /\ hi[<<a, p>>] <= g /\ m.guarantee <= g
                       /\ g = hi[<<a, p>>] \/ g = m.guarantee
  <2>1. CASE hi[<<a, p>>] <= m.guarantee
    BY <1>3, <2>1
  <2>2. CASE m.guarantee <= hi[<<a, p>>]
    BY <1>3, <2>2
  <2> QED
    BY <1>3, <2>1, <2>2
<1>5. ASSUME NEW q \in Neighbours(a) PROVE g <= hi[<<q, a>>] + BundleDelay(a, p)
  <2>1. <<q, a>> \in Bundles /\ q \in Rank /\ a \in Neighbours(q)
    BY NeighboursSymmetric
  <2>2. m_safeTime[a] <= hi[<<q, a>>] /\ hi[<<a, p>>] <= hi[<<q, a>>] + BundleDelay(a, p)
    BY <1>2, <2>1 DEF Promise, Told
  <2>3. hi[<<q, a>>] \in Nat /\ BundleDelay(a, p) \in Nat
    BY <1>2, <1>3, <2>1
  <2> QED
    BY <1>2, <1>3, <1>4, <2>2, <2>3
\* The event that sends may send.
<1>6. MaySend(a, m_currentUid[a])
  BY <1>2 DEF IsProgramEvent, IsNullEvent, MaySend
<1>7. ASSUME NEW uid, uid # m_uid[a], MaySend(a, uid)' PROVE MaySend(a, uid)
  BY <1>2, <1>7 DEF MaySend
<1>8. ASSUME NEW r \in Neighbours(a), Idle(a, r, hi[<<a, r>>])
      PROVE  hi[<<a, r>>] <= m_currentTs[a] + BundleDelay(a, r)
  BY <1>2, <1>6, <1>8 DEF Idle
<1>9. Idle(a, p, hi[<<a, p>>])
  <2>1. Free(a, p, hi[<<a, p>>])
    BY <1>2 DEF Promise
  <2> QED
    BY <1>2, <2>1 DEF Free
<1>10. hi[<<a, p>>] <= m_currentTs[a] + BundleDelay(a, p)
  BY <1>2, <1>8, <1>9
<1>11. m.rxTime > 0 => hi[<<a, p>>] <= m.rxTime
  <2>1. m.rxTime = m_currentTs[a] + txTime + BundleDelay(a, p) /\ BundleDelay(a, p) \in Nat
    BY <1>2, <1>3
  <2> QED
    BY <1>3, <1>10, <2>1
<1>12. g <= complete.ts + BundleDelay(a, p)
  BY <1>2, <1>3, <1>4, <1>10
<1>13. ASSUME NEW r \in Neighbours(a) PROVE Free(a, r, IF r = p THEN g ELSE hi[<<a, r>>])'
  <2> DEFINE h == IF r = p THEN g ELSE hi[<<a, r>>]
             d == BundleDelay(a, r)
  <2>1. r \in Rank /\ Free(a, r, hi[<<a, r>>]) /\ hi[<<a, r>>] \in Nat /\ d \in Nat /\ m_transmitting[a] \in [Links -> Nat]
    BY <1>3, NeighboursSymmetric DEF Promise, TypeOK
  <2>2. CASE r = p
    <3>1. h = g /\ d = BundleDelay(a, p)
      BY <2>2
    <3> HIDE DEF h, d
    <3>2. ASSUME NEW k \in Bundle(a, r)
          PROVE  IF m_transmitting'[a][k] = READY THEN Idle(a, r, h)'
                 ELSE \E e \in m_events'[a] : e.uid = m_transmitting'[a][k] /\ h <= e.ts + d
      <4>1. k = l
        BY <1>2, <2>2, OneDelay
      <4>2. m_transmitting'[a][k] = m_uid[a] /\ m_uid[a] # READY
        <5>1. l \in Links /\ m_transmitting[a] \in [Links -> Nat]
          BY <2>1
        <5>2. FirstNullUid <= m_uid[a]
          BY DEF Numbers
        <5> QED
          BY <1>2, <1>3, <4>1, <5>1, <5>2 DEF FirstNullUid, READY
      <4>3. complete \in m_events'[a] /\ complete.uid = m_uid[a] /\ h <= complete.ts + d
        BY <1>2, <1>12, <3>1
      <4> QED
        BY <4>2, <4>3
    <3> QED
      BY <3>2 DEF Free, d, h
  <2>3. CASE r # p
    <3>1. h = hi[<<a, r>>]
      BY <2>3
    <3> HIDE DEF h, d
    <3>2. ASSUME Idle(a, r, h) PROVE Idle(a, r, h)'
      <4>1. h <= m_currentTs[a] + d
        BY <1>8, <3>1, <3>2 DEF d
      <4>2. ASSUME NEW e \in m_events'[a], MaySend(a, e.uid)' PROVE h <= e.ts + d
        <5>1. CASE e = complete
          <6>1. e.ts = m_currentTs[a] + txTime
            BY <1>2, <5>1
          <6>2. h \in Nat
            BY <2>1, <3>1
          <6> QED
            BY <1>3, <2>1, <4>1, <6>1, <6>2
        <5>2. CASE e = null
          BY <1>2, <4>2, <5>2 DEF MaySend
        <5>3. CASE e \in m_events[a]
          <6>1. e.uid # m_uid[a]
            <7>1. e.uid < m_uid[a] /\ e.uid \in Nat
              BY <5>3 DEF Numbers, TypeOK, Event
            <7> QED
              BY <1>3, <7>1
          <6>2. MaySend(a, e.uid)
            BY <1>7, <4>2, <6>1
          <6> QED
            BY <3>2, <5>3, <6>2 DEF Idle, d
        <5> QED
          BY <1>2, <4>2, <5>1, <5>2, <5>3
      <4>3. ASSUME NEW q \in Neighbours(a) PROVE NotBefore(channel[<<q, a>>], h, d)'
        <5>1. <<q, a>> \in Bundles /\ <<q, a>> # <<a, p>>
          BY NeighboursSymmetric
        <5>2. UNCHANGED channel[<<q, a>>]
          BY <1>2, <5>1 DEF TypeOK
        <5> QED
          BY <3>2, <5>2 DEF Idle, NotBefore, d
      <4> QED
        BY <1>2, <4>1, <4>2, <4>3 DEF Idle, d
    <3>3. ASSUME NEW k \in Bundle(a, r)
          PROVE  IF m_transmitting'[a][k] = READY THEN Idle(a, r, h)'
                 ELSE \E e \in m_events'[a] : e.uid = m_transmitting'[a][k] /\ h <= e.ts + d
      <4>1. k # l
        <5>1. {a, r} # {a, p}
          BY <2>3, NeighboursSymmetric
        <5> QED
          BY <1>2, <5>1 DEF Bundle
      <4>2. m_transmitting'[a][k] = m_transmitting[a][k] /\ m_events[a] \subseteq m_events'[a]
        <5>1. k \in Links
          BY DEF Bundle
        <5> QED
          BY <1>2, <2>1, <4>1, <5>1
      <4> QED
        BY <2>1, <3>1, <3>2, <4>2 DEF Free, d
    <3> QED
      BY <3>3 DEF Free, d, h
  <2> QED
    BY <2>2, <2>3
<1>14. Promise([hi EXCEPT ![<<a, p>>] = g])'
  <2>1. UNCHANGED <<m_guaranteeTime, m_safeTime, m_currentTs>> /\ pc'[a] # "start" /\ p \in Neighbours(a)
    BY <1>2
  <2>2. Program(a)
    BY DEF Program
  <2> QED
    BY <1>2, <1>4, <1>5, <1>11, <1>13, <2>1, <2>2, SentPromise
<1> QED
  BY <1>14

LEMMA SchedulePromise ==
  ASSUME OneLinkEach, TypeOK, \A x \in Rank : Numbers(x), NEW hi \in [Bundles -> Nat], Promise(hi),
         NEW a \in Rank, NEW d \in Delays, Schedule(a, d)
  PROVE  Promise(hi)'
<1> DEFINE e == [ts |-> m_currentTs[a] + d, uid |-> m_uid[a]]
<1>1. /\ pc[a] = "event" /\ IsProgramEvent(a)
      /\ m_events' = [m_events EXCEPT ![a] = @ \cup {e}]
      /\ UNCHANGED <<pc, cancelled, m_currentUid, m_currentTs, m_guaranteeTime, m_safeTime>>
      /\ UNCHANGED <<m_nullEventId, m_transmitting, channel>>
  BY DEF Schedule, clockVars, bundleVars
<1>2. e.ts = m_currentTs[a] + d
  OBVIOUS
<1> HIDE DEF e
<1>3. m_events'[a] = m_events[a] \cup {e} /\ m_currentTs[a] \in Nat /\ d \in Nat
  BY <1>1, TimeAssumption DEF TypeOK
<1> SUFFICES ASSUME NEW s \in Rank, NEW r \in Neighbours(s)
             PROVE  /\ Told(s, r, hi[<<s, r>>])' /\ Free(s, r, hi[<<s, r>>])'
                    /\ \A q \in Neighbours(s) : hi[<<s, r>>] <= hi[<<q, s>>] + BundleDelay(s, r)
                    /\ pc'[s] = "start" => hi[<<s, r>>] = 0
  BY DEF Promise
<1>4. /\ Told(s, r, hi[<<s, r>>]) /\ Free(s, r, hi[<<s, r>>])
      /\ \A q \in Neighbours(s) : hi[<<s, r>>] <= hi[<<q, s>>] + BundleDelay(s, r)
      /\ pc[s] = "start" => hi[<<s, r>>] = 0
      /\ hi[<<s, r>>] \in Nat /\ BundleDelay(s, r) \in Nat
  BY NeighboursSymmetric, DelayIsNat DEF Promise
<1>5. Told(s, r, hi[<<s, r>>])'
  BY <1>1, <1>4, ToldSame
<1>6. ASSUME s = a PROVE Free(s, r, hi[<<s, r>>])'
  <2> DEFINE h == hi[<<s, r>>]
  <2>1. \A uid : MaySend(s, uid)' <=> MaySend(s, uid)
    BY <1>1 DEF MaySend
  <2>2. ASSUME Idle(s, r, h) PROVE Idle(s, r, h)'
    <3>1. MaySend(s, m_currentUid[s])
      BY <1>1, <1>6 DEF IsProgramEvent, IsNullEvent, MaySend
    <3>2. h <= m_currentTs[s] + BundleDelay(s, r)
      BY <1>1, <1>6, <2>2, <3>1 DEF Idle
    <3>3. h <= e.ts + BundleDelay(s, r)
      BY <1>2, <1>3, <1>4, <1>6, <3>2
    <3>4. ASSUME NEW f \in m_events'[s], MaySend(s, f.uid) PROVE h <= f.ts + BundleDelay(s, r)
      BY <1>3, <1>6, <2>2, <3>3, <3>4 DEF Idle
    <3> QED
      BY <1>1, <2>1, <2>2, <3>2, <3>4 DEF Idle, NotBefore
  <2> QED
    BY <1>1, <1>3, <1>4, <1>6, <2>2 DEF Free
<1>7. Free(s, r, hi[<<s, r>>])'
  <2>1. CASE s # a
    BY <1>1, <1>4, <2>1, FreeOthers DEF Program
  <2> QED
    BY <1>6, <2>1
<1> QED
  BY <1>1, <1>4, <1>5, <1>7

LEMMA RunPromise ==
  ASSUME OneLinkEach, TypeOK, NEW hi \in [Bundles -> Nat], Promise(hi), NEW a \in Rank, Run(a)
  PROVE  \E up \in [Bundles -> Nat] : Promise(up)'
<1> DEFINE up == [b \in Bundles |-> IF b[1] = a THEN BundleDelay(b[1], b[2]) ELSE hi[b]]
           m(s) == NullMessageWith(BundleDelay(a, s))
<1>1. /\ \A s \in Rank : \A r \in Neighbours(s) :
           /\ up[<<s, r>>] = IF s = a THEN BundleDelay(s, r) ELSE hi[<<s, r>>]
           /\ up[<<s, r>>] \in Nat /\ hi[<<s, r>>] \in Nat /\ BundleDelay(s, r) \in Nat
      /\ up \in [Bundles -> Nat]
  <2>1. \A s \in Rank : \A r \in Neighbours(s) : <<s, r>> \in Bundles /\ BundleDelay(s, r) \in Nat
    BY NeighboursSymmetric, DelayIsNat
  <2>2. ASSUME NEW b \in Bundles
        PROVE  (IF b[1] = a THEN BundleDelay(b[1], b[2]) ELSE hi[b]) \in Nat
    <3>1. b[1] \in Rank /\ b[2] \in Neighbours(b[1]) /\ hi[b] \in Nat
      BY BundlesAreNeighbours
    <3> QED
      BY <2>1, <3>1
  <2> QED
    BY <2>1, <2>2
<1>2. /\ pc[a] = "start" /\ pc' = [pc EXCEPT ![a] = "loop"]
      /\ UNCHANGED <<cancelled, m_currentUid, m_currentTs, m_guaranteeTime, m_safeTime, m_transmitting>>
  BY DEF Run, Goto, clockVars, bundleVars
<1>3. ASSUME NEW s \in Rank, NEW r \in Neighbours(s)
      PROVE  channel'[<<s, r>>] =
               IF s = a THEN Append(channel[<<s, r>>], m(r)) ELSE channel[<<s, r>>]
  <2>1. <<s, r>> \in Bundles
    BY NeighboursSymmetric
  <2> QED
    BY <2>1 DEF Run
<1>4. ASSUME NEW r \in Neighbours(a)
      PROVE  m(r) \in Message /\ m(r).rxTime = 0 /\ m(r).guarantee = BundleDelay(a, r)
  BY DelayIsNat DEF NullMessageWith, Message
<1> HIDE DEF up, m
<1> SUFFICES ASSUME NEW s \in Rank, NEW r \in Neighbours(s)
             PROVE  /\ Told(s, r, up[<<s, r>>])' /\ Free(s, r, up[<<s, r>>])'
                    /\ \A q \in Neighbours(s) : up[<<s, r>>] <= up[<<q, s>>] + BundleDelay(s, r)
                    /\ pc'[s] = "start" => up[<<s, r>>] = 0
  BY <1>1 DEF Promise
<1>5. /\ Told(s, r, hi[<<s, r>>]) /\ Free(s, r, hi[<<s, r>>])
      /\ \A q \in Neighbours(s) : hi[<<s, r>>] <= hi[<<q, s>>] + BundleDelay(s, r)
      /\ pc[s] = "start" => hi[<<s, r>>] = 0
      /\ hi[<<s, r>>] \in Nat /\ BundleDelay(s, r) \in Nat
      /\ r \in Rank /\ <<s, r>> \in Bundles /\ s \in Neighbours(r)
      /\ channel[<<s, r>>] \in Seq(Message)
      /\ \A q \in Neighbours(s) :
           /\ q \in Rank /\ s \in Neighbours(q) /\ <<q, s>> \in Bundles
           /\ channel[<<q, s>>] \in Seq(Message)
  BY NeighboursSymmetric, DelayIsNat DEF Promise, TypeOK
<1>6. \A q \in Neighbours(a) : hi[<<a, q>>] = 0
  BY <1>2 DEF Promise
<1>7. Told(s, r, up[<<s, r>>])'
  <2>1. CASE s = a
    <3>1. up[<<s, r>>] = BundleDelay(a, r) /\ hi[<<s, r>>] <= BundleDelay(a, r)
      BY <1>1, <1>5, <1>6, <2>1
    <3>2. channel'[<<s, r>>] = Append(channel[<<s, r>>], m(r))
      BY <1>3, <2>1
    <3>3. m(r) \in Message /\ m(r).guarantee <= BundleDelay(a, r) /\ ~ (m(r).rxTime > 0)
      BY <1>4, <1>5, <2>1
    <3> QED
      BY <1>2, <1>5, <2>1, <3>1, <3>2, <3>3, ToldSend
  <2>2. CASE s # a
    BY <1>1, <1>2, <1>3, <1>5, <2>2, ToldSame
  <2> QED
    BY <2>1, <2>2
<1>8. ASSUME NEW h, NEW d, NEW q \in Neighbours(s), NotBefore(channel[<<q, s>>], h, d)
      PROVE  NotBefore(channel'[<<q, s>>], h, d)
  <2>1. CASE q = a
    <3>1. channel'[<<q, s>>] = Append(channel[<<q, s>>], m(s))
      BY <1>3, <1>5, <2>1
    <3>2. m(s) \in Message /\ m(s).rxTime = 0
      <4>1. s \in Neighbours(a)
        BY <1>5, <2>1
      <4> QED
        BY <1>4, <4>1
    <3> QED
      BY <1>5, <1>8, <3>1, <3>2, AppendNotBefore
  <2>2. CASE q # a
    BY <1>3, <1>5, <1>8, <2>2
  <2> QED
    BY <2>1, <2>2
<1>9. Free(s, r, up[<<s, r>>])'
  <2>1. CASE s = a
    <3> DEFINE d == BundleDelay(s, r)
    <3>1. up[<<s, r>>] = d /\ d \in Nat
      BY <1>1, <1>5, <2>1
    <3>2. TypeOK'
      BY NextType DEF Next, Loop
    <3>3. (\A e \in m_events'[s] : e.ts \in Nat) /\ m_events[s] \subseteq m_events'[s]
      <4>1. m_events' = [m_events EXCEPT ![a] = @ \cup
              {[ts |-> NullDelay[<<a, q>>],
                uid |-> m_uid[a] + Cardinality({t \in Neighbours(a) : t < q})] : q \in Neighbours(a)}]
        BY DEF Run
      <4>2. m_events[a] \subseteq m_events'[a]
        BY <4>1 DEF TypeOK
      <4>3. \A e \in m_events'[s] : e.ts \in Nat
        BY <3>2 DEF TypeOK, Event
      <4> QED
        BY <2>1, <4>2, <4>3
    <3>4. ASSUME NEW q \in Neighbours(s) PROVE NotBefore(channel'[<<q, s>>], d, d)
      <4>1. NotBefore(channel[<<q, s>>], d, d)
        <5> SUFFICES ASSUME NEW k \in 1..Len(channel[<<q, s>>])
                     PROVE  d <= channel[<<q, s>>][k].rxTime + d
          BY DEF NotBefore
        <5>1. channel[<<q, s>>][k] \in Message
          BY <1>5, ElementOfSeq
        <5>2. channel[<<q, s>>][k].rxTime \in Nat
          BY <5>1 DEF Message
        <5> QED
          BY <3>1, <5>2
      <4> QED
        BY <1>8, <4>1
    <3>5. \A e \in m_events'[s] : d <= e.ts + d
      BY <3>1, <3>3
    <3>6. pc'[s] # "event"
      BY <1>2, <2>1 DEF TypeOK
    <3>7. Idle(s, r, d)'
      BY <3>4, <3>5, <3>6 DEF Idle, NotBefore
    <3>8. ASSUME NEW l \in Bundle(s, r), m_transmitting[s][l] # READY
          PROVE  \E e \in m_events'[s] : e.uid = m_transmitting[s][l] /\ d <= e.ts + d
      BY <1>5, <3>3, <3>5, <3>8 DEF Free
    <3> QED
      BY <1>2, <3>1, <3>7, <3>8 DEF Free
  <2>2. CASE s # a
    BY <1>1, <1>5, <1>8, <2>2, FreeOthers DEF Loop
  <2> QED
    BY <2>1, <2>2
<1>10. ASSUME NEW q \in Neighbours(s) PROVE up[<<s, r>>] <= up[<<q, s>>] + BundleDelay(s, r)
  <2>1. up[<<q, s>>] \in Nat /\ hi[<<q, s>>] <= up[<<q, s>>] /\ hi[<<q, s>>] \in Nat
    BY <1>1, <1>5, <1>6
  <2>2. CASE s = a
    <3>1. up[<<s, r>>] = BundleDelay(s, r)
      BY <1>1, <2>2
    <3> QED
      BY <1>5, <2>1, <3>1
  <2>3. CASE s # a
    <3>1. up[<<s, r>>] = hi[<<s, r>>] /\ hi[<<s, r>>] <= hi[<<q, s>>] + BundleDelay(s, r)
      BY <1>1, <1>5, <2>3
    <3> QED
      BY <1>5, <2>1, <3>1
  <2> QED
    BY <2>2, <2>3
<1>11. pc'[s] = "start" => up[<<s, r>>] = 0
  BY <1>1, <1>2, <1>5 DEF TypeOK
<1> QED
  BY <1>7, <1>9, <1>10, <1>11

\* Under a promise, the head of a queue is not in the past of the rank that takes it.
LEMMA HeadAhead ==
  ASSUME TypeOK, NEW hi \in [Bundles -> Nat], Promise(hi), NEW a \in Rank, NEW p \in Neighbours(a),
         channel[<<p, a>>] # <<>>, Head(channel[<<p, a>>]).rxTime > 0
  PROVE  m_currentTs[a] <= Head(channel[<<p, a>>]).rxTime
<1>1. p \in Rank /\ a \in Neighbours(p) /\ <<p, a>> \in Bundles
  BY NeighboursSymmetric
<1>2. channel[<<p, a>>] \in Seq(Message) /\ m_currentTs[a] \in Nat
  BY <1>1 DEF TypeOK
<1>3. InOrder(channel[<<p, a>>], m_currentTs[a])
  BY <1>1 DEF Promise, Told
<1> QED
  BY <1>2, <1>3, TailInOrder

LEMMA AheadStep ==
  ASSUME OneLinkEach, TypeOK, Ahead, NEW hi \in [Bundles -> Nat], Promise(hi), [Next]_vars
  PROVE  Ahead'
<1>1. CASE UNCHANGED vars
  BY <1>1 DEF Ahead, vars, eventVars, clockVars
<1>2. ASSUME NEW a \in Rank, Loop(a) \/ Program(a) PROVE Ahead'
  <2>0. /\ TypeOK' /\ m_currentTs[a] \in Nat /\ \A e \in m_events[a] : m_currentTs[a] <= e.ts
        /\ pc[a] = "start" => m_currentTs[a] = 0
    BY <1>2, NextType DEF Next, Ahead, TypeOK
  <2> SUFFICES /\ \A e \in m_events'[a] : m_currentTs'[a] <= e.ts
               /\ pc'[a] # "start"
    <3>1. \A x \in Rank \ {a} : UNCHANGED <<pc[x], m_events[x], m_currentTs[x]>>
      BY <1>2, OthersUnchanged
    <3> QED
      BY <3>1 DEF Ahead
  <2>1. pc'[a] # "start"
    BY <1>2 DEF Loop, Program, Run, ProcessOneEvent, CalculateSafeTime, ReceiveNonBlocking,
       ReceiveBlocking, EventReturns, RunReturns, NullMessageEventHandler, Schedule, SendPacket,
       Goto, TypeOK
  <2>2. CASE RunReturns(a) \/ EventReturns(a) \/ CalculateSafeTime(a)
    BY <2>0, <2>1, <2>2 DEF RunReturns, EventReturns, CalculateSafeTime, eventVars, clockVars
  <2>3. CASE ProcessOneEvent(a)
    <3>1. PICK next \in m_events[a] :
            /\ IsNext(next, m_events[a])
            /\ m_events' = [m_events EXCEPT ![a] = @ \ {next}]
            /\ m_currentTs' = [m_currentTs EXCEPT ![a] = next.ts]
      BY <2>3 DEF ProcessOneEvent
    <3>2. \A e \in m_events[a] : e.ts \in Nat
      BY DEF TypeOK, Event
    <3>3. \A e \in m_events[a] : next.ts <= e.ts
      BY <3>1, <3>2 DEF IsNext, Before
    <3>4. m_events'[a] = m_events[a] \ {next} /\ m_currentTs'[a] = next.ts
      BY <3>1 DEF TypeOK
    <3> QED
      BY <2>1, <3>3, <3>4
  <2>4. ASSUME NEW p \in Rank, Take(a, p) PROVE \A e \in m_events'[a] : m_currentTs'[a] <= e.ts
    <3> DEFINE m == Head(channel[<<p, a>>])
    <3>1. TakeEffect(a, p, m, channel[<<p, a>>])
      BY <2>4, TakeHasEffect
    <3>2. /\ p \in Neighbours(a) /\ channel[<<p, a>>] # <<>> /\ UNCHANGED m_currentTs
          /\ \/ UNCHANGED m_events[a]
             \/ m.rxTime > 0 /\ \E e : e.ts = m.rxTime /\ m_events'[a] = m_events[a] \cup {e}
      BY <3>1 DEF TakeEffect
    <3>3. m.rxTime > 0 => m_currentTs[a] <= m.rxTime
      BY <3>2, HeadAhead
    <3> HIDE DEF m
    <3> QED
      BY <2>0, <3>2, <3>3
  <2>5. CASE ReceiveNonBlocking(a) \/ ReceiveBlocking(a)
    BY <2>1, <2>4, <2>5 DEF ReceiveNonBlocking, ReceiveBlocking
  <2>6. CASE Run(a)
    <3>1. m_currentTs'[a] = 0
      BY <2>0, <2>6 DEF Run, Goto, clockVars
    <3>2. \A e \in m_events'[a] : e.ts \in Nat
      BY <2>0 DEF TypeOK, Event
    <3> QED
      BY <2>1, <3>1, <3>2
  <2>7. ASSUME NEW p \in Rank, NullMessageEventHandler(a, p)
        PROVE  \A e \in m_events'[a] : m_currentTs'[a] <= e.ts
    <3>1. PICK null \in Event, m \in Message : NullEffect(a, p, null, m)
      BY <2>7, NullHasEffect
    <3>2. /\ p \in Neighbours(a) /\ null.ts = m_currentTs[a] + NullDelay[<<a, p>>]
          /\ m_events'[a] = m_events[a] \cup {null} /\ UNCHANGED m_currentTs
      BY <3>1 DEF NullEffect
    <3>3. m_currentTs[a] <= null.ts
      BY <2>0, <3>2, NullDelayIsNat
    <3> QED
      BY <2>0, <3>2, <3>3
  <2>8. ASSUME NEW d \in Delays, Schedule(a, d) PROVE \A e \in m_events'[a] : m_currentTs'[a] <= e.ts
    <3> DEFINE new == [ts |-> m_currentTs[a] + d, uid |-> m_uid[a]]
    <3>1. m_events' = [m_events EXCEPT ![a] = @ \cup {new}] /\ UNCHANGED m_currentTs /\ d \in Nat
      BY <2>8, TimeAssumption DEF Schedule, clockVars
    <3>2. m_currentTs[a] <= new.ts
      BY <2>0, <3>1
    <3> HIDE DEF new
    <3>3. m_events'[a] = m_events[a] \cup {new}
      BY <3>1 DEF TypeOK
    <3> QED
      BY <2>0, <3>1, <3>2, <3>3
  <2>9. ASSUME NEW p \in Rank, NEW l \in Links, NEW txTime \in TxTimes, SendPacket(a, p, l, txTime)
        PROVE  \A e \in m_events'[a] : m_currentTs'[a] <= e.ts
    <3>1. PICK complete, null \in Event, m \in Message : SendEffect(a, p, l, txTime, complete, null, m)
      BY <2>9, SendPacketEffect
    <3>2. /\ p \in Neighbours(a)
          /\ complete.ts = m_currentTs[a] + txTime /\ null.ts = m_currentTs[a] + NullDelay[<<a, p>>]
          /\ m_events'[a] = m_events[a] \cup {complete, null} /\ UNCHANGED m_currentTs
      BY <3>1 DEF SendEffect
    <3>3. m_currentTs[a] <= complete.ts /\ m_currentTs[a] <= null.ts
      BY <2>0, <3>2, NullDelayIsNat, TimeAssumption
    <3> QED
      BY <2>0, <3>2, <3>3
  <2> QED
    BY <1>2, <2>1, <2>2, <2>3, <2>5, <2>6, <2>7, <2>8, <2>9 DEF Loop, Program
<1> QED
  BY <1>1, <1>2 DEF Next

LEMMA PromiseStep ==
  ASSUME OneLinkEach, TypeOK, \A x \in Rank : Numbers(x), NEW hi \in [Bundles -> Nat], Promise(hi),
         [Next]_vars
  PROVE  \E up \in [Bundles -> Nat] : Promise(up)'
<1>1. CASE UNCHANGED vars
  BY <1>1, SilentPromise DEF vars, eventVars, clockVars, bundleVars
<1>2. ASSUME NEW a \in Rank, Loop(a) \/ Program(a) PROVE \E up \in [Bundles -> Nat] : Promise(up)'
  <2>1. CASE RunReturns(a) \/ EventReturns(a)
    <3>1. /\ UNCHANGED <<m_events, cancelled, m_currentUid, m_currentTs, m_transmitting>>
          /\ UNCHANGED <<m_nullEventId, channel, m_guaranteeTime, m_safeTime>>
          /\ pc' = [pc EXCEPT ![a] = "done"] \/ pc' = [pc EXCEPT ![a] = "receive"]
      BY <2>1 DEF RunReturns, EventReturns, Goto, eventVars, clockVars, bundleVars
    <3>2. \A s \in Rank : (pc'[s] = "event" => pc[s] = "event") /\ (pc'[s] = "start" => pc[s] = "start")
      BY <3>1 DEF TypeOK
    <3> QED
      BY <3>1, <3>2, SilentPromise
  <2>2. CASE ReceiveNonBlocking(a) \/ ReceiveBlocking(a)
    <3>1. PICK p \in Rank : Take(a, p)
      BY <2>2 DEF ReceiveNonBlocking, ReceiveBlocking
    <3>2. UNCHANGED pc \/ pc' = [pc EXCEPT ![a] = "safe"]
      BY <2>2 DEF ReceiveNonBlocking, ReceiveBlocking, Goto
    <3>3. /\ \A x \in Rank : pc'[x] # "event" \/ pc'[x] = pc[x]
          /\ \A x \in Rank : pc'[x] = "start" => pc[x] = "start"
      BY <3>2 DEF TypeOK
    <3>4. Loop(a)
      BY <2>2 DEF Loop
    <3> QED
      BY <3>1, <3>3, <3>4, TakePromise
  <2> QED
    BY <1>2, <2>1, <2>2, SafeTimePromise, ProcessPromise, RunPromise, NullPromise,
       SchedulePromise, SendPromise DEF Loop, Program
<1> QED
  BY <1>1, <1>2 DEF Next

LEMMA NextIInv == OneLinkEach /\ IInv /\ [Next]_vars => IInv'
<1> SUFFICES ASSUME OneLinkEach, IInv, [Next]_vars PROVE IInv'
  OBVIOUS
<1>1. PICK hi \in [Bundles -> Nat] : Promise(hi)
  BY DEF IInv
<1>2. TypeOK /\ Ahead /\ \A x \in Rank : Numbers(x)
  BY DEF IInv
<1>3. TypeOK'
  BY <1>2, NextType
<1>4. \A x \in Rank : Numbers(x)'
  BY <1>2, NumbersStep
<1>5. Ahead'
  BY <1>1, <1>2, AheadStep
<1>6. \E up \in [Bundles -> Nat] : Promise(up)'
  BY <1>1, <1>2, PromiseStep
<1> QED
  BY <1>3, <1>4, <1>5, <1>6 DEF IInv

(***************************************************************************)
(* The theorems.  They hold as long as each pair of ranks has one link:    *)
(* with two, NullMessage_TwoLinks.cfg shows a guarantee that is broken.    *)
(***************************************************************************)

LEMMA Invariance == ASSUME OneLinkEach PROVE Spec => []IInv
<1>1. Init => IInv
  BY InitIInv
<1>2. IInv /\ [Next]_vars => IInv'
  BY NextIInv
<1> QED
  BY <1>1, <1>2, PTL DEF Spec

\* The type invariant of the null message algorithm.
THEOREM TypeCorrect == ASSUME OneLinkEach PROVE Spec => []TypeOK
<1>1. IInv => TypeOK
  BY DEF IInv
<1> QED
  BY <1>1, Invariance, PTL

\* What a promise means for the packets under way.
LEMMA PacketsInOrder ==
  ASSUME IInv, NEW b \in Bundles, NEW m \in Packets(b[1], b[2])
  PROVE  /\ m.rxTime \in Nat /\ m.rxTime > 0
         /\ m_currentTs[b[2]] <= m.rxTime /\ m_safeTime[b[2]] <= m.rxTime
         /\ m_guaranteeTime[<<b[2], b[1]>>] <= m.rxTime
<1> DEFINE s == b[1]
           r == b[2]
           q == channel[<<s, r>>]
<1>1. s \in Rank /\ r \in Neighbours(s) /\ <<s, r>> \in Bundles
  BY BundlesAreNeighbours, NeighboursSymmetric
<1>2. q \in Seq(Message)
  BY <1>1 DEF IInv, TypeOK
<1>3. PICK k \in 1..Len(q) : m = q[k] /\ m.rxTime > 0
  <2>1. DOMAIN q = 1..Len(q)
    BY <1>2, LenProperties
  <2> QED
    BY <2>1 DEF Packets
<1>4. PICK hi \in [Bundles -> Nat] : Promise(hi)
  BY DEF IInv
<1>5. Told(s, r, hi[<<s, r>>])
  BY <1>1, <1>4 DEF Promise
<1>6. InOrder(q, m_guaranteeTime[<<r, s>>]) /\ InOrder(q, m_safeTime[r]) /\ InOrder(q, m_currentTs[r])
  BY <1>5 DEF Told
<1>7. m \in Message
  BY <1>2, <1>3, ElementOfSeq
<1> HIDE DEF q
<1> QED
  BY <1>3, <1>6, <1>7 DEF InOrder, Message

\* Guarantees are kept: no packet under way to a rank is received before the
\* guarantee that rank holds from its sender.
THEOREM Guaranteed == ASSUME OneLinkEach PROVE Spec => []GuaranteeKept
<1>1. IInv => GuaranteeKept
  <2> SUFFICES ASSUME IInv, NEW b \in Bundles, NEW m \in Packets(b[2], b[1])
               PROVE  m_guaranteeTime[b] <= m.rxTime
    BY DEF GuaranteeKept
  <2>1. b = <<b[1], b[2]>> /\ <<b[2], b[1]>> \in Bundles
    BY BundlesAreNeighbours, NeighboursSymmetric
  <2>2. <<b[2], b[1]>>[1] = b[2] /\ <<b[2], b[1]>>[2] = b[1]
    OBVIOUS
  <2> QED
    BY <2>1, <2>2, PacketsInOrder
<1> QED
  BY <1>1, Invariance, PTL

\* No rank gets an event from its past.
THEOREM Causal == ASSUME OneLinkEach PROVE Spec => []Causality
<1>1. IInv => Causality
  BY PacketsInOrder DEF Causality, IInv, Ahead
<1> QED
  BY <1>1, Invariance, PTL

\* The next null message from r to s is due.
Due(r, s) ==
  \/ pc[r] = "event" /\ m_currentUid[r] = m_nullEventId[<<r, s>>]
  \/ \E e \in m_events[r] :
       /\ e.uid = m_nullEventId[<<r, s>>] /\ e.uid \notin cancelled[r]
       /\ e.ts <= m_currentTs[r] + NullDelay[<<r, s>>]

Beating(r) == pc[r] \notin {"start", "done"} => \A s \in Neighbours(r) : Due(r, s)

\* The step of another rank, or one that leaves the events of r alone.
LEMMA BeatingSame ==
  ASSUME NEW r \in Rank, Beating(r), m_events[r] \subseteq m_events'[r],
         UNCHANGED <<cancelled[r], m_currentUid[r], m_currentTs[r]>>,
         \A s \in Neighbours(r) : UNCHANGED m_nullEventId[<<r, s>>],
         \/ pc'[r] = pc[r]
         \/ pc'[r] = "done"
         \/ /\ pc[r] # "start" /\ pc[r] # "done"
            /\ pc[r] = "event" => \A s \in Neighbours(r) : m_currentUid[r] # m_nullEventId[<<r, s>>]
  PROVE  Beating(r)'
BY DEF Beating, Due

LEMMA RunBeats ==
  ASSUME TypeOK, NEW a \in Rank, Numbers(a), Ahead, Run(a)
  PROVE  Beating(a)'
<1> SUFFICES ASSUME NEW s \in Neighbours(a) PROVE Due(a, s)'
  BY DEF Beating
<1> DEFINE n(t) == Cardinality({q \in Neighbours(a) : q < t})
           null(t) == [ts |-> NullDelay[<<a, t>>], uid |-> m_uid[a] + n(t)]
<1>1. /\ m_events' = [m_events EXCEPT ![a] = @ \cup {null(t) : t \in Neighbours(a)}]
      /\ UNCHANGED <<cancelled, m_currentTs>> /\ m_currentTs[a] = 0
      /\ \A b \in Bundles : b[1] = a => m_nullEventId'[b] = m_uid[a] + n(b[2])
  BY DEF Run, Goto, clockVars, Ahead
<1>2. m_nullEventId'[<<a, s>>] = m_uid[a] + n(s)
  <2>1. <<a, s>> \in Bundles /\ <<a, s>>[1] = a /\ <<a, s>>[2] = s
    BY NeighboursSymmetric
  <2> HIDE DEF n
  <2> QED
    BY <1>1, <2>1
<1>3. null(s).ts = NullDelay[<<a, s>>] /\ null(s).uid = m_uid[a] + n(s)
  OBVIOUS
<1>4. n(s) \in Nat /\ NullDelay[<<a, s>>] \in Nat
  BY NumberOfNeighbour, NullDelayIsNat
<1>5. m_uid[a] + n(s) \notin cancelled[a]
  <2>1. \A u \in cancelled[a] : u < m_uid[a] /\ u \in Nat
    BY DEF TypeOK, Numbers
  <2>2. m_uid[a] \in Nat
    BY DEF TypeOK
  <2> QED
    BY <1>4, <2>1, <2>2
<1> HIDE DEF n, null
<1>6. null(s) \in m_events'[a]
  BY <1>1 DEF TypeOK
<1>7. null(s).ts <= m_currentTs'[a] + NullDelay[<<a, s>>]
  BY <1>1, <1>3, <1>4
<1> QED
  BY <1>1, <1>2, <1>3, <1>5, <1>6, <1>7 DEF Due

LEMMA ProcessBeats ==
  ASSUME TypeOK, NEW a \in Rank, Numbers(a), Ahead, Beating(a), ProcessOneEvent(a)
  PROVE  Beating(a)'
<1> SUFFICES ASSUME NEW s \in Neighbours(a) PROVE Due(a, s)'
  BY DEF Beating
<1>1. PICK next \in m_events[a] :
        /\ m_events' = [m_events EXCEPT ![a] = @ \ {next}]
        /\ m_currentTs' = [m_currentTs EXCEPT ![a] = next.ts]
        /\ m_currentUid' = [m_currentUid EXCEPT ![a] = next.uid]
        /\ UNCHANGED <<cancelled, m_nullEventId>>
        /\ pc[a] = "loop" /\ pc' = [pc EXCEPT ![a] = "event"]
  BY DEF ProcessOneEvent, Goto
<1>2. /\ m_currentTs'[a] = next.ts /\ m_currentUid'[a] = next.uid /\ pc'[a] = "event"
      /\ m_events'[a] = m_events[a] \ {next}
  BY <1>1 DEF TypeOK
<1>3. m_currentTs[a] <= next.ts /\ m_currentTs[a] \in Nat /\ NullDelay[<<a, s>>] \in Nat
      /\ \A e \in m_events[a] : e.ts \in Nat
  BY NullDelayIsNat DEF Ahead, TypeOK, Event
<1>4. PICK e \in m_events[a] : /\ e.uid = m_nullEventId[<<a, s>>] /\ e.uid \notin cancelled[a]
                               /\ e.ts <= m_currentTs[a] + NullDelay[<<a, s>>]
  BY <1>1 DEF Beating, Due
<1>5. CASE e = next
  BY <1>1, <1>2, <1>4, <1>5 DEF Due
<1>6. CASE e # next
  <2>1. e.ts <= next.ts + NullDelay[<<a, s>>]
    BY <1>3, <1>4
  <2> QED
    BY <1>1, <1>2, <1>4, <1>6, <2>1 DEF Due
<1> QED
  BY <1>5, <1>6

LEMMA NullBeats ==
  ASSUME OneLinkEach, TypeOK, NEW a \in Rank, Numbers(a), Beating(a),
         NEW p \in Rank, NullMessageEventHandler(a, p)
  PROVE  Beating(a)'
<1>1. PICK null \in Event, m \in Message : NullEffect(a, p, null, m)
  BY NullHasEffect
<1>2. /\ p \in Neighbours(a) /\ m_currentUid[a] = m_nullEventId[<<a, p>>]
      /\ pc[a] = "event"
      /\ null.ts = m_currentTs[a] + NullDelay[<<a, p>>] /\ null.uid = m_uid[a]
      /\ m_events'[a] = m_events[a] \cup {null}
      /\ \A t \in Neighbours(a) : m_nullEventId'[<<a, t>>] =
           IF t = p THEN m_uid[a] ELSE m_nullEventId[<<a, t>>]
      /\ UNCHANGED <<cancelled, m_currentTs>>
  BY <1>1 DEF NullEffect, IsNullEvent
<1> SUFFICES ASSUME NEW s \in Neighbours(a) PROVE Due(a, s)'
  BY DEF Beating
<1>3. CASE s = p
  <2>1. m_uid[a] \notin cancelled[a]
    <3>1. m_uid[a] \in Nat /\ \A u \in cancelled[a] : u \in Nat /\ u < m_uid[a]
      BY DEF TypeOK, Numbers
    <3> QED
      BY <3>1
  <2>2. null.ts <= m_currentTs[a] + NullDelay[<<a, s>>]
    BY <1>2, <1>3, NullDelayIsNat DEF TypeOK
  <2> QED
    BY <1>2, <1>3, <2>1, <2>2 DEF Due
<1>4. CASE s # p
  <2>1. m_currentUid[a] # m_nullEventId[<<a, s>>]
    BY <1>2, <1>4 DEF Numbers
  <2>2. PICK e \in m_events[a] : /\ e.uid = m_nullEventId[<<a, s>>] /\ e.uid \notin cancelled[a]
                                 /\ e.ts <= m_currentTs[a] + NullDelay[<<a, s>>]
    BY <1>2, <2>1 DEF Beating, Due
  <2> QED
    BY <1>2, <1>4, <2>2 DEF Due
<1> QED
  BY <1>3, <1>4

LEMMA SendBeats ==
  ASSUME OneLinkEach, TypeOK, NEW a \in Rank, Numbers(a), Beating(a), NEW p \in Rank, NEW l \in Links,
         NEW txTime \in TxTimes, SendPacket(a, p, l, txTime)
  PROVE  Beating(a)'
<1>1. PICK complete, null \in Event, m \in Message : SendEffect(a, p, l, txTime, complete, null, m)
  BY SendPacketEffect
<1>2. /\ p \in Neighbours(a) /\ pc[a] = "event" /\ IsProgramEvent(a)
      /\ null.ts = m_currentTs[a] + NullDelay[<<a, p>>] /\ null.uid = m_uid[a] + 1
      /\ m_events'[a] = m_events[a] \cup {complete, null}
      /\ cancelled'[a] = cancelled[a] \cup {m_nullEventId[<<a, p>>]}
      /\ \A t \in Neighbours(a) : m_nullEventId'[<<a, t>>] =
           IF t = p THEN m_uid[a] + 1 ELSE m_nullEventId[<<a, t>>]
      /\ UNCHANGED m_currentTs
  BY <1>1 DEF SendEffect
<1> SUFFICES ASSUME NEW s \in Neighbours(a) PROVE Due(a, s)'
  BY DEF Beating
<1>3. CASE s = p
  <2>1. m_uid[a] + 1 \notin cancelled'[a]
    <3>1. m_uid[a] \in Nat /\ (\A u \in cancelled[a] : u \in Nat /\ u < m_uid[a])
      BY DEF TypeOK, Numbers
    <3>2. m_nullEventId[<<a, p>>] \in Nat /\ m_nullEventId[<<a, p>>] < m_uid[a]
      BY <1>2, NeighboursSymmetric DEF TypeOK, Numbers
    <3> QED
      BY <1>2, <3>1, <3>2
  <2>2. null.ts <= m_currentTs[a] + NullDelay[<<a, s>>]
    BY <1>2, <1>3, NullDelayIsNat DEF TypeOK
  <2> QED
    BY <1>2, <1>3, <2>1, <2>2 DEF Due
<1>4. CASE s # p
  <2>1. m_currentUid[a] # m_nullEventId[<<a, s>>] /\ m_nullEventId[<<a, s>>] # m_nullEventId[<<a, p>>]
    BY <1>2, <1>4 DEF Numbers, IsProgramEvent, IsNullEvent
  <2>2. PICK e \in m_events[a] : /\ e.uid = m_nullEventId[<<a, s>>] /\ e.uid \notin cancelled[a]
                                 /\ e.ts <= m_currentTs[a] + NullDelay[<<a, s>>]
    BY <1>2, <2>1 DEF Beating, Due
  <2> QED
    BY <1>2, <1>4, <2>1, <2>2 DEF Due
<1> QED
  BY <1>3, <1>4

LEMMA BeatingStep ==
  ASSUME OneLinkEach, IInv, \A x \in Rank : Beating(x), [Next]_vars, NEW x \in Rank
  PROVE  Beating(x)'
<1>0. TypeOK /\ Numbers(x) /\ Ahead
  BY DEF IInv
<1>1. CASE UNCHANGED vars
  BY <1>1, BeatingSame DEF vars, eventVars, clockVars
<1>2. ASSUME NEW a \in Rank, Loop(a) \/ Program(a), x # a PROVE Beating(x)'
  <2>1. /\ UNCHANGED <<pc[x], m_events[x], cancelled[x], m_currentUid[x], m_currentTs[x]>>
        /\ \A s \in Neighbours(x) : UNCHANGED m_nullEventId[<<x, s>>]
    BY <1>0, <1>2, OthersUnchanged
  <2> QED
    BY <2>1, BeatingSame
<1>3. CASE RunReturns(x) \/ EventReturns(x) \/ CalculateSafeTime(x)
  <2>1. /\ UNCHANGED <<m_events, cancelled, m_currentUid, m_currentTs, m_nullEventId>>
        /\ pc'[x] = "done" \/ (pc[x] # "start" /\ pc[x] # "done")
        /\ pc[x] = "event" => \A s \in Neighbours(x) : m_currentUid[x] # m_nullEventId[<<x, s>>]
    BY <1>0, <1>3 DEF RunReturns, EventReturns, CalculateSafeTime, Goto, eventVars, clockVars, TypeOK,
       IsNullEvent
  <2> QED
    BY <2>1, BeatingSame
<1>4. CASE ReceiveNonBlocking(x) \/ ReceiveBlocking(x)
  <2>1. PICK p \in Rank : Take(x, p)
    BY <1>4 DEF ReceiveNonBlocking, ReceiveBlocking
  <2>2. TakeEffect(x, p, Head(channel[<<p, x>>]), channel[<<p, x>>])
    BY <1>0, <2>1, TakeHasEffect
  <2>3. m_events[x] \subseteq m_events'[x]
        /\ UNCHANGED <<cancelled, m_currentUid, m_currentTs, m_nullEventId>>
    BY <2>2 DEF TakeEffect
  <2>4. pc[x] \in {"receive", "loop"}
    BY <1>4 DEF ReceiveNonBlocking, ReceiveBlocking, Goto
  <2> QED
    BY <2>3, <2>4, BeatingSame
<1>5. CASE \E d \in Delays : Schedule(x, d)
  <2>1. /\ m_events[x] \subseteq m_events'[x]
        /\ UNCHANGED <<pc, cancelled, m_currentUid, m_currentTs, m_nullEventId>>
    BY <1>0, <1>5 DEF Schedule, clockVars, TypeOK
  <2> QED
    BY <2>1, BeatingSame
<1>6. CASE Loop(x)
  BY <1>0, <1>3, <1>4, <1>6, RunBeats, ProcessBeats, NullBeats DEF Loop
<1>7. CASE Program(x)
  BY <1>0, <1>5, <1>7, SendBeats DEF Program
<1> QED
  BY <1>1, <1>2, <1>6, <1>7 DEF Next

\* The null messages to a neighbour never dry up.
THEOREM HeartbeatKept == ASSUME OneLinkEach PROVE Spec => []Heartbeat
<1> DEFINE Inv == \A x \in Rank : Beating(x)
<1>1. Init => Inv
  BY DEF Init, Beating
<1>2. IInv /\ Inv /\ [Next]_vars => Inv'
  BY BeatingStep
<1>3. Inv => Heartbeat
  <2> SUFFICES ASSUME Inv, NEW b \in Bundles, pc[b[1]] \notin {"start", "done"}
               PROVE  \/ pc[b[1]] = "event" /\ m_currentUid[b[1]] = m_nullEventId[b]
                      \/ \E e \in m_events[b[1]] :
                           /\ e.uid = m_nullEventId[b] /\ e.uid \notin cancelled[b[1]]
                           /\ e.ts <= m_currentTs[b[1]] + NullDelay[b]
    BY DEF Heartbeat
  <2>1. b = <<b[1], b[2]>> /\ b[1] \in Rank /\ b[2] \in Neighbours(b[1])
    BY BundlesAreNeighbours
  <2>2. Due(b[1], b[2])
    BY <2>1 DEF Beating
  <2> QED
    BY <2>1, <2>2 DEF Due
<1> HIDE DEF Inv
<1> QED
  BY <1>1, <1>2, <1>3, Invariance, PTL DEF Spec

-----------------------------------------------------------------------------
(* The refinement. *)
Agenda == [r \in Rank |-> {e.ts : e \in m_events[r]}]
UnderWay == [r \in Rank |-> UNION {{m.rxTime : m \in Packets(s, r)} : s \in Neighbours(r)}]
Returned == {r \in Rank : pc[r] = "done"}

\* rxTime of the packets in a queue.
Times(q) == {q[k].rxTime : k \in {k \in 1..Len(q) : q[k].rxTime > 0}}

WayTimes == [r \in Rank |-> UNION {Times(channel[<<s, r>>]) : s \in Neighbours(r)}]

LEMMA UnderWayTimes == TypeOK => UnderWay = WayTimes
<1> SUFFICES ASSUME TypeOK, NEW r \in Rank, NEW s \in Neighbours(r)
             PROVE  {m.rxTime : m \in Packets(s, r)} = Times(channel[<<s, r>>])
  BY DEF UnderWay, WayTimes
<1>1. channel[<<s, r>>] \in Seq(Message)
  BY NeighboursSymmetric DEF TypeOK
<1>2. DOMAIN channel[<<s, r>>] = 1..Len(channel[<<s, r>>])
  BY <1>1, LenProperties
<1> QED
  BY <1>2 DEF Packets, Times

LEMMA AppendTimes ==
  ASSUME NEW q \in Seq(Message), NEW m \in Message
  PROVE  Times(Append(q, m)) = Times(q) \cup (IF m.rxTime > 0 THEN {m.rxTime} ELSE {})
BY AppendElements DEF Times

LEMMA TailTimes ==
  ASSUME NEW q \in Seq(Message), q # <<>>
  PROVE  Times(q) = Times(Tail(q)) \cup (IF Head(q).rxTime > 0 THEN {Head(q).rxTime} ELSE {})
BY TailElements DEF Times

LEMMA SameProcesses ==
  /\ UNCHANGED m_events => UNCHANGED Agenda
  /\ UNCHANGED channel => UNCHANGED UnderWay
  /\ UNCHANGED pc => UNCHANGED Returned
<1>1. UNCHANGED channel => UNCHANGED UnderWay
  BY DEF UnderWay, Packets
<1> QED
  BY <1>1 DEF Agenda, Returned

\* The messages from a to p change.
LEMMA UnderWayStep ==
  ASSUME TypeOK, TypeOK', NEW a \in Rank, NEW p \in Neighbours(a),
         \A b \in Bundles : b # <<a, p>> => UNCHANGED channel[b]
  PROVE  \E Others :
           /\ UnderWay = [UnderWay EXCEPT ![p] = Others \cup Times(channel[<<a, p>>])]
           /\ UnderWay' = [UnderWay EXCEPT ![p] = Others \cup Times(channel'[<<a, p>>])]
<1> DEFINE Others == UNION {Times(channel[<<s, p>>]) : s \in Neighbours(p) \ {a}}
<1>1. UnderWay = WayTimes /\ UnderWay' = WayTimes'
  <2>1. (UnderWay = WayTimes)'
    BY UnderWayTimes, TypeOK', PTL
  <2> QED
    BY <2>1, UnderWayTimes
<1>2. p \in Rank /\ a \in Neighbours(p)
  BY NeighboursSymmetric
<1>3. \A r \in Rank : \A s \in Neighbours(r) : <<s, r>> # <<a, p>> => UNCHANGED channel[<<s, r>>]
  BY NeighboursSymmetric
<1>4. \A r \in Rank : r # p => WayTimes'[r] = WayTimes[r]
  BY <1>3 DEF WayTimes
<1>5. WayTimes[p] = Others \cup Times(channel[<<a, p>>])
  BY <1>2 DEF WayTimes
<1>6. WayTimes'[p] = Others \cup Times(channel'[<<a, p>>])
  <2>1. WayTimes'[p] = (UNION {Times(channel'[<<s, p>>]) : s \in Neighbours(p) \ {a}})
                       \cup Times(channel'[<<a, p>>])
    BY <1>2 DEF WayTimes
  <2>2. \A s \in Neighbours(p) \ {a} : Times(channel'[<<s, p>>]) = Times(channel[<<s, p>>])
    BY <1>2, <1>3
  <2>3. {Times(channel'[<<s, p>>]) : s \in Neighbours(p) \ {a}}
        = {Times(channel[<<s, p>>]) : s \in Neighbours(p) \ {a}}
    BY <2>2
  <2> QED
    BY <2>1, <2>3
<1> HIDE DEF Others
<1>7. WayTimes = [r \in Rank |-> WayTimes[r]] /\ WayTimes' = [r \in Rank |-> WayTimes'[r]]
  BY DEF WayTimes
<1>8. WayTimes = [WayTimes EXCEPT ![p] = Others \cup Times(channel[<<a, p>>])]
  BY <1>2, <1>5, <1>7
<1>9. WayTimes' = [WayTimes EXCEPT ![p] = Others \cup Times(channel'[<<a, p>>])]
  BY <1>2, <1>4, <1>6, <1>7
<1> QED
  BY <1>1, <1>8, <1>9

\* A step that adds events to a, none in its past, and sends no packet.
LEMMA HandleEvents ==
  ASSUME TypeOK, NEW a \in Rank, NEW E,
         m_events'[a] = m_events[a] \cup E, \A e \in E : m_currentTs[a] <= e.ts,
         \A x \in Rank \ {a} : UNCHANGED m_events[x],
         UNCHANGED <<m_currentTs, Returned>>, pc[a] # "done",
         \/ UNCHANGED UnderWay
         \/ \E q \in Rank \ {a} : \E t \in UnderWay'[q] :
              /\ m_currentTs[a] <= t /\ m_currentTs[q] <= t
              /\ UnderWay' = [UnderWay EXCEPT ![q] = @ \cup {t}]
  PROVE  Processes!Handle(a)
<1>1. Agenda'[a] = {e.ts : e \in m_events[a] \cup E} /\ Agenda[a] = {e.ts : e \in m_events[a]}
  BY DEF Agenda
<1>2. \A x \in Rank \ {a} : Agenda'[x] = Agenda[x]
  BY DEF Agenda
<1>3. Agenda' = [Agenda EXCEPT ![a] = @ \cup Agenda'[a]]
  <2>1. Agenda'[a] = Agenda[a] \cup Agenda'[a]
    BY <1>1
  <2>2. Agenda = [x \in Rank |-> Agenda[x]] /\ Agenda' = [x \in Rank |-> Agenda'[x]]
    BY DEF Agenda
  <2> QED
    BY <1>2, <2>1, <2>2
<1>4. \A t \in Agenda'[a] \ Agenda[a] : m_currentTs[a] <= t
  BY <1>1
<1>5. a \notin Returned
  BY DEF Returned
<1> QED
  BY <1>3, <1>4, <1>5 DEF Processes!Handle, Agenda, UnderWay, Returned

LEMMA NotDone ==
  ASSUME TypeOK, NEW a \in Rank, NEW to, pc[a] # "done", to # "done",
         UNCHANGED pc \/ pc' = [pc EXCEPT ![a] = to]
  PROVE  UNCHANGED Returned
BY DEF TypeOK, Returned

LEMMA ExecuteStep ==
  ASSUME IInv, NEW a \in Rank, ProcessOneEvent(a)
  PROVE  Processes!Execute(a)
<1>1. TypeOK /\ Ahead
  BY DEF IInv
<1>2. PICK next \in m_events[a] :
        /\ IsNext(next, m_events[a]) /\ next.ts <= m_safeTime[a]
        /\ m_events' = [m_events EXCEPT ![a] = @ \ {next}]
        /\ m_currentTs' = [m_currentTs EXCEPT ![a] = next.ts]
        /\ UNCHANGED channel
        /\ pc[a] = "loop" /\ pc' = [pc EXCEPT ![a] = "event"]
  BY DEF ProcessOneEvent, Goto
<1>3. a \notin Returned /\ UNCHANGED <<UnderWay, Returned>>
  BY <1>1, <1>2, SameProcesses, NotDone DEF Returned
<1>4. next.ts \in Agenda[a] /\ m_currentTs[a] <= next.ts /\ next.ts \in Nat /\ m_safeTime[a] \in Nat
  BY <1>1, <1>2 DEF Agenda, Ahead, TypeOK, Event
<1>5. ASSUME NEW u \in Agenda[a] PROVE next.ts <= u
  <2>1. PICK e \in m_events[a] : u = e.ts
    BY DEF Agenda
  <2>2. e.ts \in Nat
    BY <1>1 DEF TypeOK, Event
  <2> QED
    BY <1>2, <1>4, <2>1, <2>2 DEF IsNext, Before
<1>6. ASSUME NEW u \in UnderWay[a] PROVE next.ts <= u
  <2>1. PICK s \in Neighbours(a) : \E m \in Packets(s, a) : u = m.rxTime
    BY DEF UnderWay
  <2>2. PICK m \in Packets(s, a) : u = m.rxTime
    BY <2>1
  <2>3. <<s, a>> \in Bundles /\ <<s, a>>[1] = s /\ <<s, a>>[2] = a
    BY NeighboursSymmetric
  <2>4. m.rxTime \in Nat /\ m_safeTime[a] <= m.rxTime
    BY <2>3, PacketsInOrder
  <2> QED
    BY <1>2, <1>4, <2>2, <2>4
<1>7. Agenda' = Agenda \/ Agenda' = [Agenda EXCEPT ![a] = @ \ {next.ts}]
  <2>1. \A s \in Rank : m_events'[s] = IF s = a THEN m_events[s] \ {next} ELSE m_events[s]
    BY <1>1, <1>2 DEF TypeOK
  <2>2. \A s \in Rank : s # a => Agenda'[s] = Agenda[s]
    BY <2>1 DEF Agenda
  <2>3. Agenda'[a] = {e.ts : e \in m_events[a] \ {next}}
    BY <2>1 DEF Agenda
  <2>4. CASE \E e \in m_events[a] \ {next} : e.ts = next.ts
    <3>1. Agenda'[a] = Agenda[a]
      BY <2>3, <2>4 DEF Agenda
    <3> QED
      BY <3>1, <2>2 DEF Agenda
  <2>5. CASE \A e \in m_events[a] \ {next} : e.ts # next.ts
    <3>1. Agenda'[a] = Agenda[a] \ {next.ts}
      BY <2>3, <2>5, <1>2 DEF Agenda
    <3> QED
      BY <3>1, <2>2 DEF Agenda
  <2> QED
    BY <2>4, <2>5
<1> QED
  BY <1>2, <1>3, <1>4, <1>5, <1>6, <1>7 DEF Processes!Execute, Agenda, UnderWay, Returned

\* A message is taken in: a packet is received; a null message goes unnoticed.
LEMMA TakeStep ==
  ASSUME IInv, TypeOK', NEW a \in Rank, NEW p \in Rank, Take(a, p), pc[a] # "done",
         UNCHANGED Returned
  PROVE  Processes!Receive(a) \/ UNCHANGED Processes!lpVars
<1>1. TypeOK
  BY DEF IInv
<1> DEFINE q == channel[<<p, a>>]
           t == Head(q).rxTime
<1>2. TakeEffect(a, p, Head(q), q)
  BY <1>1, TakeHasEffect
<1>3. /\ p \in Neighbours(a) /\ q # <<>>
      /\ channel' = [channel EXCEPT ![<<p, a>>] = Tail(q)]
      /\ \/ UNCHANGED m_events[a]
         \/ t > 0 /\ \E e : e.ts = t /\ m_events'[a] = m_events[a] \cup {e}
      /\ \A x \in Rank \ {a} : UNCHANGED m_events[x]
      /\ UNCHANGED m_currentTs
  BY <1>2 DEF TakeEffect
<1>4. /\ <<p, a>> \in Bundles /\ a \in Neighbours(p) /\ q \in Seq(Message)
      /\ channel'[<<p, a>>] = Tail(q) /\ \A b \in Bundles : b # <<p, a>> => UNCHANGED channel[b]
  BY <1>1, <1>3, NeighboursSymmetric DEF TypeOK
<1>5. PICK Others :
        /\ UnderWay = [UnderWay EXCEPT ![a] = Others \cup Times(q)]
        /\ UnderWay' = [UnderWay EXCEPT ![a] = Others \cup Times(Tail(q))]
  BY <1>1, <1>4, UnderWayStep
<1>6. Times(q) = Times(Tail(q)) \cup (IF t > 0 THEN {t} ELSE {})
  BY <1>3, <1>4, TailTimes
<1>7. UnderWay \in [Rank -> SUBSET UNION {UnderWay[r] : r \in Rank}]
  BY DEF UnderWay
<1> HIDE DEF q, t
<1>8. CASE ~ (t > 0)
  <2>1. UNCHANGED UnderWay
    BY <1>5, <1>6, <1>8
  <2>2. UNCHANGED m_events
    BY <1>1, <1>3, <1>8 DEF TypeOK, Take, q, t
  <2> QED
    BY <1>3, <2>1, <2>2, SameProcesses DEF Processes!lpVars, Agenda, UnderWay, Returned
<1>9. CASE t > 0
  <2>1. UnderWay[a] = Others \cup Times(q) /\ t \in UnderWay[a]
    BY <1>5, <1>6, <1>7, <1>9
  <2>2. UnderWay' = UnderWay \/ UnderWay' = [UnderWay EXCEPT ![a] = @ \ {t}]
    <3>1. CASE t \in Others \cup Times(Tail(q))
      BY <1>5, <1>6, <1>9, <3>1
    <3>2. CASE t \notin Others \cup Times(Tail(q))
      <4>1. Others \cup Times(Tail(q)) = UnderWay[a] \ {t}
        BY <1>6, <1>9, <2>1, <3>2
      <4> QED
        BY <1>5, <4>1
    <3> QED
      BY <3>1, <3>2
  <2>3. \E e : e.ts = t /\ m_events'[a] = m_events[a] \cup {e}
    <3> DEFINE new == [ts |-> t, uid |-> m_uid[a]]
    <3>1. m_events' = [m_events EXCEPT ![a] = @ \cup {new}]
      BY <1>9 DEF Take, q, t
    <3>2. new.ts = t
      OBVIOUS
    <3> HIDE DEF new
    <3>3. m_events'[a] = m_events[a] \cup {new}
      BY <1>1, <3>1 DEF TypeOK
    <3> QED
      BY <3>2, <3>3
  <2>4. Agenda' = [Agenda EXCEPT ![a] = @ \cup {t}]
    <3>1. Agenda'[a] = Agenda[a] \cup {t} /\ \A x \in Rank \ {a} : Agenda'[x] = Agenda[x]
      BY <1>3, <2>3 DEF Agenda
    <3>2. Agenda = [x \in Rank |-> Agenda[x]] /\ Agenda' = [x \in Rank |-> Agenda'[x]]
      BY DEF Agenda
    <3> QED
      BY <3>1, <3>2
  <2>5. a \notin Returned
    BY DEF Returned
  <2> QED
    BY <1>3, <2>1, <2>2, <2>4, <2>5 DEF Processes!Receive, Agenda, UnderWay, Returned
<1> QED
  BY <1>8, <1>9

LEMMA RunHandles ==
  ASSUME OneLinkEach, IInv, TypeOK', NEW a \in Rank, Run(a)
  PROVE  Processes!Handle(a)
<1>1. TypeOK /\ Ahead
  BY DEF IInv
<1> DEFINE null(q) == [ts |-> NullDelay[<<a, q>>],
                       uid |-> m_uid[a] + Cardinality({t \in Neighbours(a) : t < q})]
           E == {null(q) : q \in Neighbours(a)}
<1>2. /\ m_events' = [m_events EXCEPT ![a] = @ \cup E]
      /\ pc[a] = "start" /\ pc' = [pc EXCEPT ![a] = "loop"] /\ UNCHANGED m_currentTs
  BY DEF Run, Goto, clockVars
<1>3. m_currentTs[a] = 0
  BY <1>1, <1>2 DEF Ahead
<1>4. \A e \in E : m_currentTs[a] <= e.ts
  <2>1. \A q \in Neighbours(a) : null(q).ts = NullDelay[<<a, q>>]
    OBVIOUS
  <2> HIDE DEF null
  <2>2. ASSUME NEW q \in Neighbours(a) PROVE m_currentTs[a] <= null(q).ts
    <3>1. NullDelay[<<a, q>>] \in Nat
      BY NullDelayIsNat
    <3>2. null(q).ts = NullDelay[<<a, q>>]
      BY <2>1
    <3> QED
      BY <1>3, <3>1, <3>2
  <2> QED
    BY <2>2
<1> HIDE DEF E, null
<1>5. m_events'[a] = m_events[a] \cup E /\ \A x \in Rank \ {a} : UNCHANGED m_events[x]
  BY <1>1, <1>2 DEF TypeOK
<1>6. UNCHANGED UnderWay
  <2> SUFFICES ASSUME NEW r \in Rank, NEW s \in Neighbours(r)
               PROVE  Times(channel'[<<s, r>>]) = Times(channel[<<s, r>>])
    <3>1. WayTimes' = WayTimes
      BY DEF WayTimes
    <3>2. (UnderWay = WayTimes)'
      BY TypeOK', UnderWayTimes, PTL
    <3> QED
      BY <1>1, <3>1, <3>2, UnderWayTimes
  <2>1. <<s, r>> \in Bundles /\ channel[<<s, r>>] \in Seq(Message) /\ s \in Rank /\ r \in Neighbours(s)
    BY <1>1, NeighboursSymmetric DEF TypeOK
  <2> DEFINE m == NullMessageWith(BundleDelay(s, r))
  <2>2. UNCHANGED channel[<<s, r>>] \/ channel'[<<s, r>>] = Append(channel[<<s, r>>], m)
    BY <2>1 DEF Run
  <2>3. m \in Message /\ m.rxTime = 0
    BY <2>1, DelayIsNat DEF NullMessageWith, Message
  <2> HIDE DEF m
  <2>4. Times(Append(channel[<<s, r>>], m)) = Times(channel[<<s, r>>])
    <3>1. ~ (m.rxTime > 0)
      BY <2>3
    <3> QED
      BY <2>1, <2>3, <3>1, AppendTimes
  <2> QED
    BY <2>2, <2>4
<1> QED
  BY <1>1, <1>2, <1>4, <1>5, <1>6, NotDone, HandleEvents

LEMMA NullHandles ==
  ASSUME OneLinkEach, IInv, TypeOK', NEW a \in Rank, NEW p \in Rank, NullMessageEventHandler(a, p)
  PROVE  Processes!Handle(a)
<1>1. TypeOK /\ m_currentTs[a] \in Nat
  BY DEF IInv, TypeOK
<1>2. PICK null \in Event, m \in Message : NullEffect(a, p, null, m)
  BY <1>1, NullHasEffect
<1>3. /\ p \in Neighbours(a) /\ pc[a] = "event"
      /\ null.ts = m_currentTs[a] + NullDelay[<<a, p>>] /\ m.rxTime = 0
      /\ channel' = [channel EXCEPT ![<<a, p>>] = Append(@, m)]
      /\ m_events'[a] = m_events[a] \cup {null} /\ UNCHANGED m_currentTs
  BY <1>2 DEF NullEffect
<1>4. pc' = [pc EXCEPT ![a] = "receive"] /\ \A x \in Rank \ {a} : UNCHANGED m_events[x]
  BY <1>1 DEF NullMessageEventHandler, Goto, TypeOK
<1>5. m_currentTs[a] <= null.ts
  BY <1>1, <1>3, NullDelayIsNat
<1>6. /\ <<a, p>> \in Bundles /\ channel[<<a, p>>] \in Seq(Message)
      /\ channel'[<<a, p>>] = Append(channel[<<a, p>>], m)
      /\ \A b \in Bundles : b # <<a, p>> => UNCHANGED channel[b]
  BY <1>1, <1>3, NeighboursSymmetric DEF TypeOK
<1>7. PICK Others :
        /\ UnderWay = [UnderWay EXCEPT ![p] = Others \cup Times(channel[<<a, p>>])]
        /\ UnderWay' = [UnderWay EXCEPT ![p] = Others \cup Times(channel'[<<a, p>>])]
  BY <1>1, <1>3, <1>6, UnderWayStep
<1>8. Times(channel'[<<a, p>>]) = Times(channel[<<a, p>>])
  <2>1. ~ (m.rxTime > 0)
    BY <1>3
  <2> QED
    BY <1>6, <2>1, AppendTimes
<1>9. UNCHANGED UnderWay
  BY <1>7, <1>8
<1>10. UNCHANGED Returned /\ pc[a] # "done"
  BY <1>1, <1>3, <1>4, NotDone
<1> QED
  BY <1>1, <1>3, <1>4, <1>5, <1>9, <1>10, HandleEvents

LEMMA ScheduleHandles ==
  ASSUME IInv, NEW a \in Rank, NEW d \in Delays, Schedule(a, d)
  PROVE  Processes!Handle(a)
<1>1. TypeOK /\ m_currentTs[a] \in Nat /\ d \in Nat
  BY TimeAssumption DEF IInv, TypeOK
<1> DEFINE e == [ts |-> m_currentTs[a] + d, uid |-> m_uid[a]]
<1>2. /\ m_events' = [m_events EXCEPT ![a] = @ \cup {e}] /\ pc[a] = "event"
      /\ UNCHANGED <<pc, m_currentTs, channel>>
  BY DEF Schedule, clockVars
<1>3. m_currentTs[a] <= e.ts
  BY <1>1
<1> HIDE DEF e
<1>4. m_events'[a] = m_events[a] \cup {e} /\ \A x \in Rank \ {a} : UNCHANGED m_events[x]
  BY <1>1, <1>2 DEF TypeOK
<1> QED
  BY <1>1, <1>2, <1>3, <1>4, SameProcesses, HandleEvents

\* A packet is received after the present of its receiver, and not before that of
\* its sender.
LEMMA SendHandles ==
  ASSUME OneLinkEach, IInv, IInv', NEW a \in Rank, NEW p \in Rank, NEW l \in Links,
         NEW txTime \in TxTimes, SendPacket(a, p, l, txTime)
  PROVE  Processes!Handle(a)
<1>1. /\ TypeOK /\ TypeOK' /\ m_currentTs[a] \in Nat /\ txTime \in Nat
      /\ \A s \in Neighbours(a) : NullDelay[<<a, s>>] \in Nat /\ BundleDelay(a, s) \in Nat
  BY TimeAssumption, NullDelayIsNat, DelayIsNat DEF IInv, TypeOK
<1>2. PICK complete, null \in Event, m \in Message : SendEffect(a, p, l, txTime, complete, null, m)
  BY <1>1, SendPacketEffect
<1>3. /\ p \in Neighbours(a) /\ pc[a] = "event" /\ UNCHANGED <<pc, m_currentTs>>
      /\ complete.ts = m_currentTs[a] + txTime /\ null.ts = m_currentTs[a] + NullDelay[<<a, p>>]
      /\ m.rxTime = m_currentTs[a] + txTime + BundleDelay(a, p)
      /\ channel' = [channel EXCEPT ![<<a, p>>] = Append(@, m)]
      /\ m_events'[a] = m_events[a] \cup {complete, null}
  BY <1>2 DEF SendEffect
<1>4. \A x \in Rank \ {a} : UNCHANGED m_events[x]
  BY <1>1, OthersUnchanged DEF Program
<1>5. /\ m_currentTs[a] <= complete.ts /\ m_currentTs[a] <= null.ts /\ m_currentTs[a] <= m.rxTime
  BY <1>1, <1>3
<1>6. /\ <<a, p>> \in Bundles /\ channel[<<a, p>>] \in Seq(Message)
      /\ channel'[<<a, p>>] = Append(channel[<<a, p>>], m) /\ p # a
      /\ \A b \in Bundles : b # <<a, p>> => UNCHANGED channel[b]
  BY <1>1, <1>3, NeighboursSymmetric DEF TypeOK
<1>7. PICK Others :
        /\ UnderWay = [UnderWay EXCEPT ![p] = Others \cup Times(channel[<<a, p>>])]
        /\ UnderWay' = [UnderWay EXCEPT ![p] = Others \cup Times(channel'[<<a, p>>])]
  BY <1>1, <1>3, <1>6, UnderWayStep
<1>8. Times(channel'[<<a, p>>]) =
        Times(channel[<<a, p>>]) \cup (IF m.rxTime > 0 THEN {m.rxTime} ELSE {})
  BY <1>6, AppendTimes
<1>9. CASE ~ (m.rxTime > 0)
  <2>1. UNCHANGED UnderWay
    BY <1>7, <1>8, <1>9
  <2> QED
    BY <1>1, <1>3, <1>4, <1>5, <2>1, SameProcesses, HandleEvents
<1>10. CASE m.rxTime > 0
  <2>1. UnderWay[p] = Others \cup Times(channel[<<a, p>>])
    <3>1. p \in DOMAIN UnderWay
      BY DEF UnderWay
    <3> QED
      BY <1>7, <3>1
  <2>2. UnderWay' = [UnderWay EXCEPT ![p] = @ \cup {m.rxTime}] /\ m.rxTime \in UnderWay'[p]
    <3>1. p \in DOMAIN UnderWay
      BY DEF UnderWay
    <3>2. Others \cup Times(channel'[<<a, p>>]) = UnderWay[p] \cup {m.rxTime}
      BY <1>8, <1>10, <2>1
    <3> QED
      BY <1>7, <3>1, <3>2
  <2>3. m_currentTs[p] <= m.rxTime
    <3>1. PICK k \in 1..Len(channel'[<<a, p>>]) : channel'[<<a, p>>][k] = m
      <4>1. /\ Len(channel[<<a, p>>]) \in Nat
            /\ Len(channel'[<<a, p>>]) = Len(channel[<<a, p>>]) + 1
            /\ channel'[<<a, p>>][Len(channel[<<a, p>>]) + 1] = m
        BY <1>6, AppendElements
      <4> QED
        BY <4>1
    <3>2. InOrder(channel'[<<a, p>>], m_currentTs'[p])
      <4>1. PICK hi \in [Bundles -> Nat] : Promise(hi)'
        BY DEF IInv
      <4>2. Told(a, p, hi[<<a, p>>])'
        BY <1>3, <4>1 DEF Promise
      <4> QED
        BY <4>2 DEF Told, InOrder
    <3>3. m_currentTs'[p] <= m.rxTime
      BY <1>10, <3>1, <3>2 DEF InOrder
    <3> QED
      BY <1>3, <3>3
  <2> QED
    BY <1>1, <1>3, <1>4, <1>5, <1>6, <2>2, <2>3, SameProcesses, HandleEvents
<1> QED
  BY <1>9, <1>10

\* The ranks implement logical processes: no rank runs an event while an earlier
\* packet is on its way to it, and none after it has returned.
THEOREM Implementation == ASSUME OneLinkEach PROVE Spec => ImplementsProcesses
<1>1. Init => Processes!Init
  <2> SUFFICES ASSUME Init PROVE Processes!Init
    OBVIOUS
  <2>1. TypeOK
    BY InitType
  <2>2. Agenda \in [Rank -> SUBSET Nat]
    <3>1. \A r \in Rank : \A e \in m_events[r] : e.ts \in Nat
      BY <2>1 DEF TypeOK, Event
    <3> QED
      BY <3>1 DEF Agenda
  <2>3. UnderWay = [r \in Rank |-> {}]
    <3>1. ASSUME NEW r \in Rank, NEW s \in Neighbours(r) PROVE Packets(s, r) = {}
      <4>1. channel[<<s, r>>] = <<>>
        BY NeighboursSymmetric DEF Init
      <4> QED
        BY <4>1 DEF Packets
    <3> QED
      BY <3>1 DEF UnderWay
  <2>4. Returned = {}
    BY DEF Init, Returned
  <2> QED
    BY <2>2, <2>3, <2>4 DEF Init, Processes!Init, Agenda, UnderWay, Returned
<1>2. IInv /\ IInv' /\ [Next]_vars => [Processes!Next]_Processes!lpVars
  <2> SUFFICES ASSUME IInv, IInv', [Next]_vars
               PROVE  Processes!Next \/ UNCHANGED Processes!lpVars
    OBVIOUS
  <2>0. TypeOK /\ TypeOK'
    BY DEF IInv
  <2>1. ASSUME NEW a \in Rank, RunReturns(a) PROVE Processes!Return(a)
    <3>1. pc' = [pc EXCEPT ![a] = "done"] /\ UNCHANGED <<m_events, m_currentTs, channel>>
      BY <2>1 DEF RunReturns, Goto, eventVars, clockVars
    <3>2. Returned' = Returned \cup {a}
      BY <2>0, <3>1 DEF Returned, TypeOK
    <3> QED
      BY <3>1, <3>2, SameProcesses DEF Processes!Return, Agenda, UnderWay, Returned
  <2>2. ASSUME NEW a \in Rank, EventReturns(a) \/ CalculateSafeTime(a) PROVE UNCHANGED Processes!lpVars
    <3>1. /\ pc' = [pc EXCEPT ![a] = "receive"] \/ pc' = [pc EXCEPT ![a] = "loop"]
          /\ pc[a] # "done" /\ UNCHANGED <<m_events, m_currentTs, channel>>
      BY <2>2 DEF EventReturns, CalculateSafeTime, Goto, eventVars, clockVars
    <3>2. UNCHANGED Returned
      BY <2>0, <3>1, NotDone
    <3> QED
      BY <3>1, <3>2, SameProcesses DEF Processes!lpVars, Agenda, UnderWay, Returned
  <2>3. ASSUME NEW a \in Rank, ReceiveNonBlocking(a) \/ ReceiveBlocking(a)
        PROVE  Processes!Receive(a) \/ UNCHANGED Processes!lpVars
    <3>1. /\ UNCHANGED pc \/ pc' = [pc EXCEPT ![a] = "safe"]
          /\ pc[a] # "done" /\ \E p \in Rank : Take(a, p)
      BY <2>3 DEF ReceiveNonBlocking, ReceiveBlocking, Goto
    <3>2. UNCHANGED Returned
      BY <2>0, <3>1, NotDone
    <3> QED
      BY <2>0, <3>1, <3>2, TakeStep
  <2>4. ASSUME NEW a \in Rank, Loop(a) PROVE Processes!Next \/ UNCHANGED Processes!lpVars
    BY <2>0, <2>1, <2>2, <2>3, <2>4, RunHandles, ExecuteStep, NullHandles DEF Loop, Processes!Next
  <2>5. ASSUME NEW a \in Rank, Program(a) PROVE Processes!Next
    BY <2>0, <2>5, ScheduleHandles, SendHandles DEF Program, Processes!Next
  <2>6. CASE UNCHANGED vars
    BY <2>6, SameProcesses DEF vars, eventVars, clockVars, Processes!lpVars, Agenda, UnderWay, Returned
  <2> QED
    BY <2>4, <2>5, <2>6 DEF Next
<1> QED
  BY <1>1, <1>2, Invariance, PTL DEF Spec, Processes!Spec, ImplementsProcesses
=============================================================================
