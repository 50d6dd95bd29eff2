--------------------- MODULE NullMessageGuaranteeProofs ---------------------
(***************************************************************************)
(* The guarantees of NullMessage only grow: no message takes back what an  *)
(* earlier one has given.  As in NullMessageProofs, for any number of      *)
(* ranks, any graph with at most one link between two ranks, any delays    *)
(* and any SchedulerTune.                                                  *)
(***************************************************************************)
EXTENDS NullMessageProofs

-----------------------------------------------------------------------------
(* The guarantees in a queue. *)

\* The guarantees in q rise, from low on.
Rising(q, low) ==
  \A k \in 1..Len(q) :
    low <= q[k].guarantee /\ \A i \in 1..(k - 1) : q[i].guarantee <= q[k].guarantee

\* The last guarantee in q, or low if there is none.
Last(q, low) == IF q = <<>> THEN low ELSE q[Len(q)].guarantee

LEMMA RisingLast ==
  ASSUME NEW q \in Seq(Message), NEW low \in Nat, Rising(q, low)
  PROVE  /\ Last(q, low) \in Nat /\ low <= Last(q, low) /\ Bounded(q, Last(q, low))
         /\ \A h \in Nat : Bounded(q, h) /\ low <= h => Last(q, low) <= h
<1>1. \A k \in 1..Len(q) : q[k].guarantee \in Nat
  <2>1. \A k \in 1..Len(q) : q[k] \in Message
    BY ElementOfSeq
  <2> QED
    BY <2>1 DEF Message
<1>2. CASE q = <<>>
  BY <1>2 DEF Last, Bounded
<1>3. CASE q # <<>>
  <2>1. Len(q) \in Nat /\ Len(q) \in 1..Len(q) /\ Last(q, low) = q[Len(q)].guarantee
    BY <1>3, TailElements DEF Last
  <2>2. ASSUME NEW i \in 1..Len(q) PROVE q[i].guarantee <= q[Len(q)].guarantee
    <3>1. CASE i = Len(q)
      BY <1>1, <3>1
    <3>2. CASE i \in 1..(Len(q) - 1)
      BY <2>1, <3>2 DEF Rising
    <3> QED
      BY <2>1, <3>1, <3>2
  <2> QED
    BY <1>1, <2>1, <2>2 DEF Rising, Bounded
<1> QED
  BY <1>2, <1>3

LEMMA LastAppend ==
  ASSUME NEW q \in Seq(Message), NEW low, NEW m \in Message
  PROVE  Last(Append(q, m), low) = m.guarantee
<1> DEFINE a == Append(q, m)
<1>1. Len(q) \in Nat /\ Len(a) = Len(q) + 1 /\ a[Len(q) + 1] = m /\ a \in Seq(Message)
  BY AppendElements
<1> HIDE DEF a
<1>2. a # <<>>
  <2> DEFINE n == Len(a)
             N == Len(q)
  <2>1. n = N + 1 /\ N \in Nat
    BY <1>1
  <2> HIDE DEF n, N
  <2>2. n # 0
    BY <2>1
  <2> QED
    BY <1>1, <2>2, EmptySeq DEF n
<1>3. Last(a, low) = m.guarantee
  BY <1>1, <1>2 DEF Last
<1> QED
  BY <1>3 DEF a

LEMMA AppendRising ==
  ASSUME NEW q \in Seq(Message), NEW low \in Nat, Rising(q, low),
         NEW m \in Message, Last(q, low) <= m.guarantee
  PROVE  Rising(Append(q, m), low) /\ Last(Append(q, m), low) = m.guarantee
<1> DEFINE a == Append(q, m)
<1>1. /\ Len(q) \in Nat /\ Len(a) = Len(q) + 1 /\ a \in Seq(Message)
      /\ \A i \in 1..Len(q) : a[i] = q[i] /\ q[i] \in Message
      /\ a[Len(q) + 1] = m
  BY AppendElements
<1>2. /\ Last(q, low) \in Nat /\ low <= Last(q, low) /\ Bounded(q, Last(q, low))
      /\ m.guarantee \in Nat
  BY RisingLast DEF Message
<1> HIDE DEF a
<1>3. Last(a, low) = m.guarantee
  BY LastAppend DEF a
<1>4. ASSUME NEW k \in 1..Len(a)
      PROVE  low <= a[k].guarantee /\ \A i \in 1..(k - 1) : a[i].guarantee <= a[k].guarantee
  <2>1. CASE k = Len(q) + 1
    <3>1. ASSUME NEW i \in 1..(k - 1) PROVE a[i].guarantee <= m.guarantee
      <4>0. i \in 1..Len(q)
        BY <1>1, <2>1
      <4>1. i \in 1..Len(q) /\ a[i] = q[i] /\ q[i].guarantee \in Nat
        BY <1>1, <4>0 DEF Message
      <4>2. q[i].guarantee <= Last(q, low)
        BY <1>2, <4>1 DEF Bounded
      <4> QED
        BY <1>2, <4>1, <4>2
    <3> QED
      BY <1>1, <1>2, <2>1, <3>1
  <2>2. CASE k \in 1..Len(q)
    <3>1. a[k] = q[k] /\ \A i \in 1..(k - 1) : a[i] = q[i]
      BY <1>1, <2>2
    <3> QED
      BY <2>2, <3>1 DEF Rising
  <2> QED
    BY <1>1, <2>1, <2>2
<1> QED
  BY <1>3, <1>4 DEF Rising, a

LEMMA TailRising ==
  ASSUME NEW q \in Seq(Message), q # <<>>, NEW low \in Nat, Rising(q, low)
  PROVE  /\ low <= Head(q).guarantee /\ Rising(Tail(q), Head(q).guarantee)
         /\ Last(Tail(q), Head(q).guarantee) = Last(q, low)
<1>1. /\ Len(q) \in Nat \ {0} /\ Head(q) = q[1] /\ Len(Tail(q)) = Len(q) - 1
      /\ Tail(q) \in Seq(Message)
      /\ \A i \in 1..(Len(q) - 1) : Tail(q)[i] = q[i + 1]
  BY TailElements
<1>2. low <= q[1].guarantee
  BY <1>1 DEF Rising
<1>3. ASSUME NEW k \in 1..(Len(q) - 1)
      PROVE  /\ q[1].guarantee <= Tail(q)[k].guarantee
             /\ \A i \in 1..(k - 1) : Tail(q)[i].guarantee <= Tail(q)[k].guarantee
  <2>1. k + 1 \in 1..Len(q) /\ Tail(q)[k] = q[k + 1] /\ 1 \in 1..((k + 1) - 1)
    BY <1>1
  <2>2. \A i \in 1..((k + 1) - 1) : q[i].guarantee <= q[k + 1].guarantee
    BY <2>1 DEF Rising
  <2>3. ASSUME NEW i \in 1..(k - 1) PROVE Tail(q)[i].guarantee <= Tail(q)[k].guarantee
    <3>1. i + 1 \in 1..((k + 1) - 1) /\ Tail(q)[i] = q[i + 1]
      BY <1>1
    <3> QED
      BY <2>1, <2>2, <3>1
  <2> QED
    BY <2>1, <2>2, <2>3
<1>4. Last(Tail(q), q[1].guarantee) = Last(q, low)
  <2>1. CASE Tail(q) = <<>>
    <3>1. Len(Tail(q)) = 0
      BY <1>1, <2>1, EmptySeq
    <3>2. Len(q) = 1
      <4> DEFINE n == Len(Tail(q))
                 N == Len(q)
      <4>1. N \in Nat /\ n = N - 1 /\ n = 0
        BY <1>1, <3>1
      <4> HIDE DEF n, N
      <4>2. N = 1
        BY <4>1
      <4> QED
        BY <4>2 DEF N
    <3> QED
      BY <2>1, <3>2 DEF Last
  <2>2. CASE Tail(q) # <<>>
    <3>1. Len(Tail(q)) \in Nat \ {0}
      BY <1>1, <2>2, TailElements
    <3>2. Len(q) - 1 \in 1..(Len(q) - 1)
      BY <1>1, <3>1
    <3>3. Tail(q)[Len(q) - 1] = q[Len(q)]
      BY <1>1, <3>2
    <3> QED
      BY <1>1, <2>2, <3>3 DEF Last
  <2> QED
    BY <2>1, <2>2
<1> QED
  BY <1>1, <1>2, <1>3, <1>4 DEF Rising

-----------------------------------------------------------------------------
(* The invariant. *)

\* The last guarantee r has given s.
Given(r, s) == Last(channel[<<r, s>>], m_guaranteeTime[<<s, r>>])

\* The next guarantee of r to s will not lie before h: time has passed h already ...
Passed(r, s, h) == h <= m_currentTs[r] + BundleDelay(r, s)

\* ... or nothing but the null message event of s comes before h ...
Quiet(r, s, h) ==
  /\ \A e \in m_events[r] : e.uid # m_nullEventId[<<r, s>>] => h <= e.ts + BundleDelay(r, s)
  /\ pc[r] = "event" => m_currentUid[r] = m_nullEventId[<<r, s>>]

\* ... or nothing is sent to s before h: the link is taken until then, and the null
\* message event is put off.
Busy(r, s, h) ==
  /\ \E e \in m_events[r] : e.uid = m_nullEventId[<<r, s>>] /\ h <= e.ts + BundleDelay(r, s)
  /\ \A l \in Bundle(r, s) :
       /\ m_transmitting[r][l] # READY
       /\ \E e \in m_events[r] : e.uid = m_transmitting[r][l] /\ h <= e.ts + BundleDelay(r, s)

Standing(r, s, h) ==
  /\ h <= m_safeTime[r] + BundleDelay(r, s)
  /\ Passed(r, s, h) \/ Quiet(r, s, h) \/ Busy(r, s, h)

\* What r has given s rises, and stands.
Kept(r, s) ==
  /\ Rising(channel[<<r, s>>], m_guaranteeTime[<<s, r>>])
  /\ Standing(r, s, Given(r, s))

\* A rank is not beyond its safe time, nor that beyond what its neighbours allow.
Window(r) ==
  /\ m_safeTime[r] <= Infinity /\ m_currentTs[r] <= m_safeTime[r]
  /\ \A s \in Neighbours(r) : m_safeTime[r] <= m_guaranteeTime[<<r, s>>]

GInv ==
  /\ IInv
  /\ \A x \in Rank : Beating(x) /\ Window(x)
  /\ \A r \in Rank : \A s \in Neighbours(r) : Kept(r, s)

LEMMA GivenType ==
  ASSUME TypeOK, NEW r \in Rank, NEW s \in Neighbours(r), Kept(r, s)
  PROVE  /\ Given(r, s) \in Nat /\ m_guaranteeTime[<<s, r>>] <= Given(r, s)
         /\ Bounded(channel[<<r, s>>], Given(r, s))
         /\ channel[<<r, s>>] \in Seq(Message) /\ m_guaranteeTime[<<s, r>>] \in Nat
<1>1. channel[<<r, s>>] \in Seq(Message) /\ m_guaranteeTime[<<s, r>>] \in Nat
  BY NeighboursSymmetric DEF TypeOK
<1> QED
  BY <1>1, RisingLast DEF Kept, Given

LEMMA InitGInv == OneLinkEach /\ Init => GInv
<1> SUFFICES ASSUME OneLinkEach, Init PROVE GInv
  OBVIOUS
<1>1. IInv
  BY InitIInv
<1>2. ASSUME NEW x \in Rank PROVE Beating(x) /\ Window(x)
  <2>1. \A s \in Neighbours(x) : m_guaranteeTime[<<x, s>>] = 0
    BY NeighboursSymmetric DEF Init
  <2>2. m_safeTime[x] = 0 /\ m_currentTs[x] = 0 /\ pc[x] = "start" /\ 0 <= Infinity
    BY TimeAssumption DEF Init
  <2> QED
    BY <2>1, <2>2 DEF Beating, Window
<1>3. ASSUME NEW r \in Rank, NEW s \in Neighbours(r) PROVE Kept(r, s)
  <2>1. channel[<<r, s>>] = <<>> /\ m_guaranteeTime[<<s, r>>] = 0
    BY NeighboursSymmetric DEF Init
  <2>2. Given(r, s) = 0
    BY <2>1 DEF Given, Last
  <2>3. m_safeTime[r] = 0 /\ m_currentTs[r] = 0 /\ BundleDelay(r, s) \in Nat
    BY DelayIsNat DEF Init
  <2> QED
    BY <2>1, <2>2, <2>3 DEF Kept, Rising, Standing, Passed
<1> QED
  BY <1>1, <1>2, <1>3 DEF GInv

-----------------------------------------------------------------------------
(* How one guarantee stands a step of the rank that gave it. *)

\* A step that runs no event.
LEMMA SilentStands ==
  ASSUME OneLinkEach, TypeOK, NEW r \in Rank, NEW s \in Neighbours(r), NEW h \in Nat,
         Standing(r, s, h),
         UNCHANGED <<m_currentUid[r], m_currentTs[r], m_transmitting[r], m_nullEventId[<<r, s>>]>>,
         m_events[r] \subseteq m_events'[r],
         \A e \in m_events'[r] \ m_events[r] : h <= e.ts + BundleDelay(r, s),
         m_safeTime'[r] \in Nat, m_safeTime[r] <= m_safeTime'[r],
         pc'[r] = "event" => pc[r] = "event"
  PROVE  Standing(r, s, h)'
<1>1. BundleDelay(r, s) \in Nat /\ m_safeTime[r] \in Nat
  BY DelayIsNat DEF TypeOK
<1>2. h <= m_safeTime'[r] + BundleDelay(r, s)
  BY <1>1 DEF Standing
<1>3. Passed(r, s, h) => Passed(r, s, h)'
  BY DEF Passed
<1>4. Quiet(r, s, h) => Quiet(r, s, h)'
  BY DEF Quiet
<1>5. Busy(r, s, h) => Busy(r, s, h)'
  BY DEF Busy
<1> QED
  BY <1>2, <1>3, <1>4, <1>5 DEF Standing

\* An event of r that is not the null message event of s, and sends s nothing.
LEMMA EventStands ==
  ASSUME NEW r \in Rank, NEW s \in Neighbours(r), NEW h \in Nat, Standing(r, s, h),
         pc[r] = "event", m_currentUid[r] # m_nullEventId[<<r, s>>],
         UNCHANGED <<m_currentTs[r], m_safeTime[r], m_nullEventId[<<r, s>>]>>,
         m_events[r] \subseteq m_events'[r],
         \A l \in Bundle(r, s) : UNCHANGED m_transmitting[r][l]
  PROVE  Standing(r, s, h)'
<1>1. ~ Quiet(r, s, h)
  BY DEF Quiet
<1>2. Passed(r, s, h) => Passed(r, s, h)'
  BY DEF Passed
<1>3. Busy(r, s, h) => Busy(r, s, h)'
  BY DEF Busy
<1> QED
  BY <1>1, <1>2, <1>3 DEF Standing

LEMMA ProcessStands ==
  ASSUME OneLinkEach, TypeOK, NEW r \in Rank, Numbers(r), Ahead, ProcessOneEvent(r),
         NEW s \in Neighbours(r), NEW h \in Nat, Standing(r, s, h)
  PROVE  Standing(r, s, h)'
<1> DEFINE d == BundleDelay(r, s)
<1>1. PICK next \in m_events[r] :
        /\ m_events' = [m_events EXCEPT ![r] = @ \ {next}]
        /\ m_currentTs' = [m_currentTs EXCEPT ![r] = next.ts]
        /\ m_currentUid' = [m_currentUid EXCEPT ![r] = next.uid]
        /\ m_transmitting' = [m_transmitting EXCEPT ![r] =
             [l \in Links |-> IF @[l] = next.uid THEN READY ELSE @[l]]]
        /\ UNCHANGED <<m_nullEventId, m_safeTime>>
  BY DEF ProcessOneEvent, bundleVars
<1>2. /\ m_events'[r] = m_events[r] \ {next} /\ m_currentTs'[r] = next.ts
      /\ m_currentUid'[r] = next.uid
      /\ \A l \in Bundle(r, s) : m_transmitting'[r][l] =
           IF m_transmitting[r][l] = next.uid THEN READY ELSE m_transmitting[r][l]
      /\ m_currentTs[r] <= next.ts /\ next.ts \in Nat /\ m_currentTs[r] \in Nat /\ d \in Nat
  BY <1>1, DelayIsNat DEF TypeOK, Ahead, Event, Bundle
<1>3. \A e \in m_events[r] : e.uid = next.uid => e = next
  BY DEF Numbers
<1>4. h <= next.ts + d => Passed(r, s, h)'
  BY <1>2 DEF Passed
<1>5. CASE Passed(r, s, h)
  <2>1. h <= next.ts + d
    BY <1>2, <1>5 DEF Passed
  <2> QED
    BY <1>1, <1>4, <2>1 DEF Standing
<1>6. CASE Quiet(r, s, h)
  <2>1. CASE next.uid = m_nullEventId[<<r, s>>]
    <3>1. Quiet(r, s, h)'
      BY <1>1, <1>2, <1>6, <2>1 DEF Quiet
    <3> QED
      BY <1>1, <3>1 DEF Standing
  <2>2. CASE next.uid # m_nullEventId[<<r, s>>]
    BY <1>1, <1>4, <1>6, <2>2 DEF Quiet, Standing
  <2> QED
    BY <2>1, <2>2
<1>7. CASE Busy(r, s, h)
  <2>1. CASE next.uid = m_nullEventId[<<r, s>>] \/ \E l \in Bundle(r, s) : next.uid = m_transmitting[r][l]
    <3>1. h <= next.ts + d
      BY <1>3, <1>7, <2>1 DEF Busy
    <3> QED
      BY <1>1, <1>4, <3>1 DEF Standing
  <2>2. CASE ~ (next.uid = m_nullEventId[<<r, s>>] \/ \E l \in Bundle(r, s) : next.uid = m_transmitting[r][l])
    <3>1. \E e \in m_events'[r] : e.uid = m_nullEventId'[<<r, s>>] /\ h <= e.ts + d
      BY <1>1, <1>2, <1>7, <2>2 DEF Busy
    <3>2. ASSUME NEW l \in Bundle(r, s)
          PROVE  /\ m_transmitting'[r][l] # READY
                 /\ \E e \in m_events'[r] : e.uid = m_transmitting'[r][l] /\ h <= e.ts + d
      BY <1>2, <1>7, <2>2 DEF Busy
    <3>3. Busy(r, s, h)'
      BY <3>1, <3>2 DEF Busy
    <3> QED
      BY <1>1, <3>3 DEF Standing
  <2> QED
    BY <2>1, <2>2
<1> QED
  BY <1>5, <1>6, <1>7 DEF Standing

\* The step of another rank.
LEMMA OtherStands ==
  ASSUME NEW r \in Rank, NEW s \in Neighbours(r), NEW h \in Nat, Standing(r, s, h),
         UNCHANGED <<pc[r], m_events[r], m_currentUid[r], m_currentTs[r], m_safeTime[r]>>,
         UNCHANGED <<m_transmitting[r], m_nullEventId[<<r, s>>]>>
  PROVE  Standing(r, s, h)'
BY DEF Standing, Passed, Quiet, Busy

LEMMA TakeStands ==
  ASSUME OneLinkEach, IInv, NEW r \in Rank, NEW p \in Rank, Take(r, p),
         pc'[r] = "event" => pc[r] = "event",
         NEW s \in Neighbours(r), NEW h \in Nat, Standing(r, s, h)
  PROVE  Standing(r, s, h)'
<1> DEFINE m == Head(channel[<<p, r>>])
           d == BundleDelay(r, s)
<1>0. TypeOK
  BY DEF IInv
<1>1. TakeEffect(r, p, m, channel[<<p, r>>])
  BY <1>0, TakeHasEffect
<1>2. /\ p \in Neighbours(r) /\ channel[<<p, r>>] # <<>>
      /\ UNCHANGED <<m_currentUid, m_currentTs, m_transmitting, m_nullEventId, m_safeTime>>
      /\ m_events[r] \subseteq m_events'[r]
      /\ \A e \in m_events'[r] \ m_events[r] : m.rxTime > 0 /\ e.ts = m.rxTime
  BY <1>1 DEF TakeEffect
<1>3. p \in Rank /\ r \in Neighbours(p) /\ <<p, r>> \in Bundles
  BY <1>2, NeighboursSymmetric
<1>4. channel[<<p, r>>] \in Seq(Message) /\ m_safeTime[r] \in Nat /\ d \in Nat
  BY <1>0, <1>3, DelayIsNat DEF TypeOK
<1>5. InOrder(channel[<<p, r>>], m_safeTime[r])
  <2>1. PICK hi \in [Bundles -> Nat] : Promise(hi)
    BY DEF IInv
  <2> QED
    BY <1>3, <2>1 DEF Promise, Told
<1>6. m.rxTime \in Nat /\ (m.rxTime > 0 => m_safeTime[r] <= m.rxTime)
  <2>1. m \in Message
    BY <1>2, <1>4, TailElements
  <2>2. m.rxTime > 0 => m_safeTime[r] <= m.rxTime
    BY <1>2, <1>4, <1>5, TailInOrder
  <2> QED
    BY <2>1, <2>2 DEF Message
<1>7. m.rxTime > 0 => h <= m.rxTime + d
  BY <1>4, <1>6 DEF Standing
<1> HIDE DEF m
<1>8. \A e \in m_events'[r] \ m_events[r] : h <= e.ts + d
  BY <1>2, <1>7
<1> QED
  BY <1>0, <1>2, <1>4, <1>8, SilentStands

LEMMA NullToOtherStands ==
  ASSUME OneLinkEach, TypeOK, NEW r \in Rank, Numbers(r), NEW p \in Rank,
         NullMessageEventHandler(r, p),
         NEW s \in Neighbours(r), s # p, NEW h \in Nat, Standing(r, s, h)
  PROVE  Standing(r, s, h)'
<1>1. PICK null \in Event, m \in Message : NullEffect(r, p, null, m)
  BY NullHasEffect
<1>2. /\ p \in Neighbours(r) /\ m_currentUid[r] = m_nullEventId[<<r, p>>] /\ pc[r] = "event"
      /\ m_events[r] \subseteq m_events'[r]
      /\ UNCHANGED <<m_currentTs, m_safeTime, m_nullEventId[<<r, s>>], m_transmitting>>
  BY <1>1 DEF NullEffect, IsNullEvent
<1>3. m_currentUid[r] # m_nullEventId[<<r, s>>]
  BY <1>2 DEF Numbers
<1> QED
  BY <1>2, <1>3, EventStands

LEMMA SendToOtherStands ==
  ASSUME OneLinkEach, TypeOK, NEW r \in Rank, NEW p \in Rank, NEW l \in Links,
         NEW txTime \in TxTimes, SendPacket(r, p, l, txTime),
         NEW s \in Neighbours(r), s # p, NEW h \in Nat, Standing(r, s, h)
  PROVE  Standing(r, s, h)'
<1>1. PICK complete, null \in Event, m \in Message : SendEffect(r, p, l, txTime, complete, null, m)
  BY SendPacketEffect
<1>2. /\ l \in Bundle(r, p) /\ pc[r] = "event" /\ IsProgramEvent(r)
      /\ m_events[r] \subseteq m_events'[r]
      /\ UNCHANGED <<m_currentTs, m_safeTime, m_nullEventId[<<r, s>>]>>
      /\ m_transmitting'[r] = [m_transmitting[r] EXCEPT ![l] = m_uid[r]]
  BY <1>1 DEF SendEffect
<1>3. \A k \in Bundle(r, s) : k \in Links /\ k # l
  BY <1>2 DEF Bundle
<1>4. \A k \in Bundle(r, s) : UNCHANGED m_transmitting[r][k]
  BY <1>2, <1>3 DEF TypeOK
<1>5. m_currentUid[r] # m_nullEventId[<<r, s>>]
  BY <1>2 DEF IsProgramEvent, IsNullEvent
<1> QED
  BY <1>2, <1>4, <1>5, EventStands

LEMMA ScheduleStands ==
  ASSUME TypeOK, NEW r \in Rank, NEW d \in Delays, Schedule(r, d),
         NEW s \in Neighbours(r), NEW h \in Nat, Standing(r, s, h)
  PROVE  Standing(r, s, h)'
<1>1. /\ pc[r] = "event" /\ IsProgramEvent(r)
      /\ m_events[r] \subseteq m_events'[r]
      /\ UNCHANGED <<m_currentTs, m_safeTime, m_nullEventId, m_transmitting>>
  BY DEF Schedule, clockVars, bundleVars, TypeOK
<1>2. m_currentUid[r] # m_nullEventId[<<r, s>>]
  BY <1>1 DEF IsProgramEvent, IsNullEvent
<1> QED
  BY <1>1, <1>2, EventStands

\* The safe time only grows, as the guarantees have.
LEMMA SafeTimeGrows ==
  ASSUME TypeOK, NEW r \in Rank, Window(r), CalculateSafeTime(r)
  PROVE  /\ m_safeTime'[r] \in Nat /\ m_safeTime[r] <= m_safeTime'[r] /\ m_safeTime'[r] <= Infinity
         /\ \A s \in Neighbours(r) : m_safeTime'[r] <= m_guaranteeTime[<<r, s>>]
         /\ \/ m_safeTime'[r] = Infinity
            \/ \E s \in Neighbours(r) : m_safeTime'[r] = m_guaranteeTime[<<r, s>>]
         /\ UNCHANGED <<m_events, cancelled, m_uid, m_currentUid, m_currentTs, m_stop>>
         /\ UNCHANGED <<m_guaranteeTime, m_nullEventId, m_transmitting, channel>>
         /\ pc[r] \in {"receive", "safe"} /\ pc'[r] = "loop"
<1> DEFINE S == {Infinity} \cup {m_guaranteeTime[<<r, s>>] : s \in Neighbours(r)}
<1>1. PICK safe \in S : (\A g \in S : safe <= g) /\ m_safeTime' = [m_safeTime EXCEPT ![r] = safe]
  BY DEF CalculateSafeTime
<1>2. Infinity \in Nat /\ \A s \in Neighbours(r) : m_guaranteeTime[<<r, s>>] \in Nat
  BY TimeAssumption, NeighboursSymmetric DEF TypeOK
<1>3. safe \in Nat /\ m_safeTime'[r] = safe
  BY <1>1, <1>2 DEF TypeOK
<1>4. \A g \in S : m_safeTime[r] <= g
  BY DEF Window
<1>5. /\ UNCHANGED <<m_events, cancelled, m_uid, m_currentUid, m_currentTs, m_stop>>
      /\ UNCHANGED <<m_guaranteeTime, m_nullEventId, m_transmitting, channel>>
      /\ pc[r] \in {"receive", "safe"} /\ pc'[r] = "loop"
  BY DEF CalculateSafeTime, Goto, eventVars, clockVars, TypeOK
<1> QED
  BY <1>1, <1>3, <1>4, <1>5

LEMMA SafeTimeStands ==
  ASSUME OneLinkEach, TypeOK, NEW r \in Rank, Window(r), CalculateSafeTime(r),
         NEW s \in Neighbours(r), NEW h \in Nat, Standing(r, s, h)
  PROVE  Standing(r, s, h)'
BY SafeTimeGrows, SilentStands

LEMMA ReturnStands ==
  ASSUME OneLinkEach, TypeOK, NEW r \in Rank, EventReturns(r) \/ RunReturns(r),
         NEW s \in Neighbours(r), NEW h \in Nat, Standing(r, s, h)
  PROVE  Standing(r, s, h)'
<1>1. /\ UNCHANGED <<m_events, m_currentUid, m_currentTs, m_transmitting, m_nullEventId, m_safeTime>>
      /\ pc'[r] # "event" /\ m_safeTime[r] \in Nat
  BY DEF EventReturns, RunReturns, Goto, eventVars, clockVars, bundleVars, TypeOK
<1>2. m_safeTime[r] <= m_safeTime'[r] /\ m_safeTime'[r] \in Nat
  BY <1>1
<1> QED
  BY <1>1, <1>2, SilentStands

-----------------------------------------------------------------------------
(* What r gives s next is no less than what stands, and stands in its turn. *)

LEMMA NullGivesMore ==
  ASSUME OneLinkEach, TypeOK, NEW r \in Rank, Numbers(r), Ahead, NEW s \in Rank,
         NEW null \in Event, NEW m \in Message, NullEffect(r, s, null, m),
         NEW h \in Nat, Standing(r, s, h)
  PROVE  h <= m.guarantee /\ Standing(r, s, m.guarantee)'
<1> DEFINE d == BundleDelay(r, s)
<1>1. /\ s \in Neighbours(r) /\ m_currentUid[r] = m_nullEventId[<<r, s>>]
      /\ pc[r] = "event" /\ pc'[r] = "receive" /\ null.uid = m_uid[r]
      /\ IsGreatestBound(r, s, m_events[r], m.guarantee)
      /\ m_events'[r] = m_events[r] \cup {null}
      /\ m_nullEventId'[<<r, s>>] = m_uid[r]
      /\ UNCHANGED m_safeTime
  BY DEF NullEffect, IsNullEvent
<1>2. d \in Nat /\ m_currentTs[r] \in Nat /\ \A e \in m_events[r] : e.ts \in Nat /\ m_currentTs[r] <= e.ts
  BY <1>1, DelayIsNat DEF TypeOK, Ahead, Event
<1>3. \A e \in m_events[r] : e.uid # m_nullEventId[<<r, s>>]
  BY <1>1 DEF Numbers
<1>4. \A e \in m_events[r] : h <= e.ts + d
  <2>1. CASE Passed(r, s, h)
    BY <1>2, <2>1 DEF Passed
  <2>2. CASE Quiet(r, s, h)
    BY <1>3, <2>2 DEF Quiet
  <2>3. ~ Busy(r, s, h)
    BY <1>3 DEF Busy
  <2> QED
    BY <2>1, <2>2, <2>3 DEF Standing
<1>5. h <= m.guarantee
  BY <1>1, <1>4 DEF IsGreatestBound, IsBound, Standing
<1>6. /\ m.guarantee <= m_safeTime[r] + d
      /\ \A e \in m_events[r] : m.guarantee <= e.ts + d
  BY <1>1 DEF IsGreatestBound, IsBound
<1>7. Quiet(r, s, m.guarantee)'
  BY <1>1, <1>6 DEF Quiet
<1> QED
  BY <1>1, <1>5, <1>6, <1>7 DEF Standing

LEMMA SendGivesMore ==
  ASSUME OneLinkEach, TypeOK, NEW r \in Rank, Ahead, Beating(r), NEW s \in Rank, NEW l \in Links,
         NEW txTime \in TxTimes, NEW complete \in Event, NEW null \in Event, NEW m \in Message,
         SendEffect(r, s, l, txTime, complete, null, m),
         Numbers(r), NEW h \in Nat, Standing(r, s, h)
  PROVE  h <= m.guarantee /\ Standing(r, s, m.guarantee)'
<1> DEFINE d == BundleDelay(r, s)
           t == m_currentTs[r]
           g == m.guarantee
<1>1. /\ s \in Neighbours(r) /\ l \in Bundle(r, s)
      /\ pc[r] = "event" /\ m_currentUid[r] # m_nullEventId[<<r, s>>]
      /\ m_transmitting[r][l] = READY
      /\ complete.ts = t + txTime /\ complete.uid = m_uid[r]
      /\ null.ts = t + NullDelay[<<r, s>>] /\ null.uid = m_uid[r] + 1
      /\ IsGreatestBound(r, s, m_events[r] \cup {complete}, g)
      /\ m_events'[r] = m_events[r] \cup {complete, null}
      /\ m_transmitting'[r] = [m_transmitting[r] EXCEPT ![l] = m_uid[r]]
      /\ m_nullEventId'[<<r, s>>] = m_uid[r] + 1
      /\ UNCHANGED m_safeTime
  BY DEF SendEffect, IsProgramEvent, IsNullEvent
<1>2. /\ d \in Nat /\ t \in Nat /\ txTime \in Nat /\ g \in Nat /\ NullDelay[<<r, s>>] \in Nat
      /\ \A e \in m_events[r] : e.ts \in Nat /\ t <= e.ts
      /\ complete.ts \in Nat /\ null.ts \in Nat
  <2>1. d \in Nat /\ NullDelay[<<r, s>>] \in Nat /\ txTime \in Nat
    BY <1>1, DelayIsNat, NullDelayIsNat, TimeAssumption
  <2>2. t \in Nat /\ g \in Nat /\ complete.ts \in Nat /\ null.ts \in Nat
    BY DEF TypeOK, Message, Event
  <2>3. \A e \in m_events[r] : e.ts \in Nat /\ t <= e.ts
    BY DEF TypeOK, Ahead, Event
  <2> QED
    BY <2>1, <2>2, <2>3
<1>3. Passed(r, s, h) /\ h <= m_safeTime[r] + d
  BY <1>1 DEF Standing, Quiet, Busy
<1>4. \A e \in m_events[r] \cup {complete} : h <= e.ts + d
  BY <1>1, <1>2, <1>3 DEF Passed
<1>5. h <= g
  BY <1>1, <1>3, <1>4 DEF IsGreatestBound, IsBound
<1>6. g <= m_safeTime[r] + d /\ g <= complete.ts + d /\ \A e \in m_events[r] : g <= e.ts + d
  BY <1>1 DEF IsGreatestBound, IsBound
<1>7. g <= null.ts + d
  <2>1. PICK e \in m_events[r] : e.ts <= t + NullDelay[<<r, s>>]
    BY <1>1 DEF Beating, Due
  <2>2. e.ts \in Nat /\ g <= e.ts + d /\ e.ts <= null.ts
    BY <1>1, <1>2, <1>6, <2>1
  <2> QED
    BY <1>2, <2>2
<1>8. \A k \in Bundle(r, s) : k = l
  BY <1>1 DEF Bundle, OneLinkEach
<1>9. m_transmitting'[r][l] = m_uid[r] /\ m_uid[r] # READY
  <2>1. m_uid[r] # READY
    BY DEF Numbers, FirstNullUid, READY, TypeOK
  <2>2. l \in DOMAIN m_transmitting[r]
    BY DEF TypeOK
  <2> QED
    BY <1>1, <2>1, <2>2
<1>10. Busy(r, s, g)'
  <2>1. null \in m_events'[r] /\ complete \in m_events'[r]
    BY <1>1
  <2> HIDE DEF g
  <2> QED
    BY <1>1, <1>6, <1>7, <1>8, <1>9, <2>1 DEF Busy
<1> QED
  BY <1>1, <1>5, <1>6, <1>10 DEF Standing

LEMMA RunGivesMore ==
  ASSUME OneLinkEach, IInv, NEW r \in Rank, Run(r), NEW s \in Neighbours(r), Kept(r, s)
  PROVE  Given(r, s) <= BundleDelay(r, s) /\ Standing(r, s, BundleDelay(r, s))'
<1> DEFINE d == BundleDelay(r, s)
           q == channel[<<r, s>>]
<1>1. TypeOK /\ d \in Nat /\ <<r, s>> \in Bundles
  BY NeighboursSymmetric, DelayIsNat DEF IInv
<1>2. PICK hi \in [Bundles -> Nat] : Promise(hi)
  BY DEF IInv
<1>3. pc[r] = "start" /\ UNCHANGED <<m_safeTime, m_currentTs>>
  BY DEF Run, Goto, clockVars, bundleVars
<1>4. m_guaranteeTime[<<s, r>>] <= 0 /\ Bounded(q, 0)
  <2>1. Told(r, s, 0)
    BY <1>2, <1>3 DEF Promise
  <2> QED
    BY <2>1 DEF Told
<1>5. Given(r, s) <= 0 /\ Given(r, s) \in Nat
  <2>1. Rising(q, m_guaranteeTime[<<s, r>>])
    BY DEF Kept
  <2>2. q \in Seq(Message) /\ m_guaranteeTime[<<s, r>>] \in Nat
    BY <1>1, NeighboursSymmetric DEF TypeOK
  <2> HIDE DEF q
  <2>3. Last(q, m_guaranteeTime[<<s, r>>]) <= 0 /\ Last(q, m_guaranteeTime[<<s, r>>]) \in Nat
    BY <1>4, <2>1, <2>2, RisingLast
  <2> QED
    BY <2>3 DEF Given, q
<1>6. m_safeTime[r] \in Nat /\ m_currentTs[r] \in Nat
  BY <1>1 DEF TypeOK
<1>7. d <= m_safeTime'[r] + d /\ d <= m_currentTs'[r] + d
  BY <1>1, <1>3, <1>6
<1> QED
  BY <1>1, <1>5, <1>7 DEF Standing, Passed

-----------------------------------------------------------------------------
(* One step of the simulator. *)

\* The message that is appended to what r has given s.
LEMMA SentKept ==
  ASSUME TypeOK, NEW r \in Rank, NEW s \in Neighbours(r), Kept(r, s), NEW m \in Message,
         channel'[<<r, s>>] = Append(channel[<<r, s>>], m),
         UNCHANGED m_guaranteeTime[<<s, r>>],
         Given(r, s) <= m.guarantee, Standing(r, s, m.guarantee)'
  PROVE  Kept(r, s)' /\ Given(r, s) <= Given(r, s)'
<1> DEFINE q == channel[<<r, s>>]
           low == m_guaranteeTime[<<s, r>>]
<1>1. q \in Seq(Message) /\ low \in Nat /\ Rising(q, low) /\ Last(q, low) = Given(r, s)
  BY GivenType DEF Kept, Given
<1> HIDE DEF q, low
<1>2. Rising(Append(q, m), low) /\ Last(Append(q, m), low) = m.guarantee
  BY <1>1, AppendRising
<1>3. channel'[<<r, s>>] = Append(q, m) /\ m_guaranteeTime'[<<s, r>>] = low
  BY DEF q, low
<1>4. Given(r, s)' = m.guarantee
  BY <1>2, <1>3 DEF Given
<1>5. Rising(channel'[<<r, s>>], m_guaranteeTime'[<<s, r>>])
  BY <1>2, <1>3
<1>6. Rising(channel[<<r, s>>], m_guaranteeTime[<<s, r>>])'
  BY <1>5 DEF Rising
<1>7. Standing(r, s, Given(r, s))'
  BY <1>4
<1> QED
  BY <1>4, <1>6, <1>7 DEF Kept

\* Taking a message changes nothing of what was given.
LEMMA TakenKept ==
  ASSUME TypeOK, NEW r \in Rank, NEW s \in Neighbours(r), Kept(r, s), Take(s, r)
  PROVE  /\ Rising(channel[<<r, s>>], m_guaranteeTime[<<s, r>>])'
         /\ Given(r, s)' = Given(r, s)
         /\ m_guaranteeTime[<<s, r>>] <= m_guaranteeTime'[<<s, r>>]
<1> DEFINE q == channel[<<r, s>>]
           low == m_guaranteeTime[<<s, r>>]
<1>1. q \in Seq(Message) /\ low \in Nat /\ Rising(q, low) /\ Last(q, low) = Given(r, s)
  BY GivenType DEF Kept, Given
<1>2. q # <<>> /\ channel'[<<r, s>>] = Tail(q) /\ m_guaranteeTime'[<<s, r>>] = Head(q).guarantee
  BY NeighboursSymmetric DEF Take, TypeOK
<1> HIDE DEF q, low
<1>3. /\ low <= Head(q).guarantee /\ Rising(Tail(q), Head(q).guarantee)
      /\ Last(Tail(q), Head(q).guarantee) = Last(q, low)
  BY <1>1, <1>2, TailRising
<1>4. Rising(channel'[<<r, s>>], m_guaranteeTime'[<<s, r>>])
  BY <1>2, <1>3
<1>5. Rising(channel[<<r, s>>], m_guaranteeTime[<<s, r>>])'
  BY <1>4 DEF Rising
<1>6. Given(r, s)' = Given(r, s)
  BY <1>1, <1>2, <1>3 DEF Given
<1> QED
  BY <1>2, <1>3, <1>5, <1>6 DEF low

\* A step that neither sends to s nor lets s take a message of r.
LEMMA SameKept ==
  ASSUME NEW r \in Rank, NEW s \in Neighbours(r), Kept(r, s),
         UNCHANGED <<channel[<<r, s>>], m_guaranteeTime[<<s, r>>]>>,
         Standing(r, s, Given(r, s)) => \A h : h = Given(r, s) => Standing(r, s, h)'
  PROVE  Kept(r, s)' /\ Given(r, s)' = Given(r, s)
<1>1. Given(r, s)' = Given(r, s)
  BY DEF Given
<1>2. Rising(channel[<<r, s>>], m_guaranteeTime[<<s, r>>])'
  BY DEF Kept, Rising
<1>3. Standing(r, s, Given(r, s))'
  BY <1>1 DEF Kept
<1> QED
  BY <1>1, <1>2, <1>3 DEF Kept

\* The messages of r to s concern r, and s when it takes one.
LEMMA OtherChannel ==
  ASSUME TypeOK, NEW a \in Rank, Loop(a) \/ Program(a), NEW r \in Rank, NEW s \in Neighbours(r), a # r
  PROVE  \/ a = s /\ Take(s, r)
         \/ UNCHANGED <<channel[<<r, s>>], m_guaranteeTime[<<s, r>>]>>
<1>0. s \in Rank /\ r # s /\ <<r, s>> \in Bundles /\ <<s, r>> \in Bundles
  BY NeighboursSymmetric
<1>1. CASE RunReturns(a) \/ EventReturns(a) \/ CalculateSafeTime(a) \/ ProcessOneEvent(a)
  BY <1>1 DEF RunReturns, EventReturns, CalculateSafeTime, ProcessOneEvent, bundleVars
<1>2. CASE ReceiveNonBlocking(a) \/ ReceiveBlocking(a)
  <2>1. PICK p \in Rank : Take(a, p)
    BY <1>2 DEF ReceiveNonBlocking, ReceiveBlocking
  <2>2. CASE a = s /\ p = r
    BY <2>1, <2>2
  <2>3. CASE ~ (a = s /\ p = r)
    <3>1. <<p, a>> # <<r, s>> /\ <<a, p>> # <<s, r>>
      BY <2>3
    <3> QED
      BY <1>0, <2>1, <3>1 DEF Take, TypeOK
  <2> QED
    BY <2>2, <2>3
<1>3. CASE Run(a)
  <2>1. <<r, s>>[1] # a
    OBVIOUS
  <2> QED
    BY <1>0, <1>3, <2>1 DEF Run, bundleVars
<1>4. ASSUME NEW p \in Rank, NullMessageEventHandler(a, p)
      PROVE  UNCHANGED <<channel[<<r, s>>], m_guaranteeTime[<<s, r>>]>>
  <2>1. <<a, p>> # <<r, s>>
    OBVIOUS
  <2> QED
    BY <1>0, <1>4, <2>1 DEF NullMessageEventHandler, bundleVars, TypeOK
<1>5. ASSUME NEW p \in Rank, NEW l \in Links, NEW txTime \in TxTimes, SendPacket(a, p, l, txTime)
      PROVE  UNCHANGED <<channel[<<r, s>>], m_guaranteeTime[<<s, r>>]>>
  <2>1. <<a, p>> # <<r, s>>
    OBVIOUS
  <2> QED
    BY <1>0, <1>5, <2>1 DEF SendPacket, bundleVars, TypeOK
<1>6. CASE \E d \in Delays : Schedule(a, d)
  BY <1>6 DEF Schedule, bundleVars
<1> QED
  BY <1>1, <1>2, <1>3, <1>4, <1>5, <1>6 DEF Loop, Program

\* A step of a rank other than r.
LEMMA OtherKept ==
  ASSUME OneLinkEach, IInv, NEW a \in Rank, Loop(a) \/ Program(a),
         NEW r \in Rank, NEW s \in Neighbours(r), Kept(r, s), a # r
  PROVE  /\ Kept(r, s)' /\ Given(r, s)' = Given(r, s)
         /\ m_guaranteeTime[<<s, r>>] <= m_guaranteeTime'[<<s, r>>]
<1>0. TypeOK
  BY DEF IInv
<1>1. Given(r, s) \in Nat /\ m_guaranteeTime[<<s, r>>] \in Nat
  BY <1>0, GivenType
<1>2. Standing(r, s, Given(r, s)) => \A h : h = Given(r, s) => Standing(r, s, h)'
  <2>1. /\ UNCHANGED <<pc[r], m_events[r], m_currentUid[r], m_currentTs[r], m_safeTime[r]>>
        /\ UNCHANGED <<m_transmitting[r], m_nullEventId[<<r, s>>]>>
    BY <1>0, OthersUnchanged
  <2> QED
    BY <1>1, <2>1, OtherStands
<1>3. CASE a = s /\ Take(s, r)
  <2>1. /\ Rising(channel[<<r, s>>], m_guaranteeTime[<<s, r>>])'
        /\ Given(r, s)' = Given(r, s)
        /\ m_guaranteeTime[<<s, r>>] <= m_guaranteeTime'[<<s, r>>]
    BY <1>0, <1>3, TakenKept
  <2>2. Standing(r, s, Given(r, s))'
    BY <1>2, <2>1 DEF Kept
  <2> QED
    BY <2>1, <2>2 DEF Kept
<1>4. CASE UNCHANGED <<channel[<<r, s>>], m_guaranteeTime[<<s, r>>]>>
  BY <1>1, <1>2, <1>4, SameKept
<1> QED
  BY <1>0, <1>3, <1>4, OtherChannel

\* A step of r itself.
LEMMA OwnKept ==
  ASSUME OneLinkEach, GInv, NEW r \in Rank, Loop(r) \/ Program(r), NEW s \in Neighbours(r)
  PROVE  /\ Kept(r, s)' /\ Given(r, s) <= Given(r, s)'
         /\ m_guaranteeTime[<<s, r>>] <= m_guaranteeTime'[<<s, r>>]
<1>0. /\ IInv /\ TypeOK /\ Ahead /\ Numbers(r) /\ Beating(r) /\ Window(r) /\ Kept(r, s)
      /\ Standing(r, s, Given(r, s))
  BY DEF GInv, IInv, Kept
<1>a. Given(r, s) \in Nat /\ m_guaranteeTime[<<s, r>>] \in Nat
  BY <1>0, GivenType
<1>b. PICK h \in Nat : h = Given(r, s)
  BY <1>a
<1>1. h \in Nat /\ h = Given(r, s) /\ Standing(r, s, h) /\ m_guaranteeTime[<<s, r>>] \in Nat
  BY <1>0, <1>a, <1>b
<1>2. s \in Rank /\ s # r /\ <<r, s>> \in Bundles /\ <<s, r>> \in Bundles
  BY NeighboursSymmetric
<1>3. ASSUME UNCHANGED <<channel[<<r, s>>], m_guaranteeTime[<<s, r>>]>>, Standing(r, s, h)'
      PROVE  /\ Kept(r, s)' /\ Given(r, s) <= Given(r, s)'
             /\ m_guaranteeTime[<<s, r>>] <= m_guaranteeTime'[<<s, r>>]
  <2>1. \A x : x = Given(r, s) => Standing(r, s, x)'
    BY <1>1, <1>3
  <2>2. Kept(r, s)' /\ Given(r, s)' = Given(r, s)
    BY <1>0, <1>3, <2>1, SameKept
  <2> QED
    BY <1>1, <1>3, <2>2
<1>4. ASSUME NEW m \in Message, channel'[<<r, s>>] = Append(channel[<<r, s>>], m),
             UNCHANGED m_guaranteeTime[<<s, r>>], h <= m.guarantee, Standing(r, s, m.guarantee)'
      PROVE  /\ Kept(r, s)' /\ Given(r, s) <= Given(r, s)'
             /\ m_guaranteeTime[<<s, r>>] <= m_guaranteeTime'[<<s, r>>]
  <2>1. Kept(r, s)' /\ Given(r, s) <= Given(r, s)'
    BY <1>0, <1>1, <1>4, SentKept
  <2> QED
    BY <1>1, <1>4, <2>1
<1>5. CASE RunReturns(r) \/ EventReturns(r) \/ CalculateSafeTime(r) \/ ProcessOneEvent(r)
  <2>1. UNCHANGED <<channel, m_guaranteeTime>>
    BY <1>5 DEF RunReturns, EventReturns, CalculateSafeTime, ProcessOneEvent, bundleVars
  <2>2. Standing(r, s, h)'
    BY <1>0, <1>1, <1>5, ReturnStands, SafeTimeStands, ProcessStands
  <2> QED
    BY <1>3, <2>1, <2>2
<1>6. CASE ReceiveNonBlocking(r) \/ ReceiveBlocking(r)
  <2>1. PICK p \in Rank : Take(r, p)
    BY <1>6 DEF ReceiveNonBlocking, ReceiveBlocking
  <2>2. pc'[r] = "event" => pc[r] = "event"
    BY <1>0, <1>6 DEF ReceiveNonBlocking, ReceiveBlocking, Goto, TypeOK
  <2>3. Standing(r, s, h)'
    BY <1>0, <1>1, <2>1, <2>2, TakeStands
  <2>4. <<p, r>> # <<r, s>> /\ <<r, p>> # <<s, r>>
    BY <1>2
  <2>5. UNCHANGED <<channel[<<r, s>>], m_guaranteeTime[<<s, r>>]>>
    BY <1>0, <1>2, <2>1, <2>4 DEF Take, TypeOK
  <2> QED
    BY <1>3, <2>3, <2>5
<1>7. CASE Run(r)
  <2> DEFINE m == NullMessageWith(BundleDelay(r, s))
  <2>1. h <= BundleDelay(r, s) /\ Standing(r, s, BundleDelay(r, s))'
    BY <1>0, <1>1, <1>7, RunGivesMore
  <2>2. m \in Message /\ m.guarantee = BundleDelay(r, s)
    BY DelayIsNat DEF NullMessageWith, Message
  <2>3. channel'[<<r, s>>] = Append(channel[<<r, s>>], m) /\ UNCHANGED m_guaranteeTime
    BY <1>2, <1>7 DEF Run, bundleVars
  <2> HIDE DEF m
  <2>4. h <= m.guarantee /\ Standing(r, s, m.guarantee)'
    BY <2>1, <2>2
  <2> QED
    BY <1>4, <2>2, <2>3, <2>4
<1>8. ASSUME NEW p \in Rank, NullMessageEventHandler(r, p)
      PROVE  /\ Kept(r, s)' /\ Given(r, s) <= Given(r, s)'
             /\ m_guaranteeTime[<<s, r>>] <= m_guaranteeTime'[<<s, r>>]
  <2>1. PICK null \in Event, m \in Message : NullEffect(r, p, null, m)
    BY <1>0, <1>8, NullHasEffect
  <2>2. channel' = [channel EXCEPT ![<<r, p>>] = Append(@, m)] /\ UNCHANGED m_guaranteeTime
    BY <2>1 DEF NullEffect
  <2>3. CASE p = s
    <3>1. h <= m.guarantee /\ Standing(r, s, m.guarantee)'
      BY <1>0, <1>1, <1>2, <2>1, <2>3, NullGivesMore
    <3>2. channel'[<<r, s>>] = Append(channel[<<r, s>>], m)
      BY <1>0, <1>2, <2>2, <2>3 DEF TypeOK
    <3> QED
      BY <1>4, <2>2, <3>1, <3>2
  <2>4. CASE p # s
    <3>1. Standing(r, s, h)'
      BY <1>0, <1>1, <1>8, <2>4, NullToOtherStands
    <3>2. channel'[<<r, s>>] = channel[<<r, s>>]
      BY <1>0, <1>2, <2>2, <2>4 DEF TypeOK
    <3> QED
      BY <1>3, <2>2, <3>1, <3>2
  <2> QED
    BY <2>3, <2>4
<1>9. ASSUME NEW p \in Rank, NEW l \in Links, NEW txTime \in TxTimes, SendPacket(r, p, l, txTime)
      PROVE  /\ Kept(r, s)' /\ Given(r, s) <= Given(r, s)'
             /\ m_guaranteeTime[<<s, r>>] <= m_guaranteeTime'[<<s, r>>]
  <2>1. PICK complete, null \in Event, m \in Message : SendEffect(r, p, l, txTime, complete, null, m)
    BY <1>0, <1>9, SendPacketEffect
  <2>2. channel' = [channel EXCEPT ![<<r, p>>] = Append(@, m)] /\ UNCHANGED m_guaranteeTime
    BY <2>1 DEF SendEffect
  <2>3. CASE p = s
    <3>1. h <= m.guarantee /\ Standing(r, s, m.guarantee)'
      BY <1>0, <1>1, <1>2, <2>1, <2>3, SendGivesMore
    <3>2. channel'[<<r, s>>] = Append(channel[<<r, s>>], m)
      BY <1>0, <1>2, <2>2, <2>3 DEF TypeOK
    <3> QED
      BY <1>4, <2>2, <3>1, <3>2
  <2>4. CASE p # s
    <3>1. Standing(r, s, h)'
      BY <1>0, <1>1, <1>9, <2>4, SendToOtherStands
    <3>2. channel'[<<r, s>>] = channel[<<r, s>>]
      BY <1>0, <1>2, <2>2, <2>4 DEF TypeOK
    <3> QED
      BY <1>3, <2>2, <3>1, <3>2
  <2> QED
    BY <2>3, <2>4
<1>10. ASSUME NEW d \in Delays, Schedule(r, d)
       PROVE  /\ Kept(r, s)' /\ Given(r, s) <= Given(r, s)'
              /\ m_guaranteeTime[<<s, r>>] <= m_guaranteeTime'[<<s, r>>]
  <2>1. Standing(r, s, h)' /\ UNCHANGED <<channel, m_guaranteeTime>>
    BY <1>0, <1>1, <1>10, ScheduleStands DEF Schedule, bundleVars
  <2> QED
    BY <1>3, <2>1
<1> QED
  BY <1>5, <1>6, <1>7, <1>8, <1>9, <1>10 DEF Loop, Program

\* Every step keeps what was given.
LEMMA KeptStep ==
  ASSUME OneLinkEach, GInv, [Next]_vars, NEW r \in Rank, NEW s \in Neighbours(r)
  PROVE  /\ Kept(r, s)' /\ Given(r, s) <= Given(r, s)'
         /\ m_guaranteeTime[<<s, r>>] <= m_guaranteeTime'[<<s, r>>]
<1>0. IInv /\ TypeOK /\ Kept(r, s)
  BY DEF GInv, IInv
<1>1. Given(r, s) \in Nat /\ m_guaranteeTime[<<s, r>>] \in Nat
  BY <1>0, GivenType
<1>2. CASE UNCHANGED vars
  <2>1. UNCHANGED <<channel, m_guaranteeTime, pc, m_events, m_currentUid, m_currentTs>>
        /\ UNCHANGED <<m_safeTime, m_transmitting, m_nullEventId>>
    BY <1>2 DEF vars, eventVars, clockVars, bundleVars
  <2>2. \A h : h = Given(r, s) => (Standing(r, s, h) => Standing(r, s, h)')
    BY <1>1, <2>1, OtherStands
  <2> QED
    BY <1>0, <1>1, <2>1, <2>2, SameKept
<1>3. ASSUME NEW a \in Rank, Loop(a) \/ Program(a)
      PROVE  /\ Kept(r, s)' /\ Given(r, s) <= Given(r, s)'
             /\ m_guaranteeTime[<<s, r>>] <= m_guaranteeTime'[<<s, r>>]
  <2>1. CASE a = r
    BY <1>3, <2>1, OwnKept
  <2>2. CASE a # r
    <3>1. /\ Kept(r, s)' /\ Given(r, s)' = Given(r, s)
          /\ m_guaranteeTime[<<s, r>>] <= m_guaranteeTime'[<<s, r>>]
      BY <1>0, <1>3, <2>2, OtherKept
    <3> QED
      BY <1>1, <3>1
  <2> QED
    BY <2>1, <2>2
<1> QED
  BY <1>2, <1>3 DEF Next

\* The guarantees a rank has, and its safe time with them, only grow.
LEMMA WindowStep ==
  ASSUME OneLinkEach, GInv, [Next]_vars, NEW x \in Rank
  PROVE  /\ Window(x)' /\ m_safeTime[x] <= m_safeTime'[x]
         /\ \A s \in Neighbours(x) : m_guaranteeTime[<<x, s>>] <= m_guaranteeTime'[<<x, s>>]
<1>0. IInv /\ TypeOK /\ Window(x)
  BY DEF GInv, IInv
<1>1. TypeOK'
  BY <1>0, NextType
<1>2. /\ m_safeTime[x] \in Nat /\ m_currentTs[x] \in Nat
      /\ m_safeTime'[x] \in Nat /\ m_currentTs'[x] \in Nat /\ Infinity \in Nat
  BY <1>0, <1>1, TimeAssumption DEF TypeOK
<1>3. ASSUME NEW s \in Neighbours(x)
      PROVE  /\ m_guaranteeTime[<<x, s>>] \in Nat /\ m_guaranteeTime'[<<x, s>>] \in Nat
             /\ m_guaranteeTime[<<x, s>>] <= m_guaranteeTime'[<<x, s>>]
  <2>1. s \in Rank /\ x \in Neighbours(s) /\ <<x, s>> \in Bundles
    BY NeighboursSymmetric
  <2> QED
    BY <1>0, <1>1, <2>1, KeptStep DEF TypeOK
<1>4. SUFFICES /\ m_safeTime'[x] <= Infinity /\ m_currentTs'[x] <= m_safeTime'[x]
               /\ m_safeTime[x] <= m_safeTime'[x]
               /\ \A s \in Neighbours(x) : m_safeTime'[x] <= m_guaranteeTime[<<x, s>>]
  <2>1. \A s \in Neighbours(x) : m_safeTime'[x] <= m_guaranteeTime'[<<x, s>>]
    BY <1>2, <1>3, <1>4
  <2> QED
    BY <1>3, <1>4, <2>1 DEF Window
<1>5. ASSUME UNCHANGED <<m_safeTime[x], m_currentTs[x]>>
      PROVE  /\ m_safeTime'[x] <= Infinity /\ m_currentTs'[x] <= m_safeTime'[x]
             /\ m_safeTime[x] <= m_safeTime'[x]
             /\ \A s \in Neighbours(x) : m_safeTime'[x] <= m_guaranteeTime[<<x, s>>]
  BY <1>0, <1>2, <1>5 DEF Window
<1>6. CASE UNCHANGED vars
  BY <1>5, <1>6 DEF vars, clockVars, bundleVars
<1>7. ASSUME NEW a \in Rank, Loop(a) \/ Program(a), a # x
      PROVE  UNCHANGED <<m_safeTime[x], m_currentTs[x]>>
  BY <1>0, <1>7, OthersUnchanged
<1>8. CASE CalculateSafeTime(x)
  <2>1. /\ m_safeTime[x] <= m_safeTime'[x] /\ m_safeTime'[x] <= Infinity
        /\ \A s \in Neighbours(x) : m_safeTime'[x] <= m_guaranteeTime[<<x, s>>]
        /\ UNCHANGED m_currentTs
    BY <1>0, <1>8, SafeTimeGrows
  <2> QED
    BY <1>0, <1>2, <2>1 DEF Window
<1>9. CASE ProcessOneEvent(x)
  <2>1. PICK next \in m_events[x] :
          /\ next.ts <= m_safeTime[x] /\ m_currentTs' = [m_currentTs EXCEPT ![x] = next.ts]
          /\ UNCHANGED m_safeTime
    BY <1>9 DEF ProcessOneEvent, bundleVars
  <2>2. m_currentTs'[x] = next.ts
    BY <1>0, <2>1 DEF TypeOK
  <2> QED
    BY <1>0, <1>2, <2>1, <2>2 DEF Window
<1>10. CASE RunReturns(x) \/ EventReturns(x) \/ Run(x) \/ ReceiveNonBlocking(x) \/ ReceiveBlocking(x)
  <2>1. UNCHANGED <<m_safeTime, m_currentTs>>
    BY <1>10 DEF RunReturns, EventReturns, Run, ReceiveNonBlocking, ReceiveBlocking, Take,
       clockVars, bundleVars
  <2> QED
    BY <1>5, <2>1
<1>11. CASE Program(x) \/ \E s \in Rank : NullMessageEventHandler(x, s)
  <2>1. UNCHANGED <<m_safeTime, m_currentTs>>
    BY <1>11 DEF Program, Schedule, SendPacket, NullMessageEventHandler, clockVars, bundleVars
  <2> QED
    BY <1>5, <2>1
<1>12. CASE Loop(x) \/ Program(x)
  BY <1>8, <1>9, <1>10, <1>11, <1>12 DEF Loop
<1> QED
  BY <1>5, <1>6, <1>7, <1>12 DEF Next

LEMMA NextGInv == OneLinkEach /\ GInv /\ [Next]_vars => GInv'
<1> SUFFICES ASSUME OneLinkEach, GInv, [Next]_vars PROVE GInv'
  OBVIOUS
<1>1. IInv /\ \A x \in Rank : Beating(x)
  BY DEF GInv
<1>2. IInv'
  BY <1>1, NextIInv
<1>3. \A x \in Rank : Beating(x)' /\ Window(x)'
  BY <1>1, BeatingStep, WindowStep
<1>4. \A r \in Rank : \A s \in Neighbours(r) : Kept(r, s)'
  BY KeptStep
<1> QED
  BY <1>2, <1>3, <1>4 DEF GInv

LEMMA GInvariance == ASSUME OneLinkEach PROVE Spec => []GInv
<1>1. Init => GInv
  BY InitGInv
<1>2. GInv /\ [Next]_vars => GInv'
  BY NextGInv
<1> QED
  BY <1>1, <1>2, PTL DEF Spec

-----------------------------------------------------------------------------
(* The theorems. *)

\* No guarantee takes back an earlier one: the assertions of SetGuaranteeTime and of
\* CalculateSafeTime never fail.
THEOREM NoneTakenBack == ASSUME OneLinkEach PROVE Spec => []NeverTakenBack
<1>1. GInv => NeverTakenBack
  <2> SUFFICES ASSUME GInv, NEW b \in Bundles
               PROVE  m_currentTs[b[1]] <= m_guaranteeTime[b] /\ m_currentTs[b[1]] <= m_safeTime[b[1]]
    BY DEF NeverTakenBack
  <2>1. b = <<b[1], b[2]>> /\ b[1] \in Rank /\ b[2] \in Neighbours(b[1])
    BY BundlesAreNeighbours
  <2>2. m_currentTs[b[1]] <= m_safeTime[b[1]] /\ m_safeTime[b[1]] <= m_guaranteeTime[b]
    BY <2>1 DEF GInv, Window
  <2>3. m_currentTs[b[1]] \in Nat /\ m_safeTime[b[1]] \in Nat /\ m_guaranteeTime[b] \in Nat
    BY <2>1 DEF GInv, IInv, TypeOK
  <2> QED
    BY <2>2, <2>3
<1> QED
  BY <1>1, GInvariance, PTL

\* What a rank relies on only grows.
THEOREM GuaranteesRise == ASSUME OneLinkEach PROVE Spec => GuaranteesGrow
<1>1. GInv /\ [Next]_vars =>
        [\A b \in Bundles :
           /\ m_guaranteeTime[b] <= m_guaranteeTime'[b]
           /\ m_safeTime[b[1]] <= m_safeTime'[b[1]]]_vars
  <2> SUFFICES ASSUME GInv, [Next]_vars, NEW b \in Bundles
               PROVE  m_guaranteeTime[b] <= m_guaranteeTime'[b]
                      /\ m_safeTime[b[1]] <= m_safeTime'[b[1]]
    OBVIOUS
  <2>1. b = <<b[1], b[2]>> /\ b[1] \in Rank /\ b[2] \in Neighbours(b[1])
    BY BundlesAreNeighbours
  <2> QED
    BY <2>1, WindowStep
<1> QED
  BY <1>1, GInvariance, PTL DEF Spec, GuaranteesGrow
=============================================================================
