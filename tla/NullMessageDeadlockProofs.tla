----------------------- MODULE NullMessageDeadlockProofs -----------------------
(***************************************************************************)
(* The ranks of NullMessage never all wait for each other, and never wait  *)
(* for a rank that has stopped: the guarantees a rank has given keep the   *)
(* others going up to the time of its own next null message, or of its     *)
(* stop.                                                                   *)
(***************************************************************************)
EXTENDS NullMessageGuaranteeProofs, WellFoundedInduction

\* SchedulerTune is at most 1, as the checker of its attribute sees to: a null message
\* leaves before the guarantee of the last message is reached.
ShortNulls == \A r \in Rank : \A s \in Neighbours(r) : NullDelay[<<r, s>>] <= BundleDelay(r, s)

\* All ranks stop at one time, which the simulator can reach, and none is alone.
SameStop ==
  \A r, s \in Rank : StopTime[r] = StopTime[s] /\ StopTime[r] <= Infinity
Connected == \A r \in Rank : Neighbours(r) # {}

Setting == OneLinkEach /\ ShortNulls /\ SameStop /\ Connected

-----------------------------------------------------------------------------
(* The invariant. *)

\* The stop event of r is pending, or running, or r has stopped.
Stops(r) ==
  /\ \A e \in m_events[r] : e.uid = StopUid => e.ts = StopTime[r]
  /\ pc[r] # "start" => \A s \in Neighbours(r) : FirstNullUid <= m_nullEventId[<<r, s>>]
  /\ \/ m_stop[r] /\ m_currentTs[r] = StopTime[r]
     \/ /\ ~ m_stop[r] /\ pc[r] = "event"
        /\ m_currentUid[r] = StopUid /\ m_currentTs[r] = StopTime[r]
     \/ ~ m_stop[r] /\ \E e \in m_events[r] : e.uid = StopUid

\* What r has given s lasts up to the next null message, and in the end up to the stop.
Lasting(r, s) ==
  /\ pc[r] # "start" =>
       \A e \in m_events[r] : e.uid = m_nullEventId[<<r, s>>] => e.ts <= Given(r, s)
  /\ pc[r] = "done" => StopTime[r] <= Given(r, s)

\* When r looks for its next event, its safe time is the guarantee of some neighbour.
Limited(r) ==
  pc[r] \in {"start", "loop"} =>
    \/ m_safeTime[r] = Infinity
    \/ \E s \in Neighbours(r) : m_safeTime[r] = m_guaranteeTime[<<r, s>>]

DInv ==
  /\ GInv
  /\ \A r \in Rank : Stops(r) /\ Limited(r)
  /\ \A r \in Rank : \A s \in Neighbours(r) : Lasting(r, s)

LEMMA InitDInv == Setting /\ Init => DInv
<1> SUFFICES ASSUME Setting, Init PROVE DInv
  OBVIOUS
<1>1. GInv
  BY InitGInv DEF Setting
<1>2. ASSUME NEW r \in Rank PROVE Stops(r)
  <2>1. /\ m_events[r] = {[ts |-> InitialTime[r], uid |-> AppUid], [ts |-> StopTime[r], uid |-> StopUid]}
        /\ pc[r] = "start" /\ ~ m_stop[r]
    BY DEF Init
  <2>2. AppUid # StopUid
    BY DEF AppUid, StopUid
  <2> QED
    BY <2>1, <2>2 DEF Stops
<1>3. ASSUME NEW r \in Rank PROVE Limited(r)
  <2>1. PICK s \in Neighbours(r) : TRUE
    BY DEF Setting, Connected
  <2>2. m_safeTime[r] = 0 /\ m_guaranteeTime[<<r, s>>] = 0
    BY NeighboursSymmetric DEF Init
  <2> QED
    BY <2>2 DEF Limited
<1>4. ASSUME NEW r \in Rank, NEW s \in Neighbours(r) PROVE Lasting(r, s)
  BY DEF Init, Lasting
<1> QED
  BY <1>1, <1>2, <1>3, <1>4 DEF DInv

\* The events a step of r adds take new numbers.
LEMMA NewEvents ==
  ASSUME OneLinkEach, TypeOK, NEW r \in Rank, Loop(r) \/ Program(r), NEW e \in m_events'[r]
  PROVE  e \in m_events[r] \/ m_uid[r] <= e.uid
<1>0. m_uid[r] \in Nat
  BY DEF TypeOK
<1>1. CASE RunReturns(r) \/ EventReturns(r) \/ CalculateSafeTime(r)
  BY <1>1 DEF RunReturns, EventReturns, CalculateSafeTime, eventVars
<1>2. CASE ProcessOneEvent(r)
  BY <1>2 DEF ProcessOneEvent, TypeOK
<1>3. ASSUME NEW p \in Rank, Take(r, p) PROVE e \in m_events[r] \/ m_uid[r] <= e.uid
  <2> DEFINE new == [ts |-> Head(channel[<<p, r>>]).rxTime, uid |-> m_uid[r]]
  <2>1. new.uid = m_uid[r]
    OBVIOUS
  <2>2. UNCHANGED m_events \/ m_events' = [m_events EXCEPT ![r] = @ \cup {new}]
    BY <1>3 DEF Take
  <2> HIDE DEF new
  <2> QED
    BY <1>0, <2>1, <2>2 DEF TypeOK
<1>4. CASE Run(r)
  <2> DEFINE n(s) == Cardinality({q \in Neighbours(r) : q < s})
             null(s) == [ts |-> NullDelay[<<r, s>>], uid |-> m_uid[r] + n(s)]
  <2>1. m_events' = [m_events EXCEPT ![r] = @ \cup {null(s) : s \in Neighbours(r)}]
    BY <1>4 DEF Run
  <2>2. \A s \in Neighbours(r) : null(s).uid = m_uid[r] + n(s) /\ n(s) \in Nat
    BY NumberOfNeighbour
  <2> HIDE DEF n, null
  <2> QED
    BY <1>0, <2>1, <2>2 DEF TypeOK
<1>5. ASSUME NEW p \in Rank, NullMessageEventHandler(r, p) PROVE e \in m_events[r] \/ m_uid[r] <= e.uid
  <2>1. PICK null \in Event, m \in Message : NullEffect(r, p, null, m)
    BY <1>5, NullHasEffect
  <2> QED
    BY <1>0, <2>1 DEF NullEffect
<1>6. ASSUME NEW d \in Delays, Schedule(r, d) PROVE e \in m_events[r] \/ m_uid[r] <= e.uid
  <2> DEFINE new == [ts |-> m_currentTs[r] + d, uid |-> m_uid[r]]
  <2>1. new.uid = m_uid[r] /\ m_events' = [m_events EXCEPT ![r] = @ \cup {new}]
    BY <1>6 DEF Schedule
  <2> HIDE DEF new
  <2> QED
    BY <1>0, <2>1 DEF TypeOK
<1>7. ASSUME NEW p \in Rank, NEW l \in Links, NEW txTime \in TxTimes, SendPacket(r, p, l, txTime)
      PROVE  e \in m_events[r] \/ m_uid[r] <= e.uid
  <2>1. PICK complete, null \in Event, m \in Message : SendEffect(r, p, l, txTime, complete, null, m)
    BY <1>7, SendPacketEffect
  <2> QED
    BY <1>0, <2>1 DEF SendEffect
<1> QED
  BY <1>1, <1>2, <1>3, <1>4, <1>5, <1>6, <1>7 DEF Loop, Program, ReceiveNonBlocking, ReceiveBlocking

\* The null message events of x keep to the numbers from FirstNullUid on.
LEMMA NullNumbers ==
  ASSUME OneLinkEach, TypeOK, NEW x \in Rank, Numbers(x), Loop(x) \/ Program(x),
         pc[x] # "start" => \A s \in Neighbours(x) : FirstNullUid <= m_nullEventId[<<x, s>>],
         NEW s \in Neighbours(x)
  PROVE  FirstNullUid <= m_nullEventId'[<<x, s>>]
<1>0. /\ m_uid[x] \in Nat /\ FirstNullUid <= m_uid[x] /\ FirstNullUid \in Nat
      /\ <<x, s>> \in Bundles /\ m_nullEventId[<<x, s>>] \in Nat
  BY NeighboursSymmetric DEF TypeOK, Numbers, FirstNullUid
<1>1. CASE Run(x)
  <2> DEFINE n(t) == Cardinality({q \in Neighbours(x) : q < t})
  <2>1. \A b \in Bundles : b[1] = x => m_nullEventId'[b] = m_uid[x] + n(b[2])
    BY <1>1 DEF Run
  <2>2. n(s) \in Nat
    BY NumberOfNeighbour
  <2> HIDE DEF n
  <2>3. m_nullEventId'[<<x, s>>] = m_uid[x] + n(s)
    BY <1>0, <2>1
  <2> QED
    BY <1>0, <2>2, <2>3
<1>2. CASE pc[x] # "start" /\ UNCHANGED m_nullEventId
  BY <1>2
<1>3. ASSUME NEW p \in Rank, NullMessageEventHandler(x, p) PROVE FirstNullUid <= m_nullEventId'[<<x, s>>]
  <2>1. PICK null \in Event, m \in Message : NullEffect(x, p, null, m)
    BY <1>3, NullHasEffect
  <2>2. /\ m_nullEventId'[<<x, s>>] = IF s = p THEN m_uid[x] ELSE m_nullEventId[<<x, s>>]
        /\ pc[x] = "event"
    BY <2>1 DEF NullEffect
  <2> QED
    BY <1>0, <2>2
<1>4. ASSUME NEW p \in Rank, NEW l \in Links, NEW txTime \in TxTimes, SendPacket(x, p, l, txTime)
      PROVE  FirstNullUid <= m_nullEventId'[<<x, s>>]
  <2>1. PICK complete, null \in Event, m \in Message : SendEffect(x, p, l, txTime, complete, null, m)
    BY <1>4, SendPacketEffect
  <2>2. /\ m_nullEventId'[<<x, s>>] = IF s = p THEN m_uid[x] + 1 ELSE m_nullEventId[<<x, s>>]
        /\ pc[x] = "event"
    BY <2>1 DEF SendEffect
  <2> QED
    BY <1>0, <2>2
<1>5. RunReturns(x) \/ EventReturns(x) \/ CalculateSafeTime(x) \/ ProcessOneEvent(x) =>
        pc[x] # "start" /\ UNCHANGED m_nullEventId
  BY DEF RunReturns, EventReturns, CalculateSafeTime, ProcessOneEvent, Goto
<1>6. ReceiveNonBlocking(x) \/ ReceiveBlocking(x) => pc[x] # "start" /\ UNCHANGED m_nullEventId
  BY DEF ReceiveNonBlocking, ReceiveBlocking, Take, Goto
<1>7. (\E d \in Delays : Schedule(x, d)) => pc[x] # "start" /\ UNCHANGED m_nullEventId
  BY DEF Schedule
<1> QED
  BY <1>1, <1>2, <1>3, <1>4, <1>5, <1>6, <1>7 DEF Loop, Program

\* A pending event other than the next stays pending.
LEMMA EventsStay ==
  ASSUME OneLinkEach, TypeOK, NEW x \in Rank, Loop(x) \/ Program(x), ~ ProcessOneEvent(x)
  PROVE  m_events[x] \subseteq m_events'[x]
<1>1. RunReturns(x) \/ EventReturns(x) \/ CalculateSafeTime(x) => UNCHANGED m_events
  BY DEF RunReturns, EventReturns, CalculateSafeTime, eventVars
<1>2. ASSUME NEW p \in Rank, Take(x, p) PROVE m_events[x] \subseteq m_events'[x]
  <2>1. TakeEffect(x, p, Head(channel[<<p, x>>]), channel[<<p, x>>])
    BY <1>2, TakeHasEffect
  <2> QED
    BY <2>1 DEF TakeEffect
<1>3. Run(x) => m_events[x] \subseteq m_events'[x]
  <2> DEFINE new == {[ts |-> NullDelay[<<x, s>>],
                      uid |-> m_uid[x] + Cardinality({q \in Neighbours(x) : q < s})] : s \in Neighbours(x)}
  <2>1. Run(x) => m_events' = [m_events EXCEPT ![x] = @ \cup new]
    BY DEF Run
  <2> HIDE DEF new
  <2> QED
    BY <2>1 DEF TypeOK
<1>4. ASSUME NEW p \in Rank, NullMessageEventHandler(x, p) PROVE m_events[x] \subseteq m_events'[x]
  BY <1>4, NullHasEffect DEF NullEffect
<1>5. ASSUME NEW d \in Delays, Schedule(x, d) PROVE m_events[x] \subseteq m_events'[x]
  BY <1>5 DEF Schedule, TypeOK
<1>6. ASSUME NEW p \in Rank, NEW l \in Links, NEW txTime \in TxTimes, SendPacket(x, p, l, txTime)
      PROVE  m_events[x] \subseteq m_events'[x]
  BY <1>6, SendPacketEffect DEF SendEffect
<1> QED
  BY <1>1, <1>2, <1>3, <1>4, <1>5, <1>6 DEF Loop, Program, ReceiveNonBlocking, ReceiveBlocking

LEMMA StopsStep ==
  ASSUME OneLinkEach, IInv, NEW x \in Rank, Stops(x), [Next]_vars
  PROVE  Stops(x)'
<1>0. TypeOK /\ Numbers(x)
  BY DEF IInv
<1>1. CASE UNCHANGED vars
  BY <1>1 DEF Stops, vars, eventVars, clockVars
<1>2. ASSUME NEW a \in Rank, Loop(a) \/ Program(a), a # x PROVE Stops(x)'
  <2>1. /\ UNCHANGED <<pc[x], m_events[x], m_currentUid[x], m_currentTs[x]>>
        /\ \A s \in Neighbours(x) : UNCHANGED m_nullEventId[<<x, s>>]
    BY <1>0, <1>2, OthersUnchanged
  <2>2. UNCHANGED m_stop[x]
    <3>1. EventReturns(a) => UNCHANGED m_stop[x]
      BY <1>0, <1>2 DEF EventReturns, TypeOK
    <3>2. ~ EventReturns(a) => UNCHANGED m_stop
      BY <1>2 DEF Loop, Program, Run, RunReturns, ProcessOneEvent, CalculateSafeTime,
         ReceiveNonBlocking, ReceiveBlocking, Take, NullMessageEventHandler, Schedule, SendPacket,
         clockVars
    <3> QED
      BY <3>1, <3>2
  <2> QED
    BY <2>1, <2>2 DEF Stops
<1>3. ASSUME Loop(x) \/ Program(x) PROVE Stops(x)'
  <2> DEFINE Stopped == m_stop[x] /\ m_currentTs[x] = StopTime[x]
             Stopping == /\ ~ m_stop[x] /\ pc[x] = "event"
                         /\ m_currentUid[x] = StopUid /\ m_currentTs[x] = StopTime[x]
             ToStop == ~ m_stop[x] /\ \E e \in m_events[x] : e.uid = StopUid
  <2>1. ASSUME NEW e \in m_events'[x], e.uid = StopUid PROVE e.ts = StopTime[x]
    <3>1. m_uid[x] \in Nat /\ FirstNullUid <= m_uid[x]
      BY <1>0 DEF TypeOK, Numbers
    <3>2. ~ (m_uid[x] <= e.uid)
      BY <2>1, <3>1 DEF FirstNullUid, StopUid
    <3> QED
      BY <1>0, <1>3, <2>1, <3>2, NewEvents DEF Stops
  <2>2. \A s \in Neighbours(x) : FirstNullUid <= m_nullEventId'[<<x, s>>]
    BY <1>0, <1>3, NullNumbers DEF Stops
  <2>3. Stopped \/ Stopping \/ ToStop
    BY DEF Stops
  <2>4. CASE ProcessOneEvent(x)
    <3>1. PICK next \in m_events[x] :
            /\ m_events'[x] = m_events[x] \ {next} /\ m_currentTs'[x] = next.ts
            /\ m_currentUid'[x] = next.uid /\ UNCHANGED m_stop
            /\ ~ m_stop[x] /\ pc[x] = "loop" /\ pc'[x] = "event"
      BY <1>0, <2>4 DEF ProcessOneEvent, Goto, TypeOK
    <3>2. ToStop
      BY <2>3, <3>1
    <3>3. next.uid = StopUid => next.ts = StopTime[x]
      BY DEF Stops
    <3>4. Stopping' \/ ToStop'
      BY <3>1, <3>2, <3>3
    <3> QED
      BY <2>1, <2>2, <3>4 DEF Stops
  <2>5. CASE EventReturns(x)
    <3>1. /\ UNCHANGED <<m_events, m_currentTs>> /\ pc[x] = "event"
          /\ m_stop'[x] = (m_stop[x] \/ m_currentUid[x] = StopUid)
      BY <1>0, <2>5 DEF EventReturns, Goto, eventVars, TypeOK
    <3>2. ToStop => m_currentUid[x] # StopUid
      BY <1>0, <3>1 DEF Numbers
    <3>3. Stopped' \/ Stopping' \/ ToStop'
      BY <2>3, <3>1, <3>2
    <3> QED
      BY <2>1, <2>2, <3>3 DEF Stops
  <2>6. CASE ~ ProcessOneEvent(x) /\ ~ EventReturns(x)
    <3>1. UNCHANGED <<m_stop, m_currentTs>>
      BY <1>3, <2>6 DEF Loop, Program, Run, RunReturns, CalculateSafeTime, ReceiveNonBlocking,
         ReceiveBlocking, Take, NullMessageEventHandler, Schedule, SendPacket, clockVars
    <3>2. m_events[x] \subseteq m_events'[x]
      BY <1>0, <1>3, <2>6, EventsStay
    <3>3. ~ Stopping
      <4>1. SUFFICES ASSUME pc[x] = "event", m_currentUid[x] = StopUid PROVE FALSE
        OBVIOUS
      <4>2. ~ \E p \in Rank : NullMessageEventHandler(x, p)
        <5> SUFFICES ASSUME NEW p \in Neighbours(x), m_nullEventId[<<x, p>>] = StopUid PROVE FALSE
          BY <4>1 DEF NullMessageEventHandler, IsNullEvent
        <5> QED
          BY <4>1 DEF Stops, FirstNullUid, StopUid
      <4>3. ~ Program(x)
        BY <4>1 DEF Program, Schedule, SendPacket, IsProgramEvent
      <4> QED
        BY <1>3, <2>6, <4>1, <4>2, <4>3 DEF Loop, Run, RunReturns, CalculateSafeTime,
           ReceiveNonBlocking, ReceiveBlocking, Goto
    <3>4. Stopped' \/ ToStop'
      BY <2>3, <3>1, <3>2, <3>3
    <3> QED
      BY <2>1, <2>2, <3>4 DEF Stops
  <2> QED
    BY <2>4, <2>5, <2>6
<1> QED
  BY <1>1, <1>2, <1>3 DEF Next

\* The safe time of x is fresh whenever x looks for its next event.
LEMMA LimitedStep ==
  ASSUME OneLinkEach, GInv, NEW x \in Rank, Limited(x), [Next]_vars
  PROVE  Limited(x)'
<1>0. TypeOK /\ Window(x)
  BY DEF GInv, IInv
<1>1. CASE UNCHANGED vars
  BY <1>1 DEF Limited, vars, bundleVars
<1>2. ASSUME NEW a \in Rank, Loop(a) \/ Program(a), a # x PROVE Limited(x)'
  <2>1. /\ UNCHANGED <<pc[x], m_safeTime[x]>>
        /\ \A s \in Neighbours(x) : UNCHANGED m_guaranteeTime[<<x, s>>]
    BY <1>0, <1>2, OthersUnchanged
  <2> QED
    BY <2>1 DEF Limited
<1>3. CASE CalculateSafeTime(x)
  <2>1. /\ UNCHANGED m_guaranteeTime
        /\ \/ m_safeTime'[x] = Infinity
           \/ \E s \in Neighbours(x) : m_safeTime'[x] = m_guaranteeTime[<<x, s>>]
    BY <1>0, <1>3, SafeTimeGrows
  <2> QED
    BY <2>1 DEF Limited
<1>4. CASE Run(x)
  <2>1. pc[x] = "start" /\ UNCHANGED <<m_guaranteeTime, m_safeTime>>
    BY <1>4 DEF Run, Goto, bundleVars
  <2> QED
    BY <2>1 DEF Limited
<1>5. ASSUME Loop(x) \/ Program(x), ~ CalculateSafeTime(x), ~ Run(x) PROVE pc'[x] \notin {"start", "loop"}
  BY <1>0, <1>5 DEF Loop, Program, RunReturns, ProcessOneEvent, ReceiveNonBlocking, ReceiveBlocking,
     NullMessageEventHandler, Schedule, SendPacket, EventReturns, Goto, TypeOK
<1>6. CASE Loop(x) \/ Program(x)
  BY <1>3, <1>4, <1>5, <1>6 DEF Limited
<1> QED
  BY <1>1, <1>2, <1>6 DEF Next

-----------------------------------------------------------------------------
(* What was given lasts. *)

LEMMA GivenGrows ==
  ASSUME OneLinkEach, GInv, [Next]_vars, NEW r \in Rank, NEW s \in Neighbours(r)
  PROVE  Given(r, s) \in Nat /\ Given(r, s)' \in Nat /\ Given(r, s) <= Given(r, s)'
<1>0. TypeOK /\ TypeOK' /\ Kept(r, s) /\ <<r, s>> \in Bundles /\ <<s, r>> \in Bundles
  BY NextType, NeighboursSymmetric DEF GInv, IInv
<1>1. Given(r, s) \in Nat
  BY <1>0, GivenType
<1>2. Kept(r, s)' /\ Given(r, s) <= Given(r, s)'
  BY KeptStep
<1>3. /\ channel'[<<r, s>>] \in Seq(Message) /\ m_guaranteeTime'[<<s, r>>] \in Nat
      /\ Rising(channel'[<<r, s>>], m_guaranteeTime'[<<s, r>>])
  BY <1>0, <1>2 DEF TypeOK, Kept, Rising
<1>4. Last(channel'[<<r, s>>], m_guaranteeTime'[<<s, r>>]) \in Nat
  BY <1>3, RisingLast
<1> QED
  BY <1>1, <1>2, <1>4 DEF Given

\* The first null message leaves before the first guarantee is reached.
LEMMA RunLasts ==
  ASSUME OneLinkEach, ShortNulls, TypeOK, NEW r \in Rank, Numbers(r), Run(r),
         NEW s \in Neighbours(r), NEW e \in m_events'[r], e.uid = m_nullEventId'[<<r, s>>]
  PROVE  e.ts <= Given(r, s)'
<1> DEFINE n(t) == Cardinality({q \in Neighbours(r) : q < t})
           null(t) == [ts |-> NullDelay[<<r, t>>], uid |-> m_uid[r] + n(t)]
           m == NullMessageWith(BundleDelay(r, s))
<1>0. <<r, s>> \in Bundles /\ m_uid[r] \in Nat
  BY NeighboursSymmetric DEF TypeOK
<1>1. /\ m_events' = [m_events EXCEPT ![r] = @ \cup {null(t) : t \in Neighbours(r)}]
      /\ \A b \in Bundles : b[1] = r => m_nullEventId'[b] = m_uid[r] + n(b[2])
  BY DEF Run
<1>2. channel'[<<r, s>>] = Append(channel[<<r, s>>], m)
  BY <1>0 DEF Run
<1>3. m \in Message /\ m.guarantee = BundleDelay(r, s)
  BY DelayIsNat DEF NullMessageWith, Message
<1>4. \A t \in Neighbours(r) :
        /\ null(t).ts = NullDelay[<<r, t>>] /\ null(t).uid = m_uid[r] + n(t) /\ n(t) \in Nat
        /\ n(t) = n(s) => t = s
  BY NumberOfNeighbour
<1> HIDE DEF n, null, m
<1>5. m_events'[r] = m_events[r] \cup {null(t) : t \in Neighbours(r)}
      /\ m_nullEventId'[<<r, s>>] = m_uid[r] + n(s)
  BY <1>0, <1>1 DEF TypeOK
<1>6. e \notin m_events[r]
  <2>1. \A f \in m_events[r] : f.uid \in Nat /\ f.uid < m_uid[r]
    BY DEF TypeOK, Event, Numbers
  <2> QED
    BY <1>0, <1>4, <1>5, <2>1
<1>7. e = null(s)
  <2>1. PICK t \in Neighbours(r) : e = null(t)
    BY <1>5, <1>6
  <2>2. n(t) = n(s)
    <3> DEFINE u == m_uid[r]
    <3>1. u + n(t) = u + n(s)
      BY <1>4, <1>5, <2>1
    <3>2. u \in Nat /\ n(t) \in Nat /\ n(s) \in Nat
      BY <1>0, <1>4
    <3> HIDE DEF u
    <3> QED
      BY <3>1, <3>2
  <2> QED
    BY <1>4, <2>1, <2>2
<1>8. e.ts <= BundleDelay(r, s)
  BY <1>4, <1>7 DEF ShortNulls
<1>9. Given(r, s)' = BundleDelay(r, s)
  <2>1. channel[<<r, s>>] \in Seq(Message)
    BY <1>0 DEF TypeOK
  <2>2. Last(channel'[<<r, s>>], m_guaranteeTime'[<<s, r>>]) = BundleDelay(r, s)
    BY <1>2, <1>3, <2>1, LastAppend
  <2> QED
    BY <2>2 DEF Given
<1> QED
  BY <1>8, <1>9

\* The next null message leaves before the guarantee of this message is reached.
LEMMA SentLasts ==
  ASSUME OneLinkEach, ShortNulls, TypeOK, Ahead, NEW r \in Rank, Window(r), NEW s \in Neighbours(r),
         NEW S, S \subseteq Event, \A e \in S : m_currentTs[r] <= e.ts,
         NEW m \in Message, IsGreatestBound(r, s, S, m.guarantee),
         channel' = [channel EXCEPT ![<<r, s>>] = Append(@, m)]
  PROVE  m_currentTs[r] + NullDelay[<<r, s>>] <= Given(r, s)'
<1> DEFINE t == m_currentTs[r]
           d == BundleDelay(r, s)
<1>1. /\ t \in Nat /\ d \in Nat /\ NullDelay[<<r, s>>] \in Nat /\ m_safeTime[r] \in Nat
      /\ m.guarantee \in Nat /\ NullDelay[<<r, s>>] <= d /\ \A e \in S : e.ts \in Nat
      /\ <<r, s>> \in Bundles
  BY DelayIsNat, NullDelayIsNat, NeighboursSymmetric DEF TypeOK, ShortNulls, Message, Event
<1>2. IsBound(r, s, S, t + d)
  BY <1>1 DEF IsBound, Window
<1>3. t + d <= m.guarantee
  BY <1>1, <1>2 DEF IsGreatestBound
<1>4. Given(r, s)' = m.guarantee
  <2>1. channel[<<r, s>>] \in Seq(Message) /\ channel'[<<r, s>>] = Append(channel[<<r, s>>], m)
    BY <1>1 DEF TypeOK
  <2>2. Last(channel'[<<r, s>>], m_guaranteeTime'[<<s, r>>]) = m.guarantee
    BY <2>1, LastAppend
  <2> QED
    BY <2>2 DEF Given
<1> QED
  BY <1>1, <1>3, <1>4

LEMMA NullLasts ==
  ASSUME OneLinkEach, ShortNulls, TypeOK, Ahead, NEW r \in Rank, Numbers(r), Window(r),
         NEW s \in Rank, NEW null \in Event, NEW m \in Message, NullEffect(r, s, null, m),
         NEW e \in m_events'[r], e.uid = m_nullEventId'[<<r, s>>]
  PROVE  e.ts <= Given(r, s)'
<1>1. /\ s \in Neighbours(r) /\ null.ts = m_currentTs[r] + NullDelay[<<r, s>>]
      /\ IsGreatestBound(r, s, m_events[r], m.guarantee)
      /\ channel' = [channel EXCEPT ![<<r, s>>] = Append(@, m)]
      /\ m_events'[r] = m_events[r] \cup {null} /\ m_nullEventId'[<<r, s>>] = m_uid[r]
  BY DEF NullEffect
<1>2. m_events[r] \subseteq Event /\ \A f \in m_events[r] : m_currentTs[r] <= f.ts
  BY DEF TypeOK, Ahead
<1>3. null.ts <= Given(r, s)'
  BY <1>1, <1>2, SentLasts
<1>4. e \notin m_events[r]
  <2>1. \A f \in m_events[r] : f.uid \in Nat /\ f.uid < m_uid[r] /\ m_uid[r] \in Nat
    BY DEF TypeOK, Event, Numbers
  <2> QED
    BY <1>1, <2>1
<1> QED
  BY <1>1, <1>3, <1>4

LEMMA SendLasts ==
  ASSUME OneLinkEach, ShortNulls, TypeOK, Ahead, NEW r \in Rank, Numbers(r), Window(r),
         NEW s \in Rank, NEW l \in Links, NEW txTime \in TxTimes,
         NEW complete \in Event, NEW null \in Event, NEW m \in Message,
         SendEffect(r, s, l, txTime, complete, null, m),
         NEW e \in m_events'[r], e.uid = m_nullEventId'[<<r, s>>]
  PROVE  e.ts <= Given(r, s)'
<1>1. /\ s \in Neighbours(r) /\ null.ts = m_currentTs[r] + NullDelay[<<r, s>>]
      /\ complete.ts = m_currentTs[r] + txTime /\ complete.uid = m_uid[r]
      /\ IsGreatestBound(r, s, m_events[r] \cup {complete}, m.guarantee)
      /\ channel' = [channel EXCEPT ![<<r, s>>] = Append(@, m)]
      /\ m_events'[r] = m_events[r] \cup {complete, null} /\ m_nullEventId'[<<r, s>>] = m_uid[r] + 1
  BY DEF SendEffect
<1>2. /\ m_events[r] \cup {complete} \subseteq Event
      /\ \A f \in m_events[r] \cup {complete} : m_currentTs[r] <= f.ts
  <2>1. m_currentTs[r] <= complete.ts
    BY <1>1, TimeAssumption DEF TypeOK
  <2> QED
    BY <2>1 DEF TypeOK, Ahead
<1>3. null.ts <= Given(r, s)'
  BY <1>1, <1>2, SentLasts
<1>4. e \notin m_events[r] \cup {complete}
  <2>1. m_uid[r] \in Nat /\ \A f \in m_events[r] : f.uid \in Nat /\ f.uid < m_uid[r]
    BY DEF TypeOK, Event, Numbers
  <2> QED
    BY <1>1, <2>1
<1> QED
  BY <1>1, <1>3, <1>4

\* A step of r that sends s no guarantee of its own.
LEMMA SameLasts ==
  ASSUME OneLinkEach, GInv, NEW r \in Rank, Loop(r) \/ Program(r), NEW s \in Neighbours(r),
         pc[r] # "start", Lasting(r, s), UNCHANGED m_nullEventId[<<r, s>>],
         NEW e \in m_events'[r], e.uid = m_nullEventId'[<<r, s>>]
  PROVE  e.ts <= Given(r, s)'
<1>1. TypeOK /\ Numbers(r)
  BY DEF GInv, IInv
<1>2. e \in m_events[r]
  <2>1. m_nullEventId[<<r, s>>] < m_uid[r] /\ m_nullEventId[<<r, s>>] \in Nat /\ m_uid[r] \in Nat
    BY <1>1, NeighboursSymmetric DEF TypeOK, Numbers
  <2> QED
    BY <1>1, <2>1, NewEvents
<1>3. e.ts <= Given(r, s) /\ e.ts \in Nat
  BY <1>1, <1>2 DEF Lasting, TypeOK, Event
<1>4. Given(r, s) \in Nat /\ Given(r, s)' \in Nat /\ Given(r, s) <= Given(r, s)'
  BY GivenGrows DEF Next
<1> QED
  BY <1>3, <1>4

\* When r returns from Run, what it gave lasts to the stop of all.
LEMMA ReturnLasts ==
  ASSUME OneLinkEach, DInv, NEW r \in Rank, RunReturns(r), NEW s \in Neighbours(r)
  PROVE  StopTime[r] <= Given(r, s)
<1>1. /\ TypeOK /\ Ahead /\ Beating(r) /\ Stops(r) /\ Lasting(r, s) /\ Kept(r, s)
      /\ pc[r] = "loop" /\ (m_stop[r] \/ m_events[r] = {})
  BY DEF DInv, GInv, IInv, RunReturns, Goto
<1>2. m_currentTs[r] = StopTime[r]
  BY <1>1 DEF Stops
<1>3. PICK e \in m_events[r] : e.uid = m_nullEventId[<<r, s>>]
  <2>1. Due(r, s)
    BY <1>1 DEF Beating
  <2> QED
    BY <1>1, <2>1 DEF Due
<1>4. m_currentTs[r] <= e.ts /\ e.ts <= Given(r, s)
  <2>1. m_currentTs[r] <= e.ts
    BY <1>1, <1>3 DEF Ahead
  <2>2. pc[r] # "start"
    BY <1>1
  <2>3. e.ts <= Given(r, s)
    BY <1>1, <1>3, <2>2 DEF Lasting
  <2> QED
    BY <2>1, <2>3
<1>5. m_currentTs[r] \in Nat /\ e.ts \in Nat /\ Given(r, s) \in Nat
  <2>1. m_currentTs[r] \in Nat
    BY <1>1 DEF TypeOK
  <2>2. e.ts \in Nat
    BY <1>1, <1>3 DEF TypeOK, Event
  <2>3. Given(r, s) \in Nat
    BY <1>1, GivenType
  <2> QED
    BY <2>1, <2>2, <2>3
<1> QED
  BY <1>2, <1>4, <1>5

LEMMA LastingStep ==
  ASSUME OneLinkEach, ShortNulls, DInv, NEW r \in Rank, NEW s \in Neighbours(r), [Next]_vars
  PROVE  Lasting(r, s)'
<1>0. /\ GInv /\ TypeOK /\ Ahead /\ Numbers(r) /\ Window(r) /\ Lasting(r, s)
      /\ s \in Rank /\ <<r, s>> \in Bundles
  BY NeighboursSymmetric DEF DInv, GInv, IInv
<1>1. Given(r, s) \in Nat /\ Given(r, s)' \in Nat /\ Given(r, s) <= Given(r, s)'
  BY <1>0, GivenGrows
<1>2. \A e \in m_events[r] : e.ts \in Nat
  BY <1>0 DEF TypeOK, Event
<1>3. StopTime[r] \in Nat
  BY TimeAssumption
<1>4. ASSUME UNCHANGED <<pc[r], m_events[r], m_nullEventId[<<r, s>>]>> PROVE Lasting(r, s)'
  BY <1>0, <1>1, <1>2, <1>3, <1>4 DEF Lasting
<1>5. CASE UNCHANGED vars
  BY <1>4, <1>5 DEF vars, eventVars
<1>6. ASSUME NEW a \in Rank, Loop(a) \/ Program(a), a # r PROVE Lasting(r, s)'
  BY <1>0, <1>4, <1>6, OthersUnchanged
<1>7. ASSUME Loop(r) \/ Program(r) PROVE Lasting(r, s)'
  <2>1. ASSUME pc'[r] = "done" PROVE StopTime[r] <= Given(r, s)'
    <3>1. RunReturns(r)
      BY <1>0, <1>7, <2>1 DEF Loop, Program, Run, CalculateSafeTime, ProcessOneEvent,
         ReceiveNonBlocking, ReceiveBlocking, NullMessageEventHandler, Schedule, SendPacket,
         EventReturns, Goto, TypeOK
    <3>2. StopTime[r] <= Given(r, s)
      BY <3>1, ReturnLasts
    <3> QED
      BY <1>1, <1>3, <3>2
  <2>2. ASSUME pc[r] # "start", UNCHANGED m_nullEventId[<<r, s>>],
               NEW e \in m_events'[r], e.uid = m_nullEventId'[<<r, s>>]
        PROVE  e.ts <= Given(r, s)'
    BY <1>0, <1>7, <2>2, SameLasts
  <2>3. ASSUME NEW e \in m_events'[r], e.uid = m_nullEventId'[<<r, s>>] PROVE e.ts <= Given(r, s)'
    <3>1. CASE Run(r)
      BY <1>0, <2>3, <3>1, RunLasts
    <3>2. CASE RunReturns(r) \/ EventReturns(r) \/ CalculateSafeTime(r) \/ ProcessOneEvent(r)
      <4>1. pc[r] # "start" /\ UNCHANGED m_nullEventId
        BY <3>2 DEF RunReturns, EventReturns, CalculateSafeTime, ProcessOneEvent, Goto
      <4> QED
        BY <2>2, <2>3, <4>1
    <3>3. CASE ReceiveNonBlocking(r) \/ ReceiveBlocking(r)
      <4>1. pc[r] # "start" /\ UNCHANGED m_nullEventId
        BY <3>3 DEF ReceiveNonBlocking, ReceiveBlocking, Take, Goto
      <4> QED
        BY <2>2, <2>3, <4>1
    <3>4. ASSUME NEW p \in Rank, NullMessageEventHandler(r, p) PROVE e.ts <= Given(r, s)'
      <4>1. PICK null \in Event, m \in Message : NullEffect(r, p, null, m)
        BY <1>0, <3>4, NullHasEffect
      <4>2. CASE p = s
        BY <1>0, <2>3, <4>1, <4>2, NullLasts
      <4>3. CASE p # s
        <5>1. pc[r] # "start" /\ UNCHANGED m_nullEventId[<<r, s>>]
          BY <4>1, <4>3 DEF NullEffect
        <5> QED
          BY <2>2, <2>3, <5>1
      <4> QED
        BY <4>2, <4>3
    <3>5. ASSUME NEW p \in Rank, NEW l \in Links, NEW txTime \in TxTimes, SendPacket(r, p, l, txTime)
          PROVE  e.ts <= Given(r, s)'
      <4>1. PICK complete, null \in Event, m \in Message : SendEffect(r, p, l, txTime, complete, null, m)
        BY <1>0, <3>5, SendPacketEffect
      <4>2. CASE p = s
        BY <1>0, <2>3, <4>1, <4>2, SendLasts
      <4>3. CASE p # s
        <5>1. pc[r] # "start" /\ UNCHANGED m_nullEventId[<<r, s>>]
          BY <4>1, <4>3 DEF SendEffect
        <5> QED
          BY <2>2, <2>3, <5>1
      <4> QED
        BY <4>2, <4>3
    <3>6. CASE \E d \in Delays : Schedule(r, d)
      <4>1. pc[r] # "start" /\ UNCHANGED m_nullEventId
        BY <3>6 DEF Schedule
      <4> QED
        BY <2>2, <2>3, <4>1
    <3> QED
      BY <1>7, <3>1, <3>2, <3>3, <3>4, <3>5, <3>6 DEF Loop, Program
  <2> QED
    BY <2>1, <2>3 DEF Lasting
<1> QED
  BY <1>5, <1>6, <1>7 DEF Next

LEMMA NextDInv == Setting /\ DInv /\ [Next]_vars => DInv'
<1> SUFFICES ASSUME Setting, DInv, [Next]_vars PROVE DInv'
  OBVIOUS
<1>0. OneLinkEach /\ ShortNulls /\ GInv /\ IInv
  BY DEF Setting, DInv, GInv
<1>1. GInv'
  BY <1>0, NextGInv
<1>2. \A r \in Rank : Stops(r)' /\ Limited(r)'
  BY <1>0, StopsStep, LimitedStep DEF DInv
<1>3. \A r \in Rank : \A s \in Neighbours(r) : Lasting(r, s)'
  BY <1>0, LastingStep
<1> QED
  BY <1>1, <1>2, <1>3 DEF DInv

LEMMA DInvariance == ASSUME Setting PROVE Spec => []DInv
<1>1. Init => DInv
  BY InitDInv
<1>2. DInv /\ [Next]_vars => DInv'
  BY NextDInv
<1> QED
  BY <1>1, <1>2, PTL DEF Spec

-----------------------------------------------------------------------------
(* The theorem. *)

\* Of some ranks, one has the least safe time.
LEMMA LeastSafeTime ==
  ASSUME TypeOK, NEW W, W \subseteq Rank, W # {}
  PROVE  \E w \in W : \A x \in W : ~ (m_safeTime[x] < m_safeTime[w])
<1> DEFINE Below(w) == {x \in W : m_safeTime[x] < m_safeTime[w]}
           T == {Below(w) : w \in W}
           R == StrictSubsetOrdering(Rank)
<1>1. \A w \in W : w \in Rank /\ m_safeTime[w] \in Nat
  BY DEF TypeOK
<1>2. IsWellFoundedOn(R, SUBSET Rank)
  <2>1. FiniteSubsetsOf(Rank) = SUBSET Rank
    BY RankAssumption, FS_FiniteSubsetsOfFinite
  <2>2. IsWellFoundedOn(StrictSubsetOrdering(Rank), FiniteSubsetsOf(Rank))
    BY FS_StrictSubsetOrderingWellFounded
  <2> QED
    BY <2>1, <2>2
<1>3. T \subseteq SUBSET Rank /\ T # {}
  OBVIOUS
<1> HIDE DEF R, T
<1>4. PICK B \in T : \A C \in T : ~ (<<C, B>> \in R)
  BY <1>2, <1>3, WFMin
<1> USE DEF T
<1>5. PICK w \in W : B = Below(w)
  BY <1>4
<1>6. ASSUME NEW x \in W, m_safeTime[x] < m_safeTime[w] PROVE FALSE
  <2>1. Below(x) \in T /\ Below(x) \subseteq Rank /\ Below(w) \subseteq Rank
    BY <1>1
  <2>2. Below(x) \subseteq Below(w)
    <3>1. ASSUME NEW y \in W, m_safeTime[y] < m_safeTime[x] PROVE m_safeTime[y] < m_safeTime[w]
      <4>1. m_safeTime[y] \in Nat /\ m_safeTime[x] \in Nat /\ m_safeTime[w] \in Nat
        BY <1>1
      <4> QED
        BY <1>6, <3>1, <4>1
    <3> QED
      BY <3>1
  <2>3. x \in Below(w) /\ x \notin Below(x)
    <3>1. ~ (m_safeTime[x] < m_safeTime[x])
      BY <1>1
    <3> QED
      BY <1>6, <3>1
  <2>4. <<Below(x), Below(w)>> \in R
    BY <2>1, <2>2, <2>3 DEF R, StrictSubsetOrdering
  <2> QED
    BY <1>4, <1>5, <2>1, <2>4
<1> QED
  BY <1>6

\* A rank that waits does so for a neighbour that can go on, or whose own safe time
\* lies before its own.
LEMMA WaitsForEarlier ==
  ASSUME Setting, DInv, NEW w \in Rank, Waiting(w)
  PROVE  \E s \in Neighbours(w) :
           pc[s] # "done" /\ (Waiting(s) => m_safeTime[s] < m_safeTime[w])
<1>0. /\ OneLinkEach /\ TypeOK /\ GInv /\ Ahead
      /\ \A r \in Rank : Stops(r) /\ Limited(r) /\ Beating(r)
  BY DEF Setting, DInv, GInv, IInv
<1>1. PICK next \in m_events[w] :
        IsNext(next, m_events[w]) /\ m_safeTime[w] < next.ts /\ pc[w] = "loop" /\ ~ m_stop[w]
  BY DEF Waiting
<1>2. /\ m_safeTime[w] \in Nat /\ StopTime[w] \in Nat /\ Infinity \in Nat
      /\ \A r \in Rank : \A e \in m_events[r] : e.ts \in Nat
  BY <1>0, TimeAssumption DEF TypeOK, Event
<1>3. m_safeTime[w] < StopTime[w]
  <2>1. PICK e \in m_events[w] : e.ts = StopTime[w]
    BY <1>0, <1>1 DEF Stops
  <2>2. next.ts <= e.ts
    BY <1>1, <1>2, <2>1 DEF IsNext, Before
  <2> QED
    BY <1>1, <1>2, <2>1, <2>2
<1>4. m_safeTime[w] # Infinity
  BY <1>2, <1>3 DEF Setting, SameStop
<1>5. PICK s \in Neighbours(w) : m_safeTime[w] = m_guaranteeTime[<<w, s>>]
  BY <1>0, <1>1, <1>4 DEF Limited
<1>6. s \in Rank /\ w \in Neighbours(s) /\ channel[<<s, w>>] = <<>>
  BY NeighboursSymmetric DEF Waiting
<1>7. Given(s, w) = m_safeTime[w] /\ Lasting(s, w)
  BY <1>5, <1>6 DEF Given, Last, DInv
<1>8. pc[s] # "done"
  <2>1. StopTime[s] = StopTime[w]
    BY <1>6 DEF Setting, SameStop
  <2> QED
    BY <1>2, <1>3, <1>7, <2>1 DEF Lasting
<1>9. ASSUME Waiting(s) PROVE m_safeTime[s] < m_safeTime[w]
  <2>1. PICK first \in m_events[s] :
          IsNext(first, m_events[s]) /\ m_safeTime[s] < first.ts /\ pc[s] = "loop"
    BY <1>9 DEF Waiting
  <2>2. Due(s, w)
    BY <1>0, <1>6, <2>1 DEF Beating
  <2>3. PICK e \in m_events[s] : e.uid = m_nullEventId[<<s, w>>]
    BY <2>1, <2>2 DEF Due
  <2>4. e.ts <= m_safeTime[w]
    BY <1>7, <2>1, <2>3 DEF Lasting
  <2>5. e.ts \in Nat /\ first.ts \in Nat /\ m_safeTime[s] \in Nat
    BY <1>0, <1>2, <1>6 DEF TypeOK
  <2>6. first.ts <= e.ts
    BY <2>1, <2>3, <2>5 DEF IsNext, Before
  <2> QED
    BY <1>2, <2>1, <2>4, <2>5, <2>6
<1> QED
  BY <1>8, <1>9

\* The ranks never all wait for each other, nor for one that has stopped.
THEOREM DeadlockFree == ASSUME Setting PROVE Spec => []NoDeadlock
<1>1. DInv => NoDeadlock
  <2> SUFFICES ASSUME DInv, NEW r \in Rank, pc[r] # "done",
                      \A x \in Rank : pc[x] # "done" => Waiting(x)
               PROVE  FALSE
    BY DEF NoDeadlock
  <2> DEFINE W == {x \in Rank : Waiting(x)}
  <2>1. PICK w \in W : \A x \in W : ~ (m_safeTime[x] < m_safeTime[w])
    <3>1. W \subseteq Rank /\ r \in W /\ TypeOK
      BY DEF DInv, GInv, IInv
    <3> HIDE DEF W
    <3> QED
      BY <3>1, LeastSafeTime
  <2>2. PICK s \in Neighbours(w) : pc[s] # "done" /\ (Waiting(s) => m_safeTime[s] < m_safeTime[w])
    BY WaitsForEarlier
  <2>3. s \in W /\ m_safeTime[s] < m_safeTime[w]
    BY <2>2, NeighboursSymmetric
  <2> QED
    BY <2>1, <2>3
<1> QED
  BY <1>1, DInvariance, PTL
=============================================================================
