---------------------- MODULE GrantedTimeWindowProofs ----------------------
(***************************************************************************)
(* Proofs about GrantedTimeWindow, for any number of ranks, any graph of   *)
(* links with any delays (zero included), any look-ahead set by the        *)
(* program and any order in which MPI delivers.                            *)
(***************************************************************************)
EXTENDS GrantedTimeWindow, TLAPS, FiniteSetTheorems

-----------------------------------------------------------------------------
(* The inductive invariants. *)

\* The look-ahead of a rank is at most the delay of each of its links.
LookAheadBound == \A l \in Links : \A r \in l.ends : m_lookAhead[r] <= l.delay

Finite == IsFiniteSet(sent) /\ \A m \in sent : m.to \in m.link.ends

Endless(r) == m_lookAhead[r] = Infinity => m_grantedTime[r] = Infinity

\* The window: floor is the time no rank can send from the past of.  No rank has
\* been granted more than its look-ahead beyond the floor; what a rank may still
\* run lies at the floor or after it; and what is under way left at the floor or
\* after it, so that it arrives a link's delay later.
Granted(floor) == \A r \in Rank : m_grantedTime[r] <= floor + m_lookAhead[r]

Ahead(floor) ==
  \A r \in Rank :
    /\ pc[r] = "event" => floor <= m_currentTs[r]
    /\ ~ m_stop[r] => \A e \in m_events[r] : floor <= e.ts

Coming(floor) == \A m \in InFlight : floor + m.link.delay <= m.rxTime

\* Ranks that have the answer of MPI_Allgather but have not looked at it will
\* find the floor in it, if they find anything to grant themselves.
Deciding(floor) ==
  (\E r \in Rank : pc[r] = "decide") /\ m_pLBTS.totRx = m_pLBTS.totTx =>
    \A x \in Times : IsLeast(x, {m_pLBTS.next[s] : s \in Rank}) => x = floor

Window(floor) == Granted(floor) /\ Ahead(floor) /\ Coming(floor) /\ Deciding(floor)

\* Each rank stays within its granted time, with its events before it.
Local ==
  \A r \in Rank :
    /\ m_currentTs[r] <= m_grantedTime[r]
    /\ \A e \in m_events[r] : m_currentTs[r] <= e.ts

IInv ==
  /\ TypeOK /\ LookAheadBound /\ Finite /\ Local
  /\ \A r \in Rank : Endless(r)
  /\ \E floor \in Times : Window(floor)

\* A packet that is under way lies in the future of the rank it is sent to.
LEMMA InFlightAhead ==
  IInv => \A m \in InFlight : m_grantedTime[m.to] <= m.rxTime /\ m_currentTs[m.to] <= m.rxTime
<1> SUFFICES ASSUME IInv, NEW m \in InFlight
             PROVE  m_grantedTime[m.to] <= m.rxTime /\ m_currentTs[m.to] <= m.rxTime
  OBVIOUS
<1>1. PICK floor \in Times : floor \in Nat /\ Window(floor)
  BY LinksAssumption DEF IInv, Times
<1>2. m \in sent /\ m.to \in Rank /\ m.link \in Links /\ m.to \in m.link.ends /\ m.rxTime \in Nat
  BY DEF IInv, TypeOK, Finite, InFlight, Message
<1>3. m.link.delay \in Nat
  BY <1>2, LinksAssumption
<1>4. m_lookAhead[m.to] <= m.link.delay
  BY <1>2 DEF IInv, LookAheadBound
<1>5. m_grantedTime[m.to] <= floor + m_lookAhead[m.to]
  BY <1>1, <1>2 DEF Window, Granted
<1>6. floor + m.link.delay <= m.rxTime
  BY <1>1 DEF Window, Coming
<1>7. m_grantedTime[m.to] \in Nat /\ m_lookAhead[m.to] \in Nat /\ m_currentTs[m.to] \in Nat
  BY <1>2 DEF IInv, TypeOK
<1>8. m_currentTs[m.to] <= m_grantedTime[m.to]
  BY <1>2 DEF IInv, Local
<1> QED
  BY <1>1, <1>2, <1>3, <1>4, <1>5, <1>6, <1>7, <1>8

\* The look-ahead the ranks compute is a bound on the delays of their links.
LEMMA LookAheadIsBound ==
  ASSUME NEW la \in [Rank -> Times], IsLookAhead(la)
  PROVE  \A l \in Links : \A r \in l.ends : la[r] <= l.delay
<1>1. PICK own \in [Rank -> Times] :
        LET sendbuf(r) == IF own[r] = Infinity THEN 0 ELSE own[r] IN
        /\ \A r \in Rank : IsLeast(own[r], LinkDelays(r) \cup {MaximumLookAhead})
        /\ \E s \in Rank :
             /\ \A t \in Rank : sendbuf(t) <= sendbuf(s)
             /\ \A r \in Rank :
                  la[r] = IF own[r] = Infinity /\ sendbuf(s) # 0 THEN sendbuf(s) ELSE own[r]
  BY DEF IsLookAhead
<1> SUFFICES ASSUME NEW l \in Links, NEW r \in l.ends PROVE la[r] <= l.delay
  OBVIOUS
<1>2. r \in Rank /\ l.delay \in Nat /\ l.delay < Infinity /\ Infinity \in Nat
  BY LinksAssumption
<1>3. l.delay \in LinkDelays(r)
  BY DEF LinkDelays
<1>4. own[r] <= l.delay
  BY <1>1, <1>2, <1>3 DEF IsLeast
<1>5. own[r] # Infinity /\ own[r] \in Nat
  BY <1>2, <1>4 DEF Times
<1>6. la[r] = own[r]
  BY <1>1, <1>2, <1>5
<1> QED
  BY <1>4, <1>6

-----------------------------------------------------------------------------
(* The initial states. *)

\* Before the first window the floor is zero.
LEMMA InitIInv == Init => IInv
<1> SUFFICES ASSUME Init PROVE IInv
  OBVIOUS
<1>1. Infinity \in Nat /\ FirstUid \in Nat
  BY LinksAssumption DEF FirstUid
<1>2. \A r \in Rank : m_lookAhead[r] \in Nat
  BY <1>1 DEF Init, Times
<1>3. \A r \in Rank : \A e \in m_events[r] : e \in [ts : 0..(Infinity - 1), uid : Nat]
  BY <1>1, ProgramAssumption DEF Init
<1>4. TypeOK
  <2>1. m_events \in [Rank -> SUBSET [ts : 0..(Infinity - 1), uid : Nat]]
    BY <1>3 DEF Init
  <2>2. m_pLBTS \in [next : [Rank -> Nat], finished : [Rank -> BOOLEAN], totRx : Nat, totTx : Nat]
    BY <1>1 DEF Init, Times
  <2>3. m_lookAhead \in [Rank -> Nat]
    BY <1>1 DEF Init, Times
  <2> QED
    BY <2>1, <2>2, <2>3, <1>1 DEF Init, TypeOK
<1>5. LookAheadBound
  BY LookAheadIsBound DEF Init, LookAheadBound
<1>6. Finite
  BY FS_EmptySet DEF Init, Finite
<1>7. Local
  <2> SUFFICES ASSUME NEW r \in Rank
               PROVE  /\ m_currentTs[r] <= m_grantedTime[r]
                      /\ \A e \in m_events[r] : m_currentTs[r] <= e.ts
    BY DEF Local
  <2>1. m_currentTs[r] = 0 /\ m_grantedTime[r] = m_lookAhead[r]
    BY DEF Init
  <2> QED
    BY <2>1, <1>1, <1>2, <1>3
<1>8. \A r \in Rank : Endless(r)
  BY DEF Init, Endless
<1>9. Window(0) /\ 0 \in Times
  <2>1. Granted(0)
    BY <1>2 DEF Init, Granted
  <2>2. Ahead(0)
    BY <1>3, <1>1 DEF Init, Ahead
  <2>3. Coming(0) /\ Deciding(0)
    BY DEF Init, Coming, Deciding, InFlight
  <2> QED
    BY <2>1, <2>2, <2>3, <1>1 DEF Window, Times
<1> QED
  BY <1>4, <1>5, <1>6, <1>7, <1>8, <1>9 DEF IInv

-----------------------------------------------------------------------------
(* The steps. *)

\* The clocks, the queues, the window and the messages under way stay as they are,
\* and no rank comes to the body of an event or to a decision.
Quiet ==
  /\ UNCHANGED <<m_lookAhead, m_grantedTime, m_pLBTS, m_events, m_uid, m_currentTs>>
  /\ UNCHANGED <<sent, received>>
  /\ \A r \in Rank : m_stop[r] => m_stop'[r]
  /\ \A r \in Rank : pc'[r] \in {"event", "decide"} => pc'[r] = pc[r]

\* Such a step keeps the invariant, if it keeps the types.
LEMMA QuietStep == ASSUME IInv, TypeOK', Quiet PROVE IInv'
<1>1. LookAheadBound' /\ Finite' /\ Local' /\ (\A r \in Rank : Endless(r)')
  BY DEF IInv, Quiet, LookAheadBound, Finite, Local, Endless
<1>2. PICK floor \in Times : floor \in Nat /\ Window(floor)
  BY LinksAssumption DEF IInv, Times
<1>3. Granted(floor)' /\ Coming(floor)'
  BY <1>2 DEF Window, Quiet, Granted, Coming, InFlight
<1>4. Ahead(floor)'
  BY <1>2 DEF Window, Quiet, Ahead
<1>5. Deciding(floor)'
  BY <1>2 DEF Window, Quiet, Deciding
<1>6. \E f \in Times : Window(f)'
  BY <1>3, <1>4, <1>5 DEF Window
<1> QED
  BY <1>1, <1>6 DEF IInv

\* The steps that are quiet.
LEMMA QuietSteps ==
  ASSUME IInv, NEW r \in Rank,
         EventReturns(r) \/ Synchronize(r) \/ EnterAllgather(r) \/ RunReturns(r) \/ Stop(r)
  PROVE  IInv'
<1> USE DEF IInv
<1>1. TypeOK'
  <2>1. CASE EventReturns(r) \/ Synchronize(r) \/ EnterAllgather(r) \/ RunReturns(r)
    BY <2>1 DEF TypeOK, EventReturns, Synchronize, EnterAllgather, RunReturns, Goto,
                windowVars, rankVars, netVars
  <2>2. CASE Stop(r)
    BY <2>2 DEF TypeOK, Stop, windowVars, netVars
  <2> QED
    BY <2>1, <2>2
<1>2. Quiet
  <2>1. CASE EventReturns(r) \/ Synchronize(r) \/ EnterAllgather(r) \/ RunReturns(r)
    BY <2>1 DEF TypeOK, EventReturns, Synchronize, EnterAllgather, RunReturns, Goto, Quiet,
                windowVars, rankVars, netVars
  <2>2. CASE Stop(r)
    BY <2>2 DEF TypeOK, Stop, Quiet, windowVars, netVars
  <2> QED
    BY <2>1, <2>2
<1> QED
  BY <1>1, <1>2, QuietStep

\* A message arrives: MPI may deliver it, the rank has not taken it in.
LEMMA ArriveStep == ASSUME IInv, NEW m \in sent, Arrive(m) PROVE IInv'
<1>1. TypeOK'
  BY DEF IInv, TypeOK, Arrive, windowVars, rankVars
<1>2. Quiet
  BY DEF Arrive, Quiet, windowVars, rankVars
<1> QED
  BY <1>1, <1>2, QuietStep

\* An event inserted at the current time of the rank or later keeps the queue typed
\* and ahead of the clock; one at the floor or later keeps it ahead of the floor.
LEMMA InsertIsSound ==
  ASSUME TypeOK, Local, NEW r \in Rank, NEW ts \in 0..(Infinity - 1), m_currentTs[r] <= ts,
         Insert(r, ts), UNCHANGED <<m_currentTs, m_grantedTime>>
  PROVE  /\ m_events' \in [Rank -> SUBSET [ts : 0..(Infinity - 1), uid : Nat]]
         /\ m_uid' \in [Rank -> Nat]
         /\ Local'
         /\ \A s \in Rank : \A e \in m_events'[s] : e \in m_events[s] \/ (s = r /\ e.ts = ts)
<1> DEFINE new == [ts |-> ts, uid |-> m_uid[r]]
<1>1. m_events' = [m_events EXCEPT ![r] = @ \cup {new}] /\ m_uid' = [m_uid EXCEPT ![r] = @ + 1]
  BY DEF Insert
<1>2. new \in [ts : 0..(Infinity - 1), uid : Nat] /\ new.ts = ts
  BY DEF TypeOK
<1> HIDE DEF new
<1>3. m_events' \in [Rank -> SUBSET [ts : 0..(Infinity - 1), uid : Nat]]
  BY <1>1, <1>2 DEF TypeOK
<1>4. m_uid' \in [Rank -> Nat]
  BY <1>1 DEF TypeOK
<1>5. \A s \in Rank : \A e \in m_events'[s] : e \in m_events[s] \/ (s = r /\ e.ts = ts)
  BY <1>1, <1>2 DEF TypeOK
<1>6. Local'
  BY <1>5 DEF Local
<1> QED
  BY <1>3, <1>4, <1>5, <1>6

\* A rank takes the earliest of its events within the window.
LEMMA ProcessOneEventStep == ASSUME IInv, NEW r \in Rank, ProcessOneEvent(r) PROVE IInv'
<1>1. PICK next \in m_events[r] :
        /\ IsNext(next, m_events[r])
        /\ next.ts <= m_grantedTime[r]
        /\ m_events' = [m_events EXCEPT ![r] = @ \ {next}]
        /\ m_currentTs' = [m_currentTs EXCEPT ![r] = next.ts]
  BY DEF ProcessOneEvent
<1>2. /\ pc' = [pc EXCEPT ![r] = "event"] /\ ~ m_stop[r]
      /\ UNCHANGED <<m_lookAhead, m_grantedTime, m_globalFinished, m_pLBTS, m_uid, m_stop>>
      /\ UNCHANGED <<sent, arrived, received>>
  BY DEF ProcessOneEvent, Goto, IsLocalFinished, windowVars, netVars
<1>3. \A s \in Rank : \A e \in m_events[s] : e.ts \in Nat
  BY LinksAssumption DEF IInv, TypeOK
<1>4. \A e \in m_events[r] : next.ts <= e.ts
  BY <1>1, <1>3 DEF IsNext, Before
<1>5. TypeOK'
  BY <1>1, <1>2, <1>3 DEF IInv, TypeOK
<1>6. Local'
  BY <1>1, <1>2, <1>4 DEF IInv, TypeOK, Local
<1>7. LookAheadBound' /\ Finite' /\ (\A s \in Rank : Endless(s)')
  BY <1>2 DEF IInv, LookAheadBound, Finite, Endless
<1>8. PICK floor \in Times : floor \in Nat /\ Window(floor)
  BY LinksAssumption DEF IInv, Times
<1>9. Granted(floor)' /\ Coming(floor)'
  BY <1>2, <1>8 DEF Window, Granted, Coming, InFlight
<1>10. Ahead(floor)'
  <2>1. floor <= next.ts
    BY <1>2, <1>8 DEF Window, Ahead
  <2> QED
    BY <1>1, <1>2, <1>8, <2>1 DEF Window, Ahead, IInv, TypeOK
<1>11. Deciding(floor)'
  BY <1>2, <1>8 DEF Window, Deciding, IInv, TypeOK
<1> QED
  BY <1>5, <1>6, <1>7, <1>8, <1>9, <1>10, <1>11 DEF IInv, Window

\* The body of an event schedules another one.
LEMMA ScheduleStep == ASSUME IInv, NEW r \in Rank, NEW d \in Delays, Schedule(r, d) PROVE IInv'
<1>1. /\ pc[r] = "event" /\ Insert(r, m_currentTs[r] + d)
      /\ UNCHANGED <<pc, m_lookAhead, m_grantedTime, m_globalFinished, m_pLBTS, m_currentTs, m_stop>>
      /\ UNCHANGED <<sent, arrived, received>>
  BY DEF Schedule, windowVars, netVars
<1>2. m_currentTs[r] + d \in 0..(Infinity - 1) /\ m_currentTs[r] <= m_currentTs[r] + d
  BY ProgramAssumption, LinksAssumption DEF Schedule, IInv, TypeOK
<1>3. /\ m_events' \in [Rank -> SUBSET [ts : 0..(Infinity - 1), uid : Nat]]
      /\ m_uid' \in [Rank -> Nat] /\ Local'
      /\ \A s \in Rank : \A e \in m_events'[s] :
           e \in m_events[s] \/ (s = r /\ e.ts = m_currentTs[r] + d)
  BY <1>1, <1>2, InsertIsSound DEF IInv
<1>4. TypeOK'
  BY <1>1, <1>3 DEF IInv, TypeOK
<1>5. LookAheadBound' /\ Finite' /\ (\A s \in Rank : Endless(s)')
  BY <1>1 DEF IInv, LookAheadBound, Finite, Endless
<1>6. PICK floor \in Times : floor \in Nat /\ Window(floor)
  BY LinksAssumption DEF IInv, Times
<1>7. Granted(floor)' /\ Coming(floor)' /\ Deciding(floor)'
  BY <1>1, <1>6 DEF Window, Granted, Coming, InFlight, Deciding
<1>8. Ahead(floor)'
  <2>1. floor <= m_currentTs[r] + d
    BY <1>1, <1>2, <1>6 DEF Window, Ahead, IInv, TypeOK
  <2> QED
    BY <1>1, <1>3, <1>6, <2>1 DEF Window, Ahead
<1> QED
  BY <1>3, <1>4, <1>5, <1>6, <1>7, <1>8 DEF IInv, Window

\* A rank takes in a message: its event lies at the granted time or after it.
LEMMA ReceiveMessageStep == ASSUME IInv, NEW r \in Rank, ReceiveMessage(r) PROVE IInv'
<1>1. PICK m \in arrived \ received :
        m.to = r /\ received' = received \cup {m} /\ Insert(r, m.rxTime)
  BY DEF ReceiveMessage
<1>2. /\ UNCHANGED <<pc, m_lookAhead, m_grantedTime, m_globalFinished, m_pLBTS, m_currentTs, m_stop>>
      /\ UNCHANGED <<sent, arrived>>
  BY DEF ReceiveMessage, windowVars
<1>3. m \in InFlight /\ m \in Message
  BY <1>1 DEF IInv, TypeOK, InFlight
<1>4. m.rxTime \in 0..(Infinity - 1) /\ m.link \in Links
  BY <1>3 DEF Message
<1>5. m_currentTs[r] <= m.rxTime
  BY <1>1, <1>3, InFlightAhead
<1>6. /\ m_events' \in [Rank -> SUBSET [ts : 0..(Infinity - 1), uid : Nat]]
      /\ m_uid' \in [Rank -> Nat] /\ Local'
      /\ \A s \in Rank : \A e \in m_events'[s] : e \in m_events[s] \/ (s = r /\ e.ts = m.rxTime)
  BY <1>1, <1>2, <1>4, <1>5, InsertIsSound DEF IInv
<1>7. TypeOK'
  BY <1>1, <1>2, <1>6 DEF IInv, TypeOK
<1>8. LookAheadBound' /\ Finite' /\ (\A s \in Rank : Endless(s)')
  BY <1>2 DEF IInv, LookAheadBound, Finite, Endless
<1>9. PICK floor \in Times : floor \in Nat /\ Window(floor)
  BY LinksAssumption DEF IInv, Times
<1>10. Granted(floor)' /\ Coming(floor)' /\ Deciding(floor)'
  BY <1>1, <1>2, <1>9 DEF Window, Granted, Coming, InFlight, Deciding
<1>11. Ahead(floor)'
  <2>1. floor <= m.rxTime
    BY <1>3, <1>4, <1>9, LinksAssumption DEF Window, Coming
  <2> QED
    BY <1>2, <1>6, <1>9, <2>1 DEF Window, Ahead
<1> QED
  BY <1>6, <1>7, <1>8, <1>9, <1>10, <1>11 DEF IInv, Window

\* The body of an event sends a packet: from the floor or later, so that it is
\* received a link's delay after the floor or later.
LEMMA SendPacketStep ==
  ASSUME IInv, NEW r \in Rank, NEW l \in Links, NEW d \in Delays, SendPacket(r, l, d)
  PROVE  IInv'
<1> DEFINE rxTime == m_currentTs[r] + d + l.delay
<1>1. PICK s \in l.ends \ {r} :
        /\ rxTime < Infinity
        /\ sent' = sent \cup {[to |-> s, link |-> l, rxTime |-> rxTime, n |-> Cardinality(sent) + 1]}
  BY DEF SendPacket
<1> DEFINE m == [to |-> s, link |-> l, rxTime |-> rxTime, n |-> Cardinality(sent) + 1]
<1>2. /\ pc[r] = "event" /\ Cardinality(sent) < MaxMessages
      /\ UNCHANGED <<pc, m_lookAhead, m_grantedTime, m_globalFinished, m_pLBTS>>
      /\ UNCHANGED <<m_events, m_uid, m_currentTs, m_stop, arrived, received>>
  BY DEF SendPacket, windowVars, rankVars
<1>3. m_currentTs[r] \in Nat /\ d \in Nat /\ l.delay \in Nat /\ Infinity \in Nat /\ s \in Rank
  BY LinksAssumption, ProgramAssumption DEF IInv, TypeOK
<1>4. Cardinality(sent) \in Nat
  BY FS_CardinalityType DEF IInv, Finite
<1>5. rxTime \in 0..(Infinity - 1)
  BY <1>1, <1>3
<1>6. m \in Message /\ m.to = s /\ m.link = l /\ m.rxTime = rxTime
  BY <1>2, <1>3, <1>4, <1>5, ProgramAssumption DEF Message
<1> HIDE DEF m
<1>7. sent' = sent \cup {m}
  BY <1>1 DEF m
<1>8. TypeOK'
  BY <1>2, <1>6, <1>7 DEF IInv, TypeOK
<1>9. Finite'
  BY <1>6, <1>7, FS_AddElement DEF IInv, Finite
<1>10. LookAheadBound' /\ Local' /\ (\A q \in Rank : Endless(q)')
  BY <1>2 DEF IInv, LookAheadBound, Local, Endless
<1>11. PICK floor \in Times : floor \in Nat /\ Window(floor)
  BY LinksAssumption DEF IInv, Times
<1>12. Granted(floor)' /\ Ahead(floor)' /\ Deciding(floor)'
  BY <1>2, <1>11 DEF Window, Granted, Ahead, Deciding
<1>13. floor <= m_currentTs[r]
  BY <1>2, <1>11 DEF Window, Ahead
<1>14. floor + m.link.delay <= m.rxTime
  BY <1>3, <1>6, <1>11, <1>13
<1>15. Coming(floor)'
  BY <1>2, <1>7, <1>11, <1>14 DEF Window, Coming, InFlight
<1> QED
  BY <1>8, <1>9, <1>10, <1>11, <1>12, <1>15 DEF IInv, Window

\* MPI_Allgather raises the floor to the earliest of the next event times, when
\* the counts say that nothing is under way.
LEMMA AllgatherStep == ASSUME IInv, Allgather PROVE IInv'
<1>1. PICK next \in [Rank -> Times] :
        /\ \A r \in Rank : IsNextTime(r, next[r])
        /\ m_pLBTS' = [next |-> next,
                       finished |-> [r \in Rank |-> IsLocalFinished(r)],
                       totRx |-> Cardinality(received),
                       totTx |-> Cardinality(sent)]
  BY DEF Allgather
<1>2. /\ \A r \in Rank : pc[r] = "gather"
      /\ pc' = [r \in Rank |-> "decide"]
      /\ UNCHANGED <<m_lookAhead, m_grantedTime, m_globalFinished>>
      /\ UNCHANGED <<m_events, m_uid, m_currentTs, m_stop, sent, arrived, received>>
  BY DEF Allgather, rankVars, netVars
<1>3. IsFiniteSet(sent) /\ received \in SUBSET sent
  BY DEF IInv, TypeOK, Finite
<1>4. Cardinality(received) \in Nat /\ Cardinality(sent) \in Nat
  BY <1>3, FS_Subset, FS_CardinalityType
<1>5. TypeOK'
  <2>1. next \in [Rank -> Nat]
    BY LinksAssumption DEF Times
  <2>2. [r \in Rank |-> IsLocalFinished(r)] \in [Rank -> BOOLEAN]
    BY DEF IsLocalFinished, IInv, TypeOK
  <2>3. m_pLBTS' \in [next : [Rank -> Nat], finished : [Rank -> BOOLEAN], totRx : Nat, totTx : Nat]
    BY <1>1, <1>4, <2>1, <2>2
  <2> QED
    BY <1>2, <2>3 DEF IInv, TypeOK
<1>6. LookAheadBound' /\ Finite' /\ Local' /\ (\A r \in Rank : Endless(r)')
  BY <1>2 DEF IInv, LookAheadBound, Finite, Local, Endless
<1>7. PICK floor \in Times : floor \in Nat /\ Window(floor)
  BY LinksAssumption DEF IInv, Times
<1>8. Granted(floor)' /\ Ahead(floor)' /\ Coming(floor)'
  BY <1>2, <1>7 DEF Window, Granted, Ahead, Coming, InFlight
<1> DEFINE nexts == {next[s] : s \in Rank}
<1>9. {m_pLBTS'.next[s] : s \in Rank} = nexts
  BY <1>1
<1> HIDE DEF nexts
<1>10. CASE Cardinality(received) = Cardinality(sent) /\ \E x \in Times : IsLeast(x, nexts)
  <2>1. PICK x \in Times : IsLeast(x, nexts)
    BY <1>10
  <2>2. x \in Nat /\ \A s \in Rank : x <= next[s] /\ next[s] \in Nat
    BY <2>1, LinksAssumption DEF IsLeast, nexts, Times
  <2>3. received = sent
    BY <1>3, <1>10, FS_Subset
  <2>4. Coming(x)'
    BY <1>2, <2>3 DEF Coming, InFlight
  <2>5. \A r \in Rank : ~ m_stop[r] => \A e \in m_events[r] : e.ts \in Nat /\ x <= e.ts
    <3> SUFFICES ASSUME NEW r \in Rank, ~ m_stop[r], NEW e \in m_events[r]
                 PROVE  e.ts \in Nat /\ x <= e.ts
      OBVIOUS
    <3>1. \A f \in m_events[r] : f.ts \in Nat
      BY LinksAssumption DEF IInv, TypeOK
    <3>2. IsNextTime(r, next[r]) /\ ~ IsLocalFinished(r)
      BY <1>1 DEF IsLocalFinished
    <3>3. next[r] <= e.ts
      BY <3>2 DEF IsNextTime
    <3> QED
      BY <2>2, <3>1, <3>3
  <2>6. Ahead(x)'
    BY <1>2, <2>5 DEF Ahead
  <2>7. floor <= x
    <3>1. PICK s \in Rank : x = next[s]
      BY <2>1 DEF IsLeast, nexts
    <3>2. IsNextTime(s, next[s])
      BY <1>1
    <3>3. CASE IsLocalFinished(s)
      \* x is Infinity: all the ranks are finished
      BY <1>7, <3>1, <3>2, <3>3, LinksAssumption DEF IsNextTime, Times
    <3>4. CASE ~ IsLocalFinished(s)
      BY <1>7, <3>1, <3>2, <3>4 DEF IsNextTime, IsLocalFinished, Window, Ahead
    <3> QED
      BY <3>3, <3>4
  <2>8. Granted(x)'
    BY <1>2, <1>7, <2>2, <2>7 DEF Window, Granted, IInv, TypeOK
  <2>9. Deciding(x)'
    <3>1. \A y \in Times : IsLeast(y, nexts) => y = x
      BY <2>1, LinksAssumption DEF IsLeast, Times
    <3> QED
      BY <1>9, <3>1 DEF Deciding
  <2>10. \E f \in Times : Window(f)'
    BY <2>4, <2>6, <2>8, <2>9 DEF Window
  <2> QED
    BY <1>5, <1>6, <2>10 DEF IInv
<1>11. CASE ~ (Cardinality(received) = Cardinality(sent) /\ \E x \in Times : IsLeast(x, nexts))
  <2>1. Deciding(floor)'
    BY <1>1, <1>9, <1>11 DEF Deciding
  <2> QED
    BY <1>5, <1>6, <1>7, <1>8, <2>1 DEF IInv, Window
<1> QED
  BY <1>10, <1>11

\* A rank draws its conclusion: the time it grants itself is its look-ahead beyond
\* the floor, and never less than what it had.
LEMMA DecideStep == ASSUME IInv, NEW r \in Rank, Decide(r) PROVE IInv'
<1>1. /\ pc[r] = "decide" /\ pc' = [pc EXCEPT ![r] = "loop"]
      /\ m_globalFinished' = [m_globalFinished EXCEPT ![r] = \A s \in Rank : m_pLBTS.finished[s]]
      /\ UNCHANGED <<m_lookAhead, m_pLBTS, m_events, m_uid, m_currentTs, m_stop>>
      /\ UNCHANGED <<sent, arrived, received>>
  BY DEF Decide, Goto, rankVars, netVars
<1>2. PICK floor \in Times : floor \in Nat /\ Window(floor)
  BY LinksAssumption DEF IInv, Times
<1>3. m_lookAhead[r] \in Nat /\ m_grantedTime \in [Rank -> Nat] /\ Infinity \in Nat
  BY LinksAssumption DEF IInv, TypeOK
<1> DEFINE Grants(g) ==
        /\ m_grantedTime' = [m_grantedTime EXCEPT ![r] = g]
        /\ m_grantedTime[r] <= g /\ g <= floor + m_lookAhead[r]
        /\ m_lookAhead[r] = Infinity => g = Infinity
<1>11. m_grantedTime[r] <= floor + m_lookAhead[r]
  BY <1>2 DEF Window, Granted
<1>4. PICK g \in Nat : Grants(g)
  <2>1. CASE m_pLBTS.totRx # m_pLBTS.totTx
    <3>1. m_grantedTime' = [m_grantedTime EXCEPT ![r] = m_grantedTime[r]]
      BY <1>3, <2>1 DEF Decide
    <3>2. Grants(m_grantedTime[r])
      BY <1>3, <1>11, <3>1 DEF IInv, Endless
    <3> QED
      BY <1>3, <3>2
  <2>2. CASE m_pLBTS.totRx = m_pLBTS.totTx
    <3>1. PICK smallest \in Times :
            /\ IsLeast(smallest, {m_pLBTS.next[s] : s \in Rank})
            /\ m_grantedTime' = [m_grantedTime EXCEPT ![r] =
                 IF m_lookAhead[r] = Infinity THEN Infinity ELSE smallest + m_lookAhead[r]]
      BY <2>2 DEF Decide
    <3>2. smallest = floor
      BY <1>1, <1>2, <2>2, <3>1 DEF Window, Deciding
    <3>3. CASE m_lookAhead[r] = Infinity
      <4>1. m_grantedTime[r] = Infinity /\ m_grantedTime' = [m_grantedTime EXCEPT ![r] = Infinity]
        BY <3>1, <3>3 DEF IInv, Endless
      <4>2. Grants(Infinity)
        BY <1>3, <1>11, <4>1
      <4> QED
        BY <1>3, <4>2
    <3>4. CASE m_lookAhead[r] # Infinity
      <4>1. Grants(floor + m_lookAhead[r])
        BY <1>2, <1>3, <1>11, <3>1, <3>2, <3>4
      <4>2. floor + m_lookAhead[r] \in Nat
        BY <1>2, <1>3
      <4> HIDE DEF Grants
      <4> QED
        BY <4>1, <4>2
    <3> QED
      BY <3>3, <3>4
  <2> QED
    BY <2>1, <2>2
<1>5. TypeOK'
  <2>1. m_globalFinished' \in [Rank -> BOOLEAN]
    BY <1>1 DEF IInv, TypeOK
  <2> QED
    BY <1>1, <1>4, <2>1 DEF IInv, TypeOK
<1>6. LookAheadBound' /\ Finite'
  BY <1>1 DEF IInv, LookAheadBound, Finite
<1>7. Local'
  <2> SUFFICES ASSUME NEW s \in Rank
               PROVE  /\ m_currentTs[s] <= m_grantedTime'[s]
                      /\ \A e \in m_events[s] : m_currentTs[s] <= e.ts
    BY <1>1 DEF Local
  <2>1. m_currentTs[s] <= m_grantedTime[s] /\ \A e \in m_events[s] : m_currentTs[s] <= e.ts
    BY DEF IInv, Local
  <2>2. m_currentTs[s] \in Nat /\ m_grantedTime[s] \in Nat
    BY DEF IInv, TypeOK
  <2>3. m_grantedTime[s] <= m_grantedTime'[s] /\ m_grantedTime'[s] \in Nat
    BY <1>3, <1>4
  <2> QED
    BY <2>1, <2>2, <2>3
<1>8. \A s \in Rank : Endless(s)'
  BY <1>1, <1>3, <1>4 DEF IInv, Endless
<1>9. Granted(floor)'
  BY <1>1, <1>2, <1>3, <1>4 DEF Window, Granted
<1>10. Ahead(floor)' /\ Coming(floor)' /\ Deciding(floor)'
  <2>1. \A s \in Rank : pc'[s] \in {"event", "decide"} => pc'[s] = pc[s]
    BY <1>1 DEF IInv, TypeOK
  <2> QED
    BY <1>1, <1>2, <2>1 DEF Window, Ahead, Coming, InFlight, Deciding
<1> QED
  BY <1>2, <1>5, <1>6, <1>7, <1>8, <1>9, <1>10 DEF IInv, Window

\* The invariant is inductive.
LEMMA NextIInv == IInv /\ [Next]_vars => IInv'
<1> SUFFICES ASSUME IInv, [Next]_vars PROVE IInv'
  OBVIOUS
<1>1. ASSUME NEW r \in Rank, Loop(r) PROVE IInv'
  BY <1>1, QuietSteps, ProcessOneEventStep, ReceiveMessageStep, DecideStep DEF Loop
<1>2. ASSUME NEW r \in Rank, Body(r) PROVE IInv'
  BY <1>2, QuietSteps, ScheduleStep, SendPacketStep DEF Body
<1>3. ASSUME NEW m \in sent, Arrive(m) PROVE IInv'
  BY <1>3, ArriveStep
<1>4. CASE UNCHANGED vars
  <2>1. TypeOK' /\ Quiet
    BY <1>4 DEF vars, windowVars, rankVars, netVars, IInv, TypeOK, Quiet
  <2> QED
    BY <2>1, QuietStep
<1> QED
  BY <1>1, <1>2, <1>3, <1>4, AllgatherStep DEF Next

-----------------------------------------------------------------------------
(* The theorems. *)

\* The inductive invariant holds in every state.
LEMMA Invariance == Spec => []IInv
<1>1. Init => IInv
  BY InitIInv
<1>2. IInv /\ [Next]_vars => IInv'
  BY NextIInv
<1> QED
  BY <1>1, <1>2, PTL DEF Spec

\* The variables keep their types: no event and no message lies beyond the end of time.
THEOREM TypeCorrect == Spec => []TypeOK
<1>1. IInv => TypeOK
  BY DEF IInv
<1> QED
  BY <1>1, Invariance, PTL

\* The invariant says that nothing pending or under way lies in the past.
LEMMA InvariantIsCausal == IInv => NoEventFromThePast
BY InFlightAhead DEF IInv, Local, NoEventFromThePast

\* No rank gets ahead of the packets sent to it, in whatever order MPI delivers.
THEOREM Causality == Spec => []NoEventFromThePast
BY InvariantIsCausal, Invariance, PTL

\* A rank has been granted at most its look-ahead beyond the floor, at or after which
\* lies what the others still have to run and what is under way.
LEMMA InvariantIsInStep == IInv => InStep
<1> SUFFICES ASSUME IInv, NEW r \in Rank
             PROVE  /\ \A s \in Rank : \A e \in m_events[s] :
                         m_stop[s] \/ m_currentTs[r] <= e.ts + m_lookAhead[r]
                    /\ \A m \in InFlight : m_currentTs[r] <= m.rxTime + m_lookAhead[r]
  BY DEF InStep
<1>1. PICK floor \in Times : floor \in Nat /\ Window(floor)
  BY LinksAssumption DEF IInv, Times
<1>2. m_currentTs[r] \in Nat /\ m_grantedTime[r] \in Nat /\ m_lookAhead[r] \in Nat
  BY DEF IInv, TypeOK
<1>3. m_currentTs[r] <= m_grantedTime[r] /\ m_grantedTime[r] <= floor + m_lookAhead[r]
  BY <1>1 DEF IInv, Local, Window, Granted
<1>4. m_currentTs[r] <= floor + m_lookAhead[r]
  BY <1>1, <1>2, <1>3
<1>5. ASSUME NEW s \in Rank, NEW e \in m_events[s], ~ m_stop[s]
      PROVE  m_currentTs[r] <= e.ts + m_lookAhead[r]
  <2>1. floor <= e.ts
    BY <1>1, <1>5 DEF Window, Ahead
  <2>2. e.ts \in Nat
    BY LinksAssumption DEF IInv, TypeOK
  <2> QED
    BY <1>1, <1>2, <1>4, <2>1, <2>2
<1>6. ASSUME NEW m \in InFlight PROVE m_currentTs[r] <= m.rxTime + m_lookAhead[r]
  <2>1. floor + m.link.delay <= m.rxTime
    BY <1>1 DEF Window, Coming
  <2>2. m \in sent /\ m.link \in Links /\ m.rxTime \in Nat
    BY LinksAssumption DEF IInv, TypeOK, InFlight, Message
  <2>3. m.link.delay \in Nat
    BY <2>2, LinksAssumption
  <2> QED
    BY <1>1, <1>2, <1>4, <2>1, <2>2, <2>3
<1> QED
  BY <1>5, <1>6

\* No rank runs ahead of the others by more than its look-ahead.
THEOREM Skew == Spec => []InStep
BY InvariantIsInStep, Invariance, PTL

\* The clock of a rank never goes back, from one event to the next.
THEOREM Monotone == Spec => TimeIsMonotone
<1>1. IInv /\ [Next]_vars => [\A r \in Rank : m_currentTs[r] <= m_currentTs'[r]]_vars
  <2> SUFFICES ASSUME IInv, Next, NEW r \in Rank PROVE m_currentTs[r] <= m_currentTs'[r]
    OBVIOUS
  <2>1. m_currentTs \in [Rank -> Nat] /\ \A e \in m_events[r] : m_currentTs[r] <= e.ts
    BY DEF IInv, TypeOK, Local
  <2>2. ASSUME NEW s \in Rank, ProcessOneEvent(s) PROVE m_currentTs[r] <= m_currentTs'[r]
    BY <2>1, <2>2 DEF ProcessOneEvent
  <2>3. CASE UNCHANGED m_currentTs
    BY <2>1, <2>3
  <2>4. ASSUME NEW s \in Rank, Loop(s) PROVE ProcessOneEvent(s) \/ UNCHANGED m_currentTs
    BY <2>4 DEF Loop, EventReturns, Synchronize, ReceiveMessage, EnterAllgather, Decide,
                RunReturns, rankVars
  <2>5. ASSUME NEW s \in Rank, Body(s) PROVE UNCHANGED m_currentTs
    BY <2>5 DEF Body, Schedule, SendPacket, Stop, rankVars
  <2>6. Allgather \/ (\E m \in sent : Arrive(m)) => UNCHANGED m_currentTs
    BY DEF Allgather, Arrive, rankVars
  <2> QED
    BY <2>2, <2>3, <2>4, <2>5, <2>6 DEF Next
<1> QED
  BY <1>1, Invariance, PTL DEF Spec, TimeIsMonotone

-----------------------------------------------------------------------------
(* The end of Run. *)

AllFinished == \A r \in Rank : m_pLBTS.finished[r]

\* A rank that knows that all are finished has read it in the answer of the last
\* MPI_Allgather.  From that answer on every rank can only read it too and leave.
Ending ==
  /\ TypeOK
  /\ \A r \in Rank : pc[r] = "done" => m_globalFinished[r]
  /\ \A r \in Rank : m_globalFinished[r] => AllFinished
  /\ AllFinished =>
       \A r \in Rank :
         /\ IsLocalFinished(r)
         /\ pc[r] \in {"decide", "loop", "done"}
         /\ pc[r] # "decide" => m_globalFinished[r]

\* A step between two answers, that of a rank that goes on being allowed only as
\* long as not all are finished.
LEMMA RunningOn ==
  ASSUME Ending, TypeOK', ~ AllFinished, UNCHANGED <<m_pLBTS, m_globalFinished>>,
         \A r \in Rank : pc'[r] = "done" => pc[r] = "done"
  PROVE  Ending'
<1>1. ~ AllFinished'
  BY DEF AllFinished
<1> QED
  BY <1>1 DEF Ending

\* The end of Run is the same for every step.
LEMMA EndingStep == IInv /\ IInv' /\ Ending /\ [Next]_vars => Ending'
<1> SUFFICES ASSUME TypeOK, TypeOK', Ending, [Next]_vars PROVE Ending'
  BY DEF IInv
<1>1. ASSUME NEW r \in Rank,
             \/ ProcessOneEvent(r) \/ EventReturns(r) \/ Synchronize(r) \/ ReceiveMessage(r)
             \/ EnterAllgather(r) \/ Body(r)
      PROVE  Ending'
  <2>1. pc[r] \in {"loop", "receive", "event"} /\ (pc[r] = "loop" => ~ m_globalFinished[r])
    BY <1>1 DEF ProcessOneEvent, EventReturns, Synchronize, ReceiveMessage, EnterAllgather,
                Body, Schedule, SendPacket, Stop, Goto
  <2>2. ~ AllFinished
    BY <2>1 DEF Ending
  <2>3. UNCHANGED <<m_pLBTS, m_globalFinished>>
    BY <1>1 DEF ProcessOneEvent, EventReturns, Synchronize, ReceiveMessage, EnterAllgather,
                Body, Schedule, SendPacket, Stop, windowVars
  <2>4. \A s \in Rank : pc'[s] = "done" => pc[s] = "done"
    <3>1. CASE \E to \in {"event", "loop", "receive", "gather"} : pc' = [pc EXCEPT ![r] = to]
      BY <3>1 DEF TypeOK
    <3>2. CASE UNCHANGED pc
      BY <3>2
    <3>3. (\E to \in {"event", "loop", "receive", "gather"} : pc' = [pc EXCEPT ![r] = to])
          \/ UNCHANGED pc
      BY <1>1 DEF ProcessOneEvent, EventReturns, Synchronize, ReceiveMessage, EnterAllgather,
                  Body, Schedule, SendPacket, Stop, Goto
    <3> QED
      BY <3>1, <3>2, <3>3
  <2> QED
    BY <2>2, <2>3, <2>4, RunningOn
<1>2. ASSUME NEW r \in Rank, Decide(r) PROVE Ending'
  <2>1. /\ pc[r] = "decide" /\ pc' = [pc EXCEPT ![r] = "loop"]
        /\ m_globalFinished' = [m_globalFinished EXCEPT ![r] = AllFinished]
        /\ UNCHANGED <<m_pLBTS, m_events, m_stop>>
    BY <1>2 DEF Decide, Goto, AllFinished, rankVars
  <2>2. AllFinished' = AllFinished
    BY <2>1 DEF AllFinished
  <2>3. \A s \in Rank : IsLocalFinished(s)' = IsLocalFinished(s)
    BY <2>1 DEF IsLocalFinished
  <2>4. \A s \in Rank : s # r => pc'[s] = pc[s] /\ m_globalFinished'[s] = m_globalFinished[s]
    BY <2>1 DEF TypeOK
  <2>5. pc'[r] = "loop" /\ m_globalFinished'[r] = AllFinished
    BY <2>1 DEF TypeOK
  <2> QED
    BY <2>2, <2>3, <2>4, <2>5 DEF Ending
<1>3. ASSUME NEW r \in Rank, RunReturns(r) PROVE Ending'
  <2>1. /\ m_globalFinished[r] /\ pc' = [pc EXCEPT ![r] = "done"]
        /\ UNCHANGED <<m_pLBTS, m_globalFinished, m_events, m_stop>>
    BY <1>3 DEF RunReturns, Goto, windowVars, rankVars
  <2> QED
    BY <2>1 DEF Ending, TypeOK, AllFinished, IsLocalFinished
<1>4. CASE Allgather
  <2>1. /\ \A r \in Rank : pc[r] = "gather"
        /\ pc' = [r \in Rank |-> "decide"]
        /\ m_pLBTS'.finished = [r \in Rank |-> IsLocalFinished(r)]
        /\ UNCHANGED <<m_globalFinished, m_events, m_stop>>
    BY <1>4 DEF Allgather, rankVars
  <2>2. \A r \in Rank : ~ m_globalFinished[r]
    BY <2>1 DEF Ending
  <2>3. \A r \in Rank : IsLocalFinished(r)' = IsLocalFinished(r)
    BY <2>1 DEF IsLocalFinished
  <2> QED
    BY <2>1, <2>2, <2>3 DEF Ending, AllFinished
<1>5. ASSUME NEW m \in sent, Arrive(m) PROVE Ending'
  BY <1>5 DEF Arrive, Ending, AllFinished, IsLocalFinished, windowVars, rankVars
<1>6. CASE UNCHANGED vars
  BY <1>6 DEF vars, Ending, AllFinished, IsLocalFinished, windowVars, rankVars
<1> QED
  BY <1>1, <1>2, <1>3, <1>4, <1>5, <1>6 DEF Next, Loop

\* One rank leaves Run only when every rank is out of events and on its way out:
\* none of them waits for it in MPI_Allgather.
THEOREM Together == Spec => []LeaveTogether
<1>1. Init => Ending
  <2> SUFFICES ASSUME Init PROVE Ending
    OBVIOUS
  <2>1. TypeOK
    BY InitIInv DEF IInv
  <2>2. Rank # {}
    BY RankAssumption, FS_EmptySet
  <2>3. ~ AllFinished /\ \A r \in Rank : ~ m_globalFinished[r] /\ pc[r] # "done"
    BY <2>2 DEF Init, AllFinished
  <2> QED
    BY <2>1, <2>3 DEF Ending
<1>2. Ending => LeaveTogether
  BY DEF Ending, LeaveTogether
<1> QED
  BY <1>1, <1>2, EndingStep, Invariance, PTL DEF Spec

-----------------------------------------------------------------------------
(* The refinement. *)

\* What a step leaves alone, it leaves alone in the logical processes too.
LEMMA SameProcesses ==
  /\ UNCHANGED m_events => UNCHANGED Agenda
  /\ UNCHANGED <<sent, received>> => UNCHANGED UnderWay
  /\ UNCHANGED pc => UNCHANGED Returned
BY DEF Agenda, UnderWay, InFlight, Returned

\* Only RunReturns adds a rank to those that are done.
LEMMA SameReturned ==
  ASSUME TypeOK, NEW r \in Rank, pc[r] # "done",
         NEW to, to # "done", pc' = [pc EXCEPT ![r] = to]
  PROVE  UNCHANGED Returned
BY DEF TypeOK, Returned

\* Inserting an event adds its time to the agenda of its rank.
LEMMA InsertInAgenda ==
  ASSUME TypeOK, NEW r \in Rank, NEW ts, Insert(r, ts)
  PROVE  Agenda' = [Agenda EXCEPT ![r] = @ \cup {ts}]
<1>1. \A s \in Rank : m_events'[s] =
        IF s = r THEN m_events[s] \cup {[ts |-> ts, uid |-> m_uid[r]]} ELSE m_events[s]
  BY DEF Insert, TypeOK
<1>2. \A s \in Rank : Agenda'[s] = IF s = r THEN Agenda[s] \cup {ts} ELSE Agenda[s]
  <2>1. \A s \in Rank : Agenda[s] = {e.ts : e \in m_events[s]} /\ Agenda'[s] = {e.ts : e \in m_events'[s]}
    BY DEF Agenda
  <2> DEFINE new == [ts |-> ts, uid |-> m_uid[r]]
  <2>2. m_events'[r] = m_events[r] \cup {new} /\ new.ts = ts
    BY <1>1
  <2> HIDE DEF new
  <2>3. {e.ts : e \in m_events[r] \cup {new}} = {e.ts : e \in m_events[r]} \cup {new.ts}
    OBVIOUS
  <2> QED
    BY <1>1, <2>1, <2>2, <2>3
<1>3. Agenda = [s \in Rank |-> Agenda[s]] /\ Agenda' = [s \in Rank |-> Agenda'[s]]
  BY DEF Agenda
<1> QED
  BY <1>2, <1>3

\* A rank runs an event: it has none before, and no packet on its way comes before.
LEMMA ExecuteStep ==
  ASSUME IInv, NEW r \in Rank, ProcessOneEvent(r)
  PROVE  Processes!Execute(r)
<1>1. PICK next \in m_events[r] :
        /\ IsNext(next, m_events[r]) /\ next.ts <= m_grantedTime[r]
        /\ m_events' = [m_events EXCEPT ![r] = @ \ {next}]
        /\ m_currentTs' = [m_currentTs EXCEPT ![r] = next.ts]
  BY DEF ProcessOneEvent
<1>2. TypeOK /\ pc[r] = "loop" /\ pc' = [pc EXCEPT ![r] = "event"]
  BY DEF ProcessOneEvent, Goto, IInv
<1>3. r \notin Returned /\ UNCHANGED Returned /\ UNCHANGED UnderWay
  BY <1>2, SameReturned, SameProcesses DEF Returned, ProcessOneEvent, netVars
<1>4. next.ts \in Agenda[r] /\ m_currentTs[r] <= next.ts
  BY <1>1 DEF Agenda, IInv, Local
<1>5. \A u \in Agenda[r] : next.ts <= u
  <2> SUFFICES ASSUME NEW e \in m_events[r] PROVE next.ts <= e.ts
    BY DEF Agenda
  <2>1. e.ts \in Nat /\ next.ts \in Nat
    BY <1>1, LinksAssumption DEF IInv, TypeOK
  <2> QED
    BY <1>1, <2>1 DEF IsNext, Before
<1>6. \A u \in UnderWay[r] : next.ts <= u
  <2> SUFFICES ASSUME NEW m \in InFlight, m.to = r PROVE next.ts <= m.rxTime
    BY DEF UnderWay
  <2>1. m_grantedTime[r] <= m.rxTime
    BY InFlightAhead
  <2>2. next.ts \in Nat /\ m_grantedTime[r] \in Nat /\ m.rxTime \in Nat
    BY <1>1, LinksAssumption DEF IInv, TypeOK, InFlight, Message
  <2> QED
    BY <1>1, <2>1, <2>2
<1>7. Agenda' = Agenda \/ Agenda' = [Agenda EXCEPT ![r] = @ \ {next.ts}]
  <2>1. \A s \in Rank : m_events'[s] = IF s = r THEN m_events[s] \ {next} ELSE m_events[s]
    BY <1>1 DEF IInv, TypeOK
  <2>2. \A s \in Rank : s # r => Agenda'[s] = Agenda[s]
    BY <2>1 DEF Agenda
  <2>3. Agenda'[r] = {e.ts : e \in m_events[r] \ {next}}
    BY <2>1 DEF Agenda
  <2>4. CASE \E e \in m_events[r] \ {next} : e.ts = next.ts
    <3>1. Agenda'[r] = Agenda[r]
      BY <2>3, <2>4 DEF Agenda
    <3> QED
      BY <3>1, <2>2 DEF Agenda
  <2>5. CASE \A e \in m_events[r] \ {next} : e.ts # next.ts
    <3>1. Agenda'[r] = Agenda[r] \ {next.ts}
      BY <2>3, <2>5, <1>1 DEF Agenda
    <3> QED
      BY <3>1, <2>2 DEF Agenda
  <2> QED
    BY <2>4, <2>5
<1> QED
  BY <1>1, <1>3, <1>4, <1>5, <1>6, <1>7 DEF Processes!Execute

\* The body of an event schedules another.
LEMMA ScheduleHandles ==
  ASSUME IInv, NEW r \in Rank, NEW d \in Delays, Schedule(r, d)
  PROVE  Processes!Handle(r)
<1>1. TypeOK /\ m_currentTs[r] \in Nat /\ d \in Nat
  BY ProgramAssumption DEF IInv, TypeOK
<1>2. Insert(r, m_currentTs[r] + d) /\ pc[r] = "event"
      /\ UNCHANGED <<pc, m_currentTs, sent, received>>
  BY DEF Schedule, netVars
<1>3. Agenda' = [Agenda EXCEPT ![r] = @ \cup {m_currentTs[r] + d}]
  BY <1>1, <1>2, InsertInAgenda
<1>4. Agenda'[r] = Agenda[r] \cup {m_currentTs[r] + d}
  BY <1>3 DEF Agenda
<1>5. \A t \in Agenda'[r] \ Agenda[r] : m_currentTs[r] <= t
  BY <1>1, <1>4
<1>6. Agenda' = [Agenda EXCEPT ![r] = @ \cup Agenda'[r]]
  BY <1>3, <1>4 DEF Agenda
<1> QED
  BY <1>2, <1>5, <1>6, SameProcesses DEF Processes!Handle, Returned

\* The body of an event sends a packet, which is received after the present of its
\* receiver, and not before that of its sender.
LEMMA SendHandles ==
  ASSUME IInv, IInv', NEW r \in Rank, NEW l \in Links, NEW d \in Delays, SendPacket(r, l, d)
  PROVE  Processes!Handle(r)
<1>1. PICK s \in l.ends \ {r} :
        LET rxTime == m_currentTs[r] + d + l.delay IN
        sent' = sent \cup {[to |-> s, link |-> l, rxTime |-> rxTime, n |-> Cardinality(sent) + 1]}
  BY DEF SendPacket
<1> DEFINE t == m_currentTs[r] + d + l.delay
           m == [to |-> s, link |-> l, rxTime |-> t, n |-> Cardinality(sent) + 1]
<1>2. TypeOK /\ pc[r] = "event" /\ UNCHANGED <<pc, m_events, m_currentTs, received>>
  BY DEF SendPacket, rankVars, IInv
<1>3. s \in Rank \ {r} /\ d \in Nat /\ l.delay \in Nat /\ m_currentTs[r] \in Nat
  BY <1>2, LinksAssumption, ProgramAssumption DEF TypeOK
<1>4. sent' = sent \cup {m}
  BY <1>1
<1>5. CASE m \in sent
  <2>1. UNCHANGED UnderWay
    BY <1>2, <1>4, <1>5, SameProcesses
  <2> QED
    BY <1>2, <2>1, SameProcesses DEF Processes!Handle, Returned, Agenda
<1>6. CASE m \notin sent
  <2>1. InFlight' = InFlight \cup {m}
    BY <1>2, <1>4, <1>6 DEF InFlight, TypeOK
  <2>2. m_currentTs[s] <= t
    <3>1. NoEventFromThePast'
      BY IInv', InvariantIsCausal, PTL
    <3>2. m_currentTs'[m.to] <= m.rxTime
      BY <2>1, <3>1 DEF NoEventFromThePast
    <3> QED
      BY <3>2, <1>2
  <2>3. \A q \in Rank : UnderWay'[q] = IF q = s THEN UnderWay[q] \cup {t} ELSE UnderWay[q]
    <3>1. m.to = s /\ m.rxTime = t
      OBVIOUS
    <3> HIDE DEF m, t
    <3>2. \A q \in Rank : UnderWay'[q] = {k.rxTime : k \in {k \in InFlight \cup {m} : k.to = q}}
      BY <2>1 DEF UnderWay
    <3>3. ASSUME NEW q \in Rank, q # s PROVE UnderWay'[q] = UnderWay[q]
      <4>1. {k \in InFlight \cup {m} : k.to = q} = {k \in InFlight : k.to = q}
        BY <3>1, <3>3
      <4> QED
        BY <3>2, <4>1 DEF UnderWay
    <3>4. UnderWay'[s] = UnderWay[s] \cup {t}
      <4>1. {k \in InFlight \cup {m} : k.to = s} = {k \in InFlight : k.to = s} \cup {m}
        BY <3>1
      <4>2. UnderWay'[s] = {k.rxTime : k \in {k \in InFlight : k.to = s} \cup {m}}
        BY <1>3, <3>2, <4>1
      <4>3. UnderWay[s] = {k.rxTime : k \in {k \in InFlight : k.to = s}}
        BY <1>3 DEF UnderWay
      <4> QED
        BY <3>1, <4>2, <4>3
    <3> QED
      BY <3>3, <3>4
  <2>4. UnderWay = [q \in Rank |-> UnderWay[q]] /\ UnderWay' = [q \in Rank |-> UnderWay'[q]]
    BY DEF UnderWay
  <2>5. UnderWay' = [UnderWay EXCEPT ![s] = @ \cup {t}] /\ t \in UnderWay'[s]
    BY <1>3, <2>3, <2>4
  <2>6. m_currentTs[r] <= t
    BY <1>3
  <2> QED
    BY <1>2, <1>3, <2>2, <2>5, <2>6, SameProcesses DEF Processes!Handle, Returned, Agenda
<1> QED
  BY <1>5, <1>6

\* A rank takes in a packet.
LEMMA ReceiveStep ==
  ASSUME IInv, NEW r \in Rank, ReceiveMessage(r)
  PROVE  Processes!Receive(r)
<1>1. PICK m \in arrived \ received :
        m.to = r /\ received' = received \cup {m} /\ Insert(r, m.rxTime)
  BY DEF ReceiveMessage
<1>2. TypeOK /\ pc[r] = "receive" /\ UNCHANGED <<pc, m_currentTs, sent>>
  BY DEF ReceiveMessage, IInv
<1>3. m \in InFlight /\ InFlight' = InFlight \ {m}
  BY <1>1, <1>2 DEF InFlight, TypeOK
<1>4. Agenda' = [Agenda EXCEPT ![r] = @ \cup {m.rxTime}]
  BY <1>1, <1>2, InsertInAgenda
<1>5. m.rxTime \in UnderWay[r]
  BY <1>1, <1>3 DEF UnderWay
<1>6. UnderWay' = UnderWay \/ UnderWay' = [UnderWay EXCEPT ![r] = @ \ {m.rxTime}]
  <2>1. \A s \in Rank : s # r => UnderWay'[s] = UnderWay[s]
    BY <1>1, <1>3 DEF UnderWay
  <2>2. UnderWay = [q \in Rank |-> UnderWay[q]] /\ UnderWay' = [q \in Rank |-> UnderWay'[q]]
    BY DEF UnderWay
  <2>3. UnderWay'[r] = {n.rxTime : n \in {n \in InFlight \ {m} : n.to = r}}
    BY <1>3 DEF UnderWay
  <2>4. CASE \E n \in InFlight \ {m} : n.to = r /\ n.rxTime = m.rxTime
    <3>1. UnderWay'[r] = UnderWay[r]
      BY <2>3, <2>4, <1>1 DEF UnderWay
    <3> QED
      BY <3>1, <2>1, <2>2
  <2>5. CASE \A n \in InFlight \ {m} : n.to = r => n.rxTime # m.rxTime
    <3>1. UnderWay'[r] = UnderWay[r] \ {m.rxTime}
      BY <2>3, <2>5, <1>1 DEF UnderWay
    <3> QED
      BY <3>1, <2>1, <2>2
  <2> QED
    BY <2>4, <2>5
<1>7. r \notin Returned /\ UNCHANGED Returned
  BY <1>2, SameProcesses DEF Returned
<1> QED
  BY <1>2, <1>4, <1>5, <1>6, <1>7 DEF Processes!Receive

\* Every other step goes unnoticed, the return from Run excepted.
LEMMA UnnoticedSteps ==
  ASSUME IInv, NEW r \in Rank,
         \/ EventReturns(r) \/ Synchronize(r) \/ EnterAllgather(r) \/ Decide(r) \/ Stop(r)
         \/ Allgather \/ \E m \in sent : Arrive(m)
  PROVE  UNCHANGED Processes!lpVars
<1>1. TypeOK /\ UNCHANGED <<m_events, m_currentTs, sent, received>>
  BY DEF EventReturns, Synchronize, EnterAllgather, Decide, Stop, Allgather, Arrive,
         rankVars, netVars, IInv
<1>2. UNCHANGED Returned
  <2>1. CASE UNCHANGED pc
    BY <2>1, SameProcesses
  <2>2. CASE pc[r] # "done" /\ \E to \in {"loop", "receive", "gather"} : pc' = [pc EXCEPT ![r] = to]
    BY <1>1, <2>2, SameReturned
  <2>3. CASE Allgather
    BY <2>3 DEF Allgather, Returned
  <2> QED
    BY <2>1, <2>2, <2>3 DEF EventReturns, Synchronize, EnterAllgather, Decide, Stop, Arrive, Goto
<1> QED
  BY <1>1, <1>2, SameProcesses DEF Processes!lpVars

\* The ranks implement logical processes: whatever the links, the program and the
\* order of the messages, each rank runs its events in the order of time, those
\* that other ranks have sent it included, and none after it has returned.
THEOREM Implementation == Spec => ImplementsProcesses
<1>1. Init => Processes!Init
  <2> SUFFICES ASSUME Init PROVE Processes!Init
    OBVIOUS
  <2>1. \A r \in Rank : \A e \in m_events[r] : e.ts \in Nat
    BY InitIInv, LinksAssumption DEF IInv, TypeOK
  <2>2. Agenda \in [Rank -> SUBSET Nat]
    BY <2>1 DEF Agenda
  <2>3. UnderWay = [r \in Rank |-> {}]
    BY DEF Init, UnderWay, InFlight
  <2>4. Returned = {}
    BY DEF Init, Returned
  <2> QED
    BY <2>2, <2>3, <2>4 DEF Init, Processes!Init
<1>2. IInv /\ IInv' /\ [Next]_vars => [Processes!Next]_Processes!lpVars
  <2> SUFFICES ASSUME IInv, IInv', [Next]_vars
               PROVE  Processes!Next \/ UNCHANGED Processes!lpVars
    OBVIOUS
  <2>1. ASSUME NEW r \in Rank, RunReturns(r) PROVE Processes!Return(r)
    <3>1. pc' = [pc EXCEPT ![r] = "done"] /\ UNCHANGED <<m_events, m_currentTs, sent, received>>
      BY <2>1 DEF RunReturns, Goto, rankVars, netVars
    <3>2. Returned' = Returned \cup {r}
      BY <3>1 DEF Returned, IInv, TypeOK
    <3> QED
      BY <3>1, <3>2, SameProcesses DEF Processes!Return
  <2>2. ASSUME NEW r \in Rank, Loop(r) PROVE Processes!Next \/ UNCHANGED Processes!lpVars
    BY <2>1, <2>2, ExecuteStep, ReceiveStep, UnnoticedSteps DEF Loop, Processes!Next
  <2>3. ASSUME NEW r \in Rank, Body(r) PROVE Processes!Next \/ UNCHANGED Processes!lpVars
    BY <2>3, ScheduleHandles, SendHandles, UnnoticedSteps DEF Body, Processes!Next
  <2>4. CASE UNCHANGED vars
    BY <2>4, SameProcesses DEF vars, rankVars, netVars, Processes!lpVars
  <2>5. CASE Allgather \/ \E m \in sent : Arrive(m)
    <3>1. PICK r \in Rank : TRUE
      BY RankAssumption, FS_EmptySet
    <3> QED
      BY <2>5, <3>1, UnnoticedSteps
  <2> QED
    BY <2>2, <2>3, <2>4, <2>5 DEF Next
<1> QED
  BY <1>1, <1>2, Invariance, PTL DEF Spec, Processes!Spec, ImplementsProcesses
=============================================================================
