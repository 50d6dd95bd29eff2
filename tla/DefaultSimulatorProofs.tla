----------------------- MODULE DefaultSimulatorProofs -----------------------
(***************************************************************************)
(* Proofs about DefaultSimulator, for every number of threads, every set   *)
(* of delays and every bound on the events made, as long as the unique ids *)
(* do not wrap around (NoWrap).                                            *)
(***************************************************************************)
EXTENDS DefaultSimulator, TLAPS, FiniteSetTheorems, SequenceTheorems

\* The width of m_uid is enough for all the events that are ever made.
NoWrap == MaxEvents + 4 < UidMod

-----------------------------------------------------------------------------
(* The inductive invariant. *)

Handing == [timestamp : Nat, impl : 1..MaxEvents]

\* TypeOK, but for the sign of m_unscheduledEvents, and with the events that
\* the lists and sets mention among the events made so far.
Types ==
  /\ m_events \subseteq EventIds
  /\ m_uid \in Nat
  /\ m_currentTs \in Nat /\ m_currentUid \in Nat
  /\ m_unscheduledEvents \in Int
  /\ m_eventsWithContext \in Seq(Handing)
  /\ eventsWithContext \in Seq(Handing)
  /\ m_eventsWithContextMutex \in Workers \cup {NoThread}
  /\ m_destroyEvents \in Seq(EventIds)
  /\ pc \in PcValues /\ caller \in Callers /\ due \subseteq 1..MaxEvents
  /\ made \in Seq(Workers \cup {Main}) /\ Len(made) <= MaxEvents
  /\ ids \subseteq EventIds
  /\ cancelled \subseteq 1..Len(made)
  /\ stops \subseteq 1..MaxEvents /\ revoked \subseteq 1..MaxEvents
  /\ log \in Seq(EventIds)

Flags == m_stop \in BOOLEAN /\ m_eventsWithContextEmpty \in BOOLEAN

\* An event made costs at most one uid, now or when it is moved to the queue.
UidsLeft ==
  /\ 4 <= m_uid
  /\ m_uid + Len(m_eventsWithContext) + Len(eventsWithContext) <= Len(made) + 4

\* Keys of the queue: after the current one and below the next uid.
QueueKeys ==
  /\ m_currentUid < m_uid
  /\ \A e \in m_events : 4 <= e.uid /\ e.uid < m_uid /\ Before(CurrentKey, e)

\* The EventIds that the keys call unexpired are in the queue.
HeldIds ==
  \A id \in ids :
    /\ id.impl <= Len(made)
    /\ id.uid = DestroyUid \/ (4 <= id.uid /\ id.uid < m_uid)
    /\ id.uid # DestroyUid /\ pc # "destroyed" /\ Before(CurrentKey, id)
         => id \in m_events \/ id.impl \in cancelled

DestroyIds == \A k \in DOMAIN m_destroyEvents : m_destroyEvents[k].uid = DestroyUid

Counted ==
  /\ m_unscheduledEvents \in Nat
  /\ pc # "destroyed" =>
       IsFiniteSet(m_events) /\ m_unscheduledEvents = Cardinality(m_events)

IInv == Types /\ Flags /\ UidsLeft /\ QueueKeys /\ HeldIds /\ DestroyIds /\ Counted

-----------------------------------------------------------------------------
(* A fact about sequences. *)

\* What is left of a sequence when one element is erased was in it before.
LEMMA RemoveAtElements ==
  ASSUME NEW S, NEW s \in Seq(S), NEW k \in 1..Len(s)
  PROVE  /\ SeqX!RemoveAt(s, k) \in Seq(S)
         /\ \A j \in DOMAIN SeqX!RemoveAt(s, k) :
              \E i \in DOMAIN s : SeqX!RemoveAt(s, k)[j] = s[i]
<1> DEFINE a == SubSeq(s, 1, k - 1)
           b == SubSeq(s, k + 1, Len(s))
<1>1. a \in Seq(S) /\ Len(a) = k - 1 /\ \A j \in 1..(k - 1) : a[j] = s[j]
  OBVIOUS
<1>2. /\ b \in Seq(S) /\ Len(b) = Len(s) - k
      /\ \A j \in 1..(Len(s) - k) : b[j] = s[k + j]
  OBVIOUS
<1>3. SeqX!RemoveAt(s, k) = a \o b
  BY DEF SeqX!RemoveAt
<1> HIDE DEF a, b
<1>4. /\ a \o b \in Seq(S) /\ Len(a \o b) = Len(a) + Len(b)
      /\ \A j \in 1..(Len(a) + Len(b)) :
           (a \o b)[j] = IF j <= Len(a) THEN a[j] ELSE b[j - Len(a)]
  BY <1>1, <1>2, ConcatProperties
<1>5. ASSUME NEW j \in 1..Len(a \o b)
      PROVE  \E i \in 1..Len(s) : (a \o b)[j] = s[i]
  <2>1. CASE j <= Len(a)
    <3>1. (a \o b)[j] = a[j] /\ j \in 1..(k - 1)
      BY <1>1, <1>2, <1>4, <2>1
    <3> QED
      BY <1>1, <3>1
  <2>2. CASE j > Len(a)
    <3>1. (a \o b)[j] = b[j - Len(a)] /\ j - Len(a) \in 1..(Len(s) - k)
      BY <1>1, <1>2, <1>4, <2>2
    <3> QED
      BY <1>1, <1>2, <3>1
  <2> QED
    BY <1>1, <2>1, <2>2
<1> QED
  BY <1>3, <1>4, <1>5

-----------------------------------------------------------------------------
(* The initial states. *)

\* The invariant holds before the program makes its first call.
LEMMA InitIInv == NoWrap /\ Init => IInv
<1> SUFFICES ASSUME NoWrap, Init PROVE IInv
  OBVIOUS
<1> USE ThreadsAssumption, NumbersAssumption DEF Init
<1>1. Types
  <2>1. <<>> \in Seq(Handing) /\ <<>> \in Seq(EventIds) /\ <<>> \in Seq(Workers \cup {Main})
    OBVIOUS
  <2>2. Len(made) = 0
    OBVIOUS
  <2>3. pc \in PcValues /\ caller \in Callers
    BY DEF PcValues, Callers
  <2> QED
    BY <2>1, <2>2, <2>3 DEF Types, InvalidUid
<1>2. UidsLeft /\ QueueKeys /\ HeldIds /\ DestroyIds
  BY DEF UidsLeft, QueueKeys, HeldIds, DestroyIds, InvalidUid
<1>3. Counted
  BY FS_EmptySet DEF Counted
<1>4. Flags
  BY Zenon DEF Flags
<1> QED
  BY <1>1, <1>2, <1>3, <1>4 DEF IInv

-----------------------------------------------------------------------------
(* The queue. *)

\* An event inserted at the current time or later keeps the queue in order and
\* the count right, whoever inserts it.
LEMMA InsertIsSound ==
  ASSUME IInv, NEW ts \in Nat, NEW impl \in 1..MaxEvents,
         Insert(ts, impl), ts >= m_currentTs, m_uid + 1 < UidMod,
         clockVars' = clockVars, pc' = pc
  PROVE  /\ m_events' \subseteq EventIds
         /\ m_uid' = m_uid + 1
         /\ QueueKeys' /\ Counted'
<1> DEFINE new == [ts |-> ts, uid |-> m_uid, impl |-> impl]
<1> USE NumbersAssumption
<1>1. m_uid \in 0..(UidMod - 1) /\ m_currentUid \in Nat /\ m_currentTs \in Nat
  BY DEF IInv, Types, UidsLeft
<1>2. m_uid' = m_uid + 1
  BY <1>1 DEF Insert, NextUid
<1>3. m_events' = m_events \cup {new} /\ new \in EventIds
  BY <1>1 DEF Insert, EventIds
<1>4. m_events' \subseteq EventIds
  BY <1>3 DEF IInv, Types
<1>5. new \notin m_events
  BY <1>1 DEF IInv, QueueKeys
<1>6. QueueKeys'
  <2>1. Before(CurrentKey, new)
    BY <1>1 DEF Before, CurrentKey, IInv, QueueKeys
  <2>2. CurrentKey' = CurrentKey /\ m_currentUid' = m_currentUid
    BY DEF CurrentKey, clockVars
  <2>3. \A e \in m_events : 4 <= e.uid /\ e.uid < m_uid + 1 /\ Before(CurrentKey, e)
    BY <1>1 DEF IInv, QueueKeys, Types, EventIds
  <2>4. 4 <= new.uid /\ new.uid < m_uid + 1
    BY <1>1 DEF IInv, UidsLeft
  <2> QED
    BY <1>1, <1>2, <1>3, <2>1, <2>2, <2>3, <2>4 DEF IInv, QueueKeys, Before, CurrentKey
<1>7. Counted'
  <2>1. m_unscheduledEvents' = m_unscheduledEvents + 1
    BY DEF Insert
  <2>2. ASSUME pc # "destroyed"
        PROVE  IsFiniteSet(m_events') /\ m_unscheduledEvents' = Cardinality(m_events')
    BY <2>1, <2>2, <1>3, <1>5, FS_AddElement DEF IInv, Counted
  <2> QED
    BY <2>1, <2>2 DEF IInv, Counted
<1> QED
  BY <1>2, <1>4, <1>6, <1>7

\* Taking an event out of the queue keeps the count right.
LEMMA TakeIsCounted ==
  ASSUME Counted, pc # "destroyed", NEW e \in m_events,
         m_events' = m_events \ {e},
         m_unscheduledEvents' = m_unscheduledEvents - 1
  PROVE  Counted'
<1>1. IsFiniteSet(m_events) /\ m_unscheduledEvents = Cardinality(m_events)
  BY DEF Counted
<1>2. IsFiniteSet(m_events') /\ Cardinality(m_events') = Cardinality(m_events) - 1
  BY <1>1, FS_RemoveElement
<1>3. Cardinality(m_events') \in Nat
  BY <1>2, FS_CardinalityType
<1> QED
  BY <1>1, <1>2, <1>3 DEF Counted

-----------------------------------------------------------------------------
(* The steps that leave the queue, the clock and the EventIds alone. *)

Quiet ==
  /\ UNCHANGED <<m_events, m_uid, m_unscheduledEvents, clockVars, m_destroyEvents,
                 ids, cancelled, made>>
  /\ pc' = "destroyed" <=> pc = "destroyed"

\* Such a step keeps the invariant, if it keeps the types and the uids left.
LEMMA QuietStep ==
  ASSUME IInv, Quiet, Types', Flags', UidsLeft'
  PROVE  IInv'
<1>1. QueueKeys'
  BY DEF Quiet, IInv, QueueKeys, CurrentKey, clockVars, Before
<1>2. HeldIds'
  BY DEF Quiet, IInv, HeldIds, CurrentKey, clockVars, Before
<1>3. DestroyIds' /\ Counted'
  BY DEF Quiet, IInv, DestroyIds, Counted
<1> QED
  BY <1>1, <1>2, <1>3 DEF IInv

-----------------------------------------------------------------------------
(* The steps. *)

FlagVars == <<m_stop, m_eventsWithContextEmpty>>

\* The calls of the main thread that insert an event.
LEMMA MainInserts ==
  ASSUME NoWrap, IInv, Flags', NEW d \in Delays,
         Schedule(d) \/ ScheduleWithContextMain(d) \/ StopAfter(d)
  PROVE  IInv'
<1> DEFINE new == [ts |-> m_currentTs + d, uid |-> m_uid, impl |-> NewImpl]
<1> USE NumbersAssumption
<1>1. /\ Make(Main) /\ Insert(m_currentTs + d, NewImpl) /\ InProgram
      /\ UNCHANGED <<clockVars, handVars, eventsWithContext, m_destroyEvents,
                     cancelled, control, revoked, log>>
  BY DEF Schedule, ScheduleWithContextMain, StopAfter
<1>2. /\ ids' = ids \/ ids' = ids \cup {new}
      /\ stops' = stops \/ stops' = stops \cup {NewImpl}
  BY DEF Schedule, ScheduleWithContextMain, StopAfter
<1>3. /\ made \in Seq(Workers \cup {Main}) /\ Len(made) < MaxEvents
      /\ made' = Append(made, Main) /\ Len(made') = Len(made) + 1
      /\ NewImpl = Len(made) + 1 /\ NewImpl \in 1..MaxEvents
      /\ made' \in Seq(Workers \cup {Main})
  BY <1>1 DEF IInv, Types, Make, NewImpl
<1>4. m_uid + 1 < UidMod
  <2>1. Len(m_eventsWithContext) \in Nat /\ Len(eventsWithContext) \in Nat /\ m_uid \in Nat
    BY DEF IInv, Types
  <2> QED
    BY <2>1, <1>3 DEF IInv, UidsLeft, NoWrap
<1>5. m_currentTs \in Nat /\ m_currentTs + d \in Nat /\ m_currentTs + d >= m_currentTs
  BY DEF IInv, Types
<1>6. /\ m_events' \subseteq EventIds /\ m_uid' = m_uid + 1
      /\ QueueKeys' /\ Counted'
  BY <1>1, <1>3, <1>4, <1>5, InsertIsSound DEF control
<1>7. new \in EventIds /\ m_uid \in Nat
  BY <1>3, <1>4, <1>5 DEF EventIds, IInv, Types
<1>8. Types'
  <2>1. cancelled \subseteq 1..Len(made')
    BY <1>1, <1>3 DEF IInv, Types
  <2>2. ids' \subseteq EventIds
    BY <1>2, <1>7 DEF IInv, Types
  <2>3. stops' \subseteq 1..MaxEvents
    BY <1>2, <1>3 DEF IInv, Types
  <2>4. m_uid' \in Nat /\ m_unscheduledEvents' \in Int
    BY <1>1, <1>6, <1>7 DEF IInv, Types, Insert
  <2> QED
    BY <1>1, <1>3, <1>6, <2>1, <2>2, <2>3, <2>4
       DEF IInv, Types, clockVars, handVars, control, atCall
<1>9. UidsLeft'
  <2>1. Len(m_eventsWithContext) \in Nat /\ Len(eventsWithContext) \in Nat
    BY DEF IInv, Types
  <2> QED
    BY <1>1, <1>3, <1>6, <1>7, <2>1 DEF IInv, UidsLeft, handVars
<1>10. HeldIds'
  <2>1. new \in m_events' /\ m_events \subseteq m_events'
    BY <1>1 DEF Insert
  <2>2. CurrentKey' = CurrentKey /\ pc' = pc /\ cancelled' = cancelled
    BY <1>1 DEF CurrentKey, clockVars, control
  <2>3. \A id \in ids : /\ id.uid = DestroyUid \/ (4 <= id.uid /\ id.uid < m_uid + 1)
                       /\ id.impl <= Len(made')
    BY <1>3, <1>7 DEF IInv, HeldIds, Types, EventIds
  <2>4. 4 <= new.uid /\ new.uid < m_uid + 1 /\ new.impl <= Len(made')
    BY <1>3, <1>7 DEF IInv, UidsLeft
  <2> QED
    BY <1>2, <1>6, <2>1, <2>2, <2>3, <2>4, Zenon DEF IInv, HeldIds, Before
<1>11. DestroyIds'
  BY <1>1 DEF IInv, DestroyIds
<1> QED
  BY <1>6, <1>8, <1>9, <1>10, <1>11 DEF IInv

\* The two flags are set to a Boolean or left alone by every step.
LEMMA FlagsStep == Flags /\ [Next]_vars => Flags'
<1> SUFFICES ASSUME Flags, [Next]_vars PROVE Flags'
  OBVIOUS
<1> USE DEF Flags
<1>1. CASE Calls
  BY <1>1, Zenon DEF Calls, Schedule, ScheduleWithContextMain, StopAfter, Stop,
     ScheduleDestroy, Cancel, RemoveDestroy, Remove, Run, Destroy, handVars
<1>2. CASE HandOver
  BY <1>2, Zenon DEF HandOver, TestFlag, Swap, Move, Moved, handVars
<1>3. CASE ProcessOneEvent
  <2>1. PICK next \in m_events : m_stop' = (next.impl \in stops)
    BY <1>3, Zenon DEF ProcessOneEvent
  <2>2. CASE next.impl \in stops
    BY <1>3, <2>1, <2>2, SMT DEF ProcessOneEvent, handVars
  <2>3. CASE next.impl \notin stops
    BY <1>3, <2>1, <2>3, SMT DEF ProcessOneEvent, handVars
  <2> QED
    BY <2>2, <2>3
<1>4. CASE Steps /\ ~ HandOver /\ ~ ProcessOneEvent
  BY <1>4, Zenon DEF Steps, ResetStop, RunReturns, EventReturns,
     DestroyOneEvent, DestroyEventReturns, DoDispose, DrainQueue, handVars
<1>5. CASE \E w \in Workers : LowerFlag(w) \/ \E d \in Delays : Push(w, d)
  BY <1>5, Zenon DEF LowerFlag, Push
<1>6. CASE UNCHANGED vars
  BY <1>6, Zenon DEF vars, handVars
<1> QED
  BY <1>1, <1>2, <1>3, <1>4, <1>5, <1>6 DEF Next

\* Whatever has been handed over is an event that was made.
LEMMA HandedOverImpls == ASSUME Types PROVE HandedOver \subseteq 1..MaxEvents
<1>1. ASSUME NEW k \in 1..(Len(m_eventsWithContext)
                          - (IF m_eventsWithContextMutex = NoThread THEN 0 ELSE 1))
      PROVE  m_eventsWithContext[k].impl \in 1..MaxEvents
  <2>1. m_eventsWithContext \in Seq(Handing) /\ k \in 1..Len(m_eventsWithContext)
    BY DEF Types
  <2>2. m_eventsWithContext[k] \in Handing
    BY <2>1
  <2> QED
    BY <2>2 DEF Handing
<1> QED
  BY <1>1 DEF HandedOver

\* The calls and the steps that are quiet.
LEMMA QuietSteps ==
  ASSUME IInv, Flags',
         \/ Stop \/ Run \/ Destroy \/ TestFlag \/ Moved \/ ResetStop
         \/ RunReturns \/ EventReturns \/ DestroyEventReturns \/ DoDispose
         \/ UNCHANGED vars
  PROVE  IInv'
<1>1. /\ UNCHANGED <<queueVars, clockVars, m_eventsWithContext, m_eventsWithContextMutex,
                     eventsWithContext, m_destroyEvents, cancelled, program, log>>
  BY Zenon DEF Stop, Run, Destroy, TestFlag, Moved, ResetStop, RunReturns, EventReturns,
     DestroyEventReturns, DoDispose, vars, handVars
<1>2. /\ pc' \in PcValues /\ caller' \in Callers
      /\ due' = due \/ due' = HandedOver
      /\ pc' = "destroyed" <=> pc = "destroyed"
  BY DEF Stop, Run, Destroy, TestFlag, Moved, ResetStop, RunReturns, EventReturns,
     DestroyEventReturns, DoDispose, vars, control, atCall, PcValues, Callers,
     CallProcessEventsWithContext, ReturnTo, IInv, Types
<1>3. HandedOver \subseteq 1..MaxEvents
  BY HandedOverImpls DEF IInv
<1>4. Types'
  BY <1>1, <1>2, <1>3 DEF IInv, Types, queueVars, clockVars, program
<1>5. UidsLeft' /\ Quiet
  BY <1>1, <1>2 DEF IInv, UidsLeft, Quiet, queueVars, program
<1> QED
  BY <1>4, <1>5, QuietStep

\* Main takes over the whole list of handed over events.
LEMMA SwapStep == ASSUME IInv, Flags', Swap PROVE IInv'
<1>1. eventsWithContext' \in Seq(Handing) /\ m_eventsWithContext' \in Seq(Handing)
  BY DEF IInv, Types, Swap
<1>2. Types'
  BY <1>1 DEF IInv, Types, Swap, queueVars, clockVars, program, atCall, PcValues
<1>3. UidsLeft' /\ Quiet
  <2>1. Len(m_eventsWithContext) \in Nat /\ Len(eventsWithContext) \in Nat /\ m_uid \in Nat
        /\ Len(m_eventsWithContext') = 0 /\ Len(made) \in Nat
    BY DEF IInv, Types, Swap
  <2> QED
    BY <2>1 DEF IInv, UidsLeft, Swap, Quiet, queueVars, program
<1> QED
  BY <1>2, <1>3, QuietStep

\* A thread that has pushed its event lowers the flag and leaves.
LEMMA LowerFlagStep == ASSUME IInv, Flags', NEW w \in Workers, LowerFlag(w) PROVE IInv'
<1>1. Types'
  BY DEF IInv, Types, LowerFlag, queueVars, clockVars, control, atCall, program
<1>2. UidsLeft' /\ Quiet
  BY DEF IInv, UidsLeft, LowerFlag, Quiet, queueVars, program, control
<1> QED
  BY <1>1, <1>2, QuietStep

\* A thread pushes an event on the list: the event uses a uid later, when it is moved.
LEMMA PushStep ==
  ASSUME IInv, Flags', NEW w \in Workers, NEW d \in Delays, Push(w, d)
  PROVE  IInv'
<1> USE NumbersAssumption
<1>1. /\ Len(made) < MaxEvents /\ made' = Append(made, w)
      /\ made' \in Seq(Workers \cup {Main}) /\ Len(made') = Len(made) + 1
      /\ Len(made) \in Nat /\ NewImpl \in 1..MaxEvents
  BY DEF IInv, Types, Push, Make, NewImpl
<1>2. /\ m_eventsWithContext' \in Seq(Handing)
      /\ Len(m_eventsWithContext') = Len(m_eventsWithContext) + 1
  BY <1>1 DEF IInv, Types, Push, Handing
<1>3. cancelled \subseteq 1..Len(made')
  BY <1>1 DEF IInv, Types
<1>4. Types'
  BY <1>1, <1>2, <1>3
     DEF IInv, Types, Push, queueVars, clockVars, control, atCall
<1>5. UidsLeft'
  <2>1. Len(m_eventsWithContext) \in Nat /\ Len(eventsWithContext) \in Nat /\ m_uid \in Nat
    BY DEF IInv, Types
  <2> QED
    BY <1>1, <1>2, <2>1 DEF IInv, UidsLeft, Push, queueVars
<1>6. QueueKeys' /\ DestroyIds' /\ Counted'
  BY DEF IInv, QueueKeys, DestroyIds, Counted, Push, queueVars,
     clockVars, control, Before, CurrentKey
<1>7. HeldIds'
  <2>1. \A id \in ids : id.impl <= Len(made')
    BY <1>1 DEF IInv, HeldIds, Types, EventIds
  <2> QED
    BY <2>1 DEF IInv, HeldIds, Push, queueVars, clockVars, control, Before, CurrentKey
<1> QED
  BY <1>4, <1>5, <1>6, <1>7 DEF IInv

\* Main inserts one of the events it took over.
LEMMA MoveStep == ASSUME NoWrap, IInv, Flags', Move PROVE IInv'
<1> DEFINE first == Head(eventsWithContext)
<1> USE NumbersAssumption
<1>1. /\ eventsWithContext \in Seq(Handing) /\ eventsWithContext # <<>>
      /\ first \in Handing /\ first.timestamp \in Nat /\ first.impl \in 1..MaxEvents
      /\ eventsWithContext' \in Seq(Handing)
      /\ Len(eventsWithContext') = Len(eventsWithContext) - 1 /\ Len(eventsWithContext) >= 1
  <2>1. /\ eventsWithContext \in Seq(Handing) /\ eventsWithContext # <<>>
        /\ eventsWithContext' = Tail(eventsWithContext)
    BY DEF IInv, Types, Move
  <2>2. /\ first \in Handing /\ Tail(eventsWithContext) \in Seq(Handing)
        /\ Len(Tail(eventsWithContext)) = Len(eventsWithContext) - 1
    BY <2>1, HeadTailProperties
  <2>3. Len(eventsWithContext) >= 1
    BY <2>1
  <2> QED
    BY <2>1, <2>2, <2>3 DEF Handing
<1>2. /\ Len(m_eventsWithContext) \in Nat /\ Len(eventsWithContext) \in Nat /\ m_uid \in Nat
      /\ Len(made) \in Nat /\ Len(made) <= MaxEvents /\ m_currentTs \in Nat
  BY DEF IInv, Types
<1>3. m_uid + 1 < UidMod
  BY <1>1, <1>2 DEF IInv, UidsLeft, NoWrap
<1>4. /\ m_currentTs + first.timestamp \in Nat
      /\ m_currentTs + first.timestamp >= m_currentTs
  BY <1>1, <1>2
<1>5. Insert(m_currentTs + first.timestamp, first.impl) /\ clockVars' = clockVars /\ pc' = pc
  BY DEF Move, control
<1>6. m_events' \subseteq EventIds /\ m_uid' = m_uid + 1 /\ QueueKeys' /\ Counted'
  BY <1>1, <1>3, <1>4, <1>5, InsertIsSound
<1>7. Types'
  BY <1>1, <1>2, <1>5, <1>6
     DEF IInv, Types, Move, clockVars, handVars, control, atCall, program, Insert
<1>8. UidsLeft'
  BY <1>1, <1>2, <1>6 DEF IInv, UidsLeft, Move, handVars, program
<1>9. HeldIds'
  <2>1. m_events \subseteq m_events'
    BY <1>5 DEF Insert
  <2>2. /\ CurrentKey' = CurrentKey /\ pc' = pc /\ cancelled' = cancelled
        /\ ids' = ids /\ made' = made
    BY <1>5 DEF CurrentKey, clockVars, Move, program
  <2>3. \A id \in ids : /\ id.uid = DestroyUid \/ (4 <= id.uid /\ id.uid < m_uid + 1)
                       /\ id.impl <= Len(made)
    BY <1>2 DEF IInv, HeldIds, Types, EventIds
  <2> QED
    BY <1>6, <2>1, <2>2, <2>3, Zenon DEF IInv, HeldIds, Before
<1>10. DestroyIds'
  BY DEF IInv, DestroyIds, Move
<1> QED
  BY <1>6, <1>7, <1>8, <1>9, <1>10 DEF IInv

\* A destroy event takes the reserved uid, and uses one up all the same.
LEMMA ScheduleDestroyStep == ASSUME NoWrap, IInv, Flags', ScheduleDestroy PROVE IInv'
<1> DEFINE id == [ts |-> m_currentTs, uid |-> DestroyUid, impl |-> NewImpl]
<1> USE NumbersAssumption
<1>1. /\ made \in Seq(Workers \cup {Main}) /\ Len(made) < MaxEvents
      /\ made' = Append(made, Main) /\ Len(made') = Len(made) + 1
      /\ NewImpl = Len(made) + 1 /\ NewImpl \in 1..MaxEvents
      /\ made' \in Seq(Workers \cup {Main})
  BY DEF IInv, Types, Make, NewImpl, ScheduleDestroy
<1>2. /\ Len(m_eventsWithContext) \in Nat /\ Len(eventsWithContext) \in Nat /\ m_uid \in Nat
      /\ m_currentTs \in Nat /\ Len(made) \in Nat /\ m_currentUid \in Nat
  BY DEF IInv, Types
<1>3. m_uid' = m_uid + 1
  <2>1. m_uid + 1 < UidMod
    BY <1>1, <1>2 DEF IInv, UidsLeft, NoWrap
  <2>2. m_uid' = (m_uid + 1) % UidMod
    BY DEF ScheduleDestroy, NextUid
  <2> QED
    BY <1>2, <2>1, <2>2
<1>4. id \in EventIds
  BY <1>1, <1>2 DEF EventIds, DestroyUid
<1>5. /\ m_destroyEvents' = Append(m_destroyEvents, id) /\ ids' = ids \cup {id}
      /\ m_destroyEvents \in Seq(EventIds) /\ m_destroyEvents' \in Seq(EventIds)
  BY <1>4 DEF ScheduleDestroy, IInv, Types
<1>6. Types'
  <2>1. cancelled \subseteq 1..Len(made')
    BY <1>1 DEF IInv, Types
  <2> QED
    BY <1>1, <1>2, <1>3, <1>4, <1>5, <2>1
       DEF IInv, Types, ScheduleDestroy, clockVars, handVars, control, atCall
<1>7. UidsLeft'
  BY <1>1, <1>2, <1>3 DEF IInv, UidsLeft, ScheduleDestroy, handVars
<1>8. QueueKeys' /\ Counted'
  <2>1. CurrentKey' = CurrentKey /\ m_currentUid' = m_currentUid /\ m_events' = m_events
    BY DEF CurrentKey, clockVars, ScheduleDestroy
  <2>2. \A e \in m_events : e.uid \in Nat
    BY DEF IInv, Types, EventIds
  <2> QED
    BY <1>2, <1>3, <2>1, <2>2 DEF IInv, QueueKeys, Counted, ScheduleDestroy, Before, control
<1>9. HeldIds'
  <2>1. CurrentKey' = CurrentKey /\ pc' = pc /\ cancelled' = cancelled /\ m_events' = m_events
    BY DEF CurrentKey, clockVars, ScheduleDestroy, control
  <2>2. \A i \in ids : /\ i.uid = DestroyUid \/ (4 <= i.uid /\ i.uid < m_uid + 1)
                      /\ i.impl <= Len(made')
    BY <1>1, <1>2 DEF IInv, HeldIds, Types, EventIds
  <2>3. id.uid = DestroyUid /\ id.impl <= Len(made')
    BY <1>1, <1>2
  <2> QED
    BY <1>3, <1>5, <2>1, <2>2, <2>3, Zenon DEF IInv, HeldIds, Before
<1>10. DestroyIds'
  BY <1>5 DEF IInv, DestroyIds
<1> QED
  BY <1>6, <1>7, <1>8, <1>9, <1>10 DEF IInv

\* What IsExpired says of an EventId is right as long as the simulator lives.
LEMMA NotExpired ==
  ASSUME IInv, NEW id \in ids, pc # "destroyed", ~ IsExpired(id)
  PROVE  /\ id.impl \notin cancelled
         /\ id.uid # DestroyUid => id \in m_events
         /\ id.uid = DestroyUid => \E k \in DOMAIN m_destroyEvents : m_destroyEvents[k] = id
  BY DEF IInv, HeldIds, IsExpired, CurrentKey

\* Cancel and Remove.
LEMMA CancelSteps ==
  ASSUME IInv, Flags', NEW id \in ids, Cancel(id) \/ Remove(id) \/ RemoveDestroy(id)
  PROVE  IInv'
<1>1. /\ id \in EventIds /\ id.impl \in 1..Len(made) /\ id.impl \in 1..MaxEvents
      /\ pc # "destroyed"
  BY DEF IInv, Types, HeldIds, EventIds, Cancel, Remove, RemoveDestroy, InProgram
<1>2. /\ UNCHANGED <<m_uid, clockVars, handVars, eventsWithContext, control,
                     made, ids, stops, log>>
      /\ revoked' = revoked \cup {id.impl}
      /\ cancelled' = cancelled \/ cancelled' = cancelled \cup {id.impl}
  BY DEF Cancel, Remove, RemoveDestroy, queueVars, clockVars
<1>3. /\ revoked' \subseteq 1..MaxEvents
      /\ cancelled' \subseteq 1..Len(made) /\ cancelled \subseteq cancelled'
  BY <1>1, <1>2 DEF IInv, Types
<1>4. CurrentKey' = CurrentKey
  BY <1>2 DEF clockVars, CurrentKey
<1>5. UidsLeft'
  BY <1>2 DEF IInv, UidsLeft, handVars
<1>6. CASE Cancel(id)
  <2>1. m_events' = m_events /\ m_destroyEvents' = m_destroyEvents
        /\ m_unscheduledEvents' = m_unscheduledEvents
    BY <1>6 DEF Cancel, queueVars
  <2>2. Types'
    BY <1>2, <1>3, <2>1 DEF IInv, Types, clockVars, handVars, control, atCall
  <2> QED
    BY <1>2, <1>3, <1>4, <1>5, <2>1, <2>2
       DEF IInv, QueueKeys, HeldIds, DestroyIds, Counted, clockVars, control, Before
<1>7. CASE Remove(id)
  <2>1. /\ m_events' = m_events \ {id} /\ m_destroyEvents' = m_destroyEvents
        /\ m_unscheduledEvents' = m_unscheduledEvents - 1
        /\ id.impl \in cancelled' /\ id \in m_events
    BY <1>1, <1>7, NotExpired DEF Remove
  <2>2. Types'
    BY <1>2, <1>3, <2>1 DEF IInv, Types, clockVars, handVars, control, atCall
  <2>3. Counted'
    BY <1>1, <2>1, TakeIsCounted DEF IInv
  <2>4. QueueKeys' /\ DestroyIds'
    BY <1>2, <1>4, <2>1 DEF IInv, QueueKeys, DestroyIds, clockVars
  <2>5. HeldIds'
    BY <1>2, <1>3, <1>4, <2>1 DEF IInv, HeldIds, control
  <2> QED
    BY <1>5, <2>2, <2>3, <2>4, <2>5 DEF IInv
<1>8. CASE RemoveDestroy(id)
  <2>1. PICK k \in DOMAIN m_destroyEvents : m_destroyEvents' = SeqX!RemoveAt(m_destroyEvents, k)
    BY <1>8 DEF RemoveDestroy
  <2>2. m_destroyEvents \in Seq(EventIds) /\ k \in 1..Len(m_destroyEvents)
    BY <2>1 DEF IInv, Types
  <2>3. /\ m_destroyEvents' \in Seq(EventIds)
        /\ \A j \in DOMAIN m_destroyEvents' :
              \E i \in DOMAIN m_destroyEvents : m_destroyEvents'[j] = m_destroyEvents[i]
    BY <2>1, <2>2, RemoveAtElements
  <2>4. m_events' = m_events /\ cancelled' = cancelled
        /\ m_unscheduledEvents' = m_unscheduledEvents
    BY <1>8 DEF RemoveDestroy, queueVars
  <2>5. Types'
    BY <1>2, <1>3, <2>3, <2>4 DEF IInv, Types, clockVars, handVars, control, atCall
  <2>6. DestroyIds'
    BY <2>3 DEF IInv, DestroyIds
  <2> QED
    BY <1>2, <1>4, <1>5, <2>4, <2>5, <2>6
       DEF IInv, QueueKeys, HeldIds, Counted, clockVars, control, Before
<1> QED
  BY <1>6, <1>7, <1>8

\* The event the main loop takes is the least of the queue.
LEMMA LoopStep == ASSUME IInv, Flags', ProcessOneEvent PROVE IInv'
<1>1. PICK next \in m_events :
        /\ IsNext(next, m_events)
        /\ m_events' = m_events \ {next}
        /\ m_currentTs' = next.ts /\ m_currentUid' = next.uid
        /\ pc' \in {"flag", "event"} /\ caller' \in {"ProcessOneEvent", caller}
        /\ due' \in {due, HandedOver}
        /\ log' \in {log, Append(log, next)}
  BY DEF ProcessOneEvent, CallProcessEventsWithContext, atCall
<1>2. /\ m_unscheduledEvents' = m_unscheduledEvents - 1 /\ pc = "loop"
      /\ UNCHANGED <<m_uid, m_eventsWithContext, m_eventsWithContextMutex,
                     eventsWithContext, m_destroyEvents, cancelled, program>>
  BY DEF ProcessOneEvent, handVars
<1>3. /\ next \in EventIds /\ next.ts \in Nat /\ next.uid \in Nat
      /\ m_currentTs \in Nat /\ m_currentUid \in Nat /\ m_uid \in Nat
      /\ next.uid < m_uid /\ Before(CurrentKey, next)
  BY <1>1 DEF IInv, Types, QueueKeys, EventIds
<1>4. Types'
  <2>1. HandedOver \subseteq 1..MaxEvents
    BY HandedOverImpls DEF IInv
  <2>2. pc' \in PcValues /\ caller' \in Callers /\ due' \subseteq 1..MaxEvents
    BY <1>1, <2>1 DEF PcValues, Callers, IInv, Types
  <2>3. log' \in Seq(EventIds)
    <3>1. log \in Seq(EventIds) /\ (log' = log \/ log' = Append(log, next))
      BY <1>1 DEF IInv, Types
    <3>2. Append(log, next) \in Seq(EventIds)
      BY <1>3, <3>1, AppendProperties
    <3> QED
      BY <3>1, <3>2
  <2>4. m_events' \subseteq EventIds /\ m_unscheduledEvents' \in Int
    BY <1>1, <1>2 DEF IInv, Types
  <2> QED
    BY <1>1, <1>2, <1>3, <2>2, <2>3, <2>4 DEF IInv, Types, program
<1>5. UidsLeft' /\ DestroyIds'
  BY <1>2 DEF IInv, UidsLeft, DestroyIds, program
<1>6. CurrentKey' = [ts |-> next.ts, uid |-> next.uid]
  BY <1>1 DEF CurrentKey
<1>7. QueueKeys'
  <2>1. \A e \in m_events' : Before(CurrentKey', e)
    BY <1>1, <1>6 DEF IsNext, Before
  <2> QED
    BY <1>1, <1>2, <1>3, <2>1 DEF IInv, QueueKeys
<1>8. HeldIds'
  <2>1. ASSUME NEW id \in ids, id.uid # DestroyUid, Before(CurrentKey', id)
        PROVE  id # next /\ Before(CurrentKey, id)
    <3>1. id.ts \in Nat /\ id.uid \in Nat
      BY DEF IInv, Types, EventIds
    <3>2. ~ Before(CurrentKey', next)
      BY <1>3, <1>6 DEF Before
    <3>3. Before(CurrentKey, id)
      BY <1>3, <1>6, <2>1, <3>1 DEF Before, CurrentKey
    <3> QED
      BY <2>1, <3>2, <3>3
  <2> QED
    BY <1>1, <1>2, <2>1 DEF IInv, HeldIds, program
<1>9. Counted'
  BY <1>1, <1>2, TakeIsCounted DEF IInv
<1> QED
  BY <1>4, <1>5, <1>7, <1>8, <1>9 DEF IInv

\* The end of the simulator: the destroy events, and the queue emptied.
LEMMA DestroySteps == ASSUME IInv, Flags', DestroyOneEvent \/ DrainQueue PROVE IInv'
<1>1. CASE DestroyOneEvent
  <2>1. /\ m_destroyEvents \in Seq(EventIds) /\ m_destroyEvents # <<>>
        /\ m_destroyEvents' = Tail(m_destroyEvents) /\ log \in Seq(EventIds)
        /\ pc = "destroy" /\ pc' \in {"destroy", "destroyEvent"}
        /\ log' \in {log, Append(log, Head(m_destroyEvents))}
    BY <1>1 DEF IInv, Types, DestroyOneEvent
  <2>2. /\ Head(m_destroyEvents) \in EventIds /\ m_destroyEvents' \in Seq(EventIds)
        /\ \A j \in 1..Len(m_destroyEvents') : m_destroyEvents'[j] = m_destroyEvents[j + 1]
        /\ Len(m_destroyEvents') = Len(m_destroyEvents) - 1
    BY <2>1, HeadTailProperties
  <2>3. log' \in Seq(EventIds)
    <3>1. log \in Seq(EventIds) /\ (log' = log \/ log' = Append(log, Head(m_destroyEvents)))
      BY <2>1
    <3>2. Head(m_destroyEvents) \in EventIds
      BY <2>2
    <3> QED
      BY ONLY <3>1, <3>2, AppendProperties
  <2>4. Types'
    BY <1>1, <2>1, <2>2, <2>3
       DEF IInv, Types, DestroyOneEvent, queueVars, clockVars, handVars, atCall, program, PcValues
  <2>5. DestroyIds'
    <3>1. \A j \in 1..Len(m_destroyEvents') : j + 1 \in 1..Len(m_destroyEvents)
      BY <2>1, <2>2
    <3> QED
      BY <2>1, <2>2, <3>1 DEF IInv, DestroyIds
  <2> QED
    BY <1>1, <2>1, <2>4, <2>5
       DEF IInv, UidsLeft, QueueKeys, HeldIds, Counted, DestroyOneEvent, CurrentKey,
           Before, queueVars, clockVars, handVars, program
<1>2. CASE DrainQueue
  <2>1. Types'
    BY <1>2 DEF IInv, Types, DrainQueue, clockVars, handVars, atCall, program, PcValues
  <2> QED
    BY <1>2, <2>1 DEF IInv, UidsLeft, QueueKeys, HeldIds, DestroyIds, Counted, DrainQueue,
       CurrentKey, Before, clockVars, handVars, program
<1> QED
  BY <1>1, <1>2

-----------------------------------------------------------------------------
(* The theorems. *)

\* The invariant is inductive: every call and every step of every thread keeps it.
LEMMA NextIInv == NoWrap /\ IInv /\ [Next]_vars => IInv'
<1> SUFFICES ASSUME NoWrap, IInv, [Next]_vars PROVE IInv'
  OBVIOUS
<1>1. Flags'
  BY FlagsStep DEF IInv
<1>2. ASSUME NEW d \in Delays, Schedule(d) \/ ScheduleWithContextMain(d) \/ StopAfter(d)
      PROVE  IInv'
  BY <1>1, <1>2, MainInserts
<1>3. ASSUME NEW id \in ids, Cancel(id) \/ RemoveDestroy(id) \/ Remove(id) PROVE IInv'
  BY <1>1, <1>3, CancelSteps
<1>4. ASSUME ScheduleDestroy PROVE IInv'
  BY <1>1, <1>4, ScheduleDestroyStep
<1>5. ASSUME \/ Stop \/ Run \/ Destroy \/ TestFlag \/ Moved \/ ResetStop
             \/ RunReturns \/ EventReturns \/ DestroyEventReturns \/ DoDispose
             \/ UNCHANGED vars
      PROVE  IInv'
  BY <1>1, <1>5, QuietSteps
<1>6. ASSUME Swap PROVE IInv'
  BY <1>1, <1>6, SwapStep
<1>7. ASSUME Move PROVE IInv'
  BY <1>1, <1>7, MoveStep
<1>8. ASSUME ProcessOneEvent PROVE IInv'
  BY <1>1, <1>8, LoopStep
<1>9. ASSUME DestroyOneEvent \/ DrainQueue PROVE IInv'
  BY <1>1, <1>9, DestroySteps
<1>10. ASSUME NEW w \in Workers, LowerFlag(w) \/ \E d \in Delays : Push(w, d) PROVE IInv'
  <2>1. CASE \E d \in Delays : Push(w, d)
    BY <1>1, <2>1, PushStep
  <2>2. CASE LowerFlag(w)
    BY <1>1, <2>2, LowerFlagStep
  <2> QED
    BY <1>10, <2>1, <2>2
<1> QED
  BY <1>2, <1>3, <1>4, <1>5, <1>6, <1>7, <1>8, <1>9, <1>10, Zenon
     DEF Next, Calls, Steps, HandOver

\* The inductive invariant holds in every state, when the uids do not wrap.
LEMMA Invariance == ASSUME NoWrap PROVE Spec => []IInv
<1>1. Init => IInv
  BY InitIInv
<1>2. IInv /\ [Next]_vars => IInv'
  BY NextIInv
<1> QED
  BY <1>1, <1>2, PTL DEF Spec

\* The variables keep their types; in particular the count of unscheduled events,
\* an int that every run and every removal of an event lowers, is never negative.
THEOREM TypeCorrect == ASSUME NoWrap PROVE Spec => []TypeOK
<1>1. IInv => TypeOK
  <2> SUFFICES ASSUME IInv PROVE TypeOK
    OBVIOUS
  <2>1. /\ Len(m_eventsWithContext) \in Nat /\ Len(eventsWithContext) \in Nat
        /\ Len(made) \in Nat /\ Len(made) <= MaxEvents /\ m_uid \in Nat /\ m_currentUid \in Nat
        /\ UidMod \in Nat /\ MaxEvents \in Nat
    BY NumbersAssumption DEF IInv, Types
  <2>2. m_uid \in 0..(UidMod - 1) /\ m_currentUid \in 0..(UidMod - 1)
    BY <2>1 DEF IInv, UidsLeft, QueueKeys, NoWrap
  <2>3. cancelled \subseteq 1..MaxEvents
    BY <2>1 DEF IInv, Types
  <2>4. m_stop \in BOOLEAN /\ m_eventsWithContextEmpty \in BOOLEAN
    BY Zenon DEF IInv, Flags
  <2>5. m_unscheduledEvents \in Nat
    BY DEF IInv, Counted
  <2> QED
    BY <2>2, <2>3, <2>4, <2>5 DEF IInv, Types, TypeOK, Handing
<1> QED
  BY <1>1, Invariance, PTL

\* IsExpired compares keys; of an event of the queue its answer is exact in every
\* reachable state.
THEOREM ExpiryCorrect == ASSUME NoWrap PROVE Spec => []ExpiryIsExact
<1>1. IInv => ExpiryIsExact
  <2> SUFFICES ASSUME IInv, pc # "destroyed", NEW id \in ids, id.uid # DestroyUid
               PROVE  ~ IsExpired(id) <=> (id \in m_events /\ id.impl \notin cancelled)
    BY DEF ExpiryIsExact
  <2>1. ASSUME ~ IsExpired(id) PROVE id \in m_events /\ id.impl \notin cancelled
    BY <2>1, NotExpired
  <2>2. ASSUME id \in m_events, id.impl \notin cancelled PROVE ~ IsExpired(id)
    BY <2>2 DEF IsExpired, IInv, QueueKeys, CurrentKey
  <2> QED
    BY <2>1, <2>2
<1> QED
  BY <1>1, Invariance, PTL

\* The events run in the strict order of their keys, through all calls of the
\* events, all hand-overs by other threads and all calls of Run.
THEOREM RunInOrder == ASSUME NoWrap PROVE Spec => EventsRunInOrder
<1>1. IInv /\ [Next]_vars => [clockVars' # clockVars => Before(CurrentKey, CurrentKey')]_vars
  <2> SUFFICES ASSUME IInv, Next, clockVars' # clockVars
               PROVE  Before(CurrentKey, CurrentKey')
    OBVIOUS
  <2>1. ProcessOneEvent
    BY Zenon DEF Next, Calls, Steps, HandOver, Schedule, ScheduleWithContextMain, StopAfter,
       Cancel, RemoveDestroy, Remove, ScheduleDestroy, Stop, Run, Destroy, TestFlag, Swap,
       Move, Moved, ResetStop, RunReturns, EventReturns, DestroyOneEvent,
       DestroyEventReturns, DoDispose, DrainQueue, LowerFlag, Push
  <2>2. PICK next \in m_events : m_currentTs' = next.ts /\ m_currentUid' = next.uid
    BY <2>1 DEF ProcessOneEvent
  <2>3. Before(CurrentKey, next)
    BY <2>2 DEF IInv, QueueKeys
  <2> QED
    BY <2>2, <2>3 DEF Before, CurrentKey
<1> QED
  BY <1>1, Invariance, PTL DEF Spec, EventsRunInOrder
=============================================================================
