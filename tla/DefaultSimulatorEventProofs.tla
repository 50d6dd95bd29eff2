-------------------- MODULE DefaultSimulatorEventProofs --------------------
(***************************************************************************)
(* More proofs about DefaultSimulator: what becomes of each event, from    *)
(* the call that makes it to its run, over all interleavings of the main   *)
(* thread with the threads that hand events over.                          *)
(***************************************************************************)
EXTENDS DefaultSimulatorProofs

-----------------------------------------------------------------------------
(* The invariants, each inductive once those before it are known. *)

\* The implementations a sequence of events mentions.
ImplsOf(s) == {s[k].impl : k \in DOMAIN s}

\* A list in the order in which its events were made.
Increasing(s) == \A j, k \in DOMAIN s : j < k => s[j].impl < s[k].impl

Queued  == {e.impl : e \in m_events}
Waiting == ImplsOf(eventsWithContext) \cup ImplsOf(m_eventsWithContext)
ToDestroy == ImplsOf(m_destroyEvents)

\* The lists are in the order of creation, and an event is in one place only.
Lists ==
  /\ Increasing(m_eventsWithContext) /\ Increasing(eventsWithContext)
  /\ Increasing(m_destroyEvents)
  /\ \A i \in ImplsOf(eventsWithContext), j \in ImplsOf(m_eventsWithContext) : i < j
OnceEach ==
  /\ \A e, f \in m_events : e.impl = f.impl => e = f
  /\ \A j, k \in DOMAIN log : log[j].impl = log[k].impl => j = k
Apart ==
  /\ Queued \cap Waiting = {} /\ Queued \cap ToDestroy = {} /\ Queued \cap Logged = {}
  /\ Waiting \cap ToDestroy = {} /\ Waiting \cap Logged = {} /\ ToDestroy \cap Logged = {}

\* All of them were made, and all that were made are somewhere.
AllMade == Waiting \cup Queued \cup ToDestroy \cup Logged \cup revoked \subseteq Impls
AllThere ==
  pc # "destroyed" => Impls \subseteq Waiting \cup Queued \cup ToDestroy \cup Logged \cup revoked

\* A revoked event has not run, and cannot: if it is still in the queue or in the
\* list of destroy events then it is cancelled.
RevokedIsOut ==
  /\ revoked \cap Waiting = {} /\ revoked \cap Logged = {}
  /\ revoked \cap (Queued \cup ToDestroy) \subseteq cancelled
  /\ cancelled \subseteq revoked

\* The list main has swapped out is local to ProcessEventsWithContext.
LocalInv == pc # "move" => eventsWithContext = <<>>

PlaceInv == Lists /\ OnceEach /\ Apart /\ AllMade /\ AllThere /\ RevokedIsOut

\* The events that have a uid of their own: queued, or run by the main loop.
Keyed == m_events \cup {log[k] : k \in {k \in DOMAIN log : log[k].uid # DestroyUid}}

\* The uids of the events of one thread are in the order of creation, and the
\* events still to come into the queue were made after those that are.
UidOrder ==
  /\ \A e \in Keyed : 4 <= e.uid /\ e.uid < m_uid
  /\ \A e, f \in Keyed : made[e.impl] = made[f.impl] /\ e.uid < f.uid => e.impl < f.impl
  /\ \A w \in Waiting :
       /\ made[w] \in Workers
       /\ \A e \in Keyed : made[e.impl] = made[w] => e.impl < w

\* The main loop runs the events in the order of their keys.
LogOrder ==
  /\ \A j, k \in DOMAIN log :
       j < k /\ log[j].uid # DestroyUid /\ log[k].uid # DestroyUid => Before(log[j], log[k])
  /\ \A k \in DOMAIN log : log[k].uid # DestroyUid => ~ Before(CurrentKey, log[k])
OrderInv == UidOrder /\ LogOrder

\* A destroy event is in the list, or has run before all that are in the list.
DestroyData ==
  /\ \A id \in ids : id.uid = DestroyUid => id.impl \in ToDestroy \cup Logged \cup revoked
  /\ \A k \in DOMAIN log : log[k].uid = DestroyUid => \A i \in ToDestroy : log[k].impl < i
  /\ \A j, k \in DOMAIN log :
       j < k /\ log[j].uid = DestroyUid /\ log[k].uid = DestroyUid => log[j].impl < log[k].impl

\* When the simulator is disposed of, the list is empty.
DestroyControl ==
  /\ pc \in {"drain", "destroyed"} => caller = "DoDispose"
  /\ caller = "DoDispose" /\ pc \in {"flag", "swap", "move", "drain", "destroyed"}
       => m_destroyEvents = <<>>
DestroyInv == DestroyData /\ DestroyControl

\* While the flag is up, nothing is entirely handed over; main passes it, or takes
\* the list, before it goes on.
DueInv ==
  /\ due \subseteq Impls
  /\ m_eventsWithContextEmpty =>
       Len(m_eventsWithContext) <= IF m_eventsWithContextMutex = NoThread THEN 0 ELSE 1
  /\ pc = "flag" => due \subseteq HandedOver
  /\ pc \notin {"flag", "swap"} => due \cap ImplsOf(m_eventsWithContext) = {}

-----------------------------------------------------------------------------
(* Facts about lists of events. *)

\* Appending adds one implementation, at the end.
LEMMA ImplsAppend ==
  ASSUME NEW S, NEW s \in Seq(S), NEW x \in S
  PROVE  /\ ImplsOf(Append(s, x)) = ImplsOf(s) \cup {x.impl}
         /\ Len(Append(s, x)) = Len(s) + 1
         /\ \A k \in 1..Len(s) : Append(s, x)[k] = s[k]
         /\ Append(s, x)[Len(s) + 1] = x
         /\ Len(s) \in Nat /\ DOMAIN s = 1..Len(s)
         /\ DOMAIN Append(s, x) = 1..(Len(s) + 1)
<1> DEFINE t == Append(s, x)
<1>1. /\ Len(t) = Len(s) + 1 /\ \A k \in 1..Len(s) : t[k] = s[k]
      /\ t[Len(s) + 1] = x /\ Len(s) \in Nat /\ t \in Seq(S)
  BY AppendProperties
<1>2. DOMAIN s = 1..Len(s) /\ DOMAIN t = 1..(Len(s) + 1)
  BY <1>1
<1> HIDE DEF t
<1>3. ImplsOf(t) = ImplsOf(s) \cup {x.impl}
  <2>1. \A k \in DOMAIN t : k \in DOMAIN s \/ k = Len(s) + 1
    BY <1>1, <1>2
  <2>2. DOMAIN s \subseteq DOMAIN t /\ Len(s) + 1 \in DOMAIN t
    BY <1>1, <1>2
  <2> QED
    BY <1>1, <1>2, <2>1, <2>2, Zenon DEF ImplsOf
<1> QED
  BY <1>1, <1>2, <1>3 DEF t

\* A list stays in order when a newer event is appended.
LEMMA IncreasingAppend ==
  ASSUME NEW S, NEW s \in Seq(S), NEW x \in S, Increasing(s),
         \A i \in ImplsOf(s) : i < x.impl
  PROVE  Increasing(Append(s, x))
<1> DEFINE t == Append(s, x)
<1>1. /\ \A k \in 1..Len(s) : t[k] = s[k]
      /\ t[Len(s) + 1] = x
      /\ Len(s) \in Nat /\ DOMAIN s = 1..Len(s) /\ DOMAIN t = 1..(Len(s) + 1)
  BY ImplsAppend
<1> HIDE DEF t
<1>2. \A k \in 1..Len(s) : s[k].impl < x.impl
  BY <1>1 DEF ImplsOf
<1>3. \A j, k \in 1..(Len(s) + 1) : j < k => t[j].impl < t[k].impl
  BY <1>1, <1>2 DEF Increasing
<1> QED
  BY <1>1, <1>3 DEF t, Increasing

\* Taking the head away takes exactly its implementation away.
LEMMA ImplsTail ==
  ASSUME NEW S, \A x \in S : x.impl \in Nat,
         NEW s \in Seq(S), s # <<>>, Increasing(s)
  PROVE  /\ Head(s) \in S /\ Tail(s) \in Seq(S)
         /\ ImplsOf(Tail(s)) = ImplsOf(s) \ {Head(s).impl}
         /\ Head(s).impl \in ImplsOf(s)
         /\ \A i \in ImplsOf(Tail(s)) : Head(s).impl < i
         /\ Increasing(Tail(s))
<1> DEFINE t == Tail(s)
<1>1. /\ Head(s) \in S /\ t \in Seq(S) /\ Len(t) = Len(s) - 1
      /\ \A k \in 1..Len(t) : t[k] = s[k + 1]
  BY HeadTailProperties
<1>2. /\ Len(s) \in Nat /\ Len(s) >= 1 /\ DOMAIN s = 1..Len(s) /\ DOMAIN t = 1..(Len(s) - 1)
      /\ Head(s) = s[1]
  BY <1>1
<1>3. \A k \in DOMAIN s : s[k].impl \in Nat
  BY ElementOfSeq
<1> HIDE DEF t
<1>4. \A k \in DOMAIN t : k + 1 \in DOMAIN s /\ t[k] = s[k + 1] /\ s[1].impl < s[k + 1].impl
  <2> SUFFICES ASSUME NEW k \in DOMAIN t
               PROVE  k + 1 \in DOMAIN s /\ t[k] = s[k + 1] /\ s[1].impl < s[k + 1].impl
    OBVIOUS
  <2>1. k \in Nat /\ 1 < k + 1 /\ k + 1 \in DOMAIN s /\ 1 \in DOMAIN s /\ k \in 1..Len(t)
    BY <1>1, <1>2
  <2>2. t[k] = s[k + 1]
    BY <1>1, <2>1
  <2>3. s[1].impl < s[k + 1].impl
    BY <2>1 DEF Increasing
  <2> QED
    BY <2>1, <2>2, <2>3
<1>5. \A k \in DOMAIN s : k # 1 => k - 1 \in DOMAIN t /\ s[k] = t[k - 1]
  BY <1>1, <1>2
<1>6. 1 \in DOMAIN s
  BY <1>2
<1>7. \A i \in ImplsOf(t) : Head(s).impl < i /\ i \in ImplsOf(s)
  BY <1>2, <1>4 DEF ImplsOf
<1>8. \A i \in ImplsOf(s) : i # Head(s).impl => i \in ImplsOf(t)
  BY <1>2, <1>5 DEF ImplsOf
<1>9. Head(s).impl \in ImplsOf(s)
  BY <1>2, <1>6 DEF ImplsOf
<1>10. Head(s).impl \in Nat
  BY <1>2, <1>3, <1>6
<1>11. ImplsOf(t) = ImplsOf(s) \ {Head(s).impl}
  BY <1>7, <1>8, <1>10
<1>12. Increasing(t)
  BY <1>1, <1>2, <1>4 DEF Increasing
<1> QED
  BY <1>1, <1>7, <1>9, <1>11, <1>12 DEF t

\* So does erasing any one of a list.
LEMMA ImplsRemoveAt ==
  ASSUME NEW S, \A x \in S : x.impl \in Nat,
         NEW s \in Seq(S), Increasing(s), NEW n \in DOMAIN s
  PROVE  /\ ImplsOf(SeqX!RemoveAt(s, n)) = ImplsOf(s) \ {s[n].impl}
         /\ Increasing(SeqX!RemoveAt(s, n))
<1> DEFINE a == SubSeq(s, 1, n - 1)
           b == SubSeq(s, n + 1, Len(s))
           t == SeqX!RemoveAt(s, n)
<1>0. n \in 1..Len(s) /\ Len(s) \in Nat /\ DOMAIN s = 1..Len(s)
  OBVIOUS
<1>1. a \in Seq(S) /\ Len(a) = n - 1 /\ \A j \in 1..(n - 1) : a[j] = s[j]
  BY <1>0
<1>2. /\ b \in Seq(S) /\ Len(b) = Len(s) - n
      /\ \A j \in 1..(Len(s) - n) : b[j] = s[n + j]
  BY <1>0
<1>3. t = a \o b
  BY DEF SeqX!RemoveAt
<1> HIDE DEF a, b, t
<1> DEFINE from(j) == IF j < n THEN j ELSE j + 1
<1>4. /\ t \in Seq(S) /\ Len(t) = Len(a) + Len(b)
      /\ \A j \in 1..(Len(a) + Len(b)) : t[j] = IF j <= Len(a) THEN a[j] ELSE b[j - Len(a)]
  BY <1>1, <1>2, <1>3, ConcatProperties
<1>5. Len(a) + Len(b) = Len(s) - 1 /\ Len(t) = Len(s) - 1 /\ DOMAIN t = 1..(Len(s) - 1)
  BY <1>0, <1>1, <1>2, <1>4
<1>6. \A j \in DOMAIN t : from(j) \in DOMAIN s /\ from(j) # n /\ t[j] = s[from(j)]
  <2> SUFFICES ASSUME NEW j \in DOMAIN t
               PROVE  from(j) \in DOMAIN s /\ from(j) # n /\ t[j] = s[from(j)]
    OBVIOUS
  <2>1. j \in 1..(Len(s) - 1) /\ j \in Nat /\ t[j] = IF j <= Len(a) THEN a[j] ELSE b[j - Len(a)]
    BY <1>0, <1>4, <1>5
  <2>2. CASE j < n
    <3>1. j \in 1..(n - 1) /\ t[j] = a[j]
      BY <1>0, <1>1, <2>1, <2>2
    <3> QED
      BY <1>0, <1>1, <2>1, <2>2, <3>1
  <2>3. CASE ~ (j < n)
    <3>1. /\ j - Len(a) \in 1..(Len(s) - n) /\ t[j] = b[j - Len(a)]
          /\ n + (j - Len(a)) = j + 1
      BY <1>0, <1>1, <2>1, <2>3
    <3>2. t[j] = s[j + 1]
      BY <1>2, <3>1
    <3> QED
      BY <1>0, <2>1, <2>3, <3>2
  <2> QED
    BY <2>2, <2>3
<1>7. \A j, k \in DOMAIN t : j < k => from(j) < from(k)
  BY <1>0, <1>5
<1>8. \A k \in DOMAIN s : s[k].impl \in Nat
  BY ElementOfSeq
<1>9. \A k \in DOMAIN s : k # n => s[k].impl # s[n].impl
  BY <1>0, <1>8 DEF Increasing
<1>10. \A j \in DOMAIN t : \E k \in DOMAIN s : k # n /\ t[j] = s[k]
  BY <1>6
<1>11. \A k \in DOMAIN s : k # n => \E j \in DOMAIN t : t[j] = s[k]
  <2> SUFFICES ASSUME NEW k \in DOMAIN s, k # n PROVE \E j \in DOMAIN t : t[j] = s[k]
    OBVIOUS
  <2>1. CASE k < n
    <3>1. k \in DOMAIN t /\ from(k) = k
      BY <1>0, <1>5, <2>1
    <3> QED
      BY <1>6, <3>1
  <2>2. CASE k > n
    <3>1. k - 1 \in DOMAIN t /\ from(k - 1) = k
      BY <1>0, <1>5, <2>2
    <3> QED
      BY <1>6, <3>1
  <2> QED
    BY <1>0, <2>1, <2>2
<1>12. ImplsOf(t) = ImplsOf(s) \ {s[n].impl}
  BY <1>9, <1>10, <1>11 DEF ImplsOf
<1> HIDE DEF from
<1>13. Increasing(t)
  BY <1>6, <1>7 DEF Increasing
<1> QED
  BY <1>12, <1>13 DEF t

-----------------------------------------------------------------------------
(* Each event is in one place. *)

\* The lists mention implementations, which are numbers.
LEMMA ListsAreTyped ==
  ASSUME IInv
  PROVE  /\ m_eventsWithContext \in Seq(Handing) /\ eventsWithContext \in Seq(Handing)
         /\ m_destroyEvents \in Seq(EventIds) /\ log \in Seq(EventIds)
         /\ m_events \subseteq EventIds /\ ids \subseteq EventIds
         /\ \A x \in Handing : x.impl \in Nat
         /\ \A x \in EventIds : x.impl \in Nat
         /\ Len(made) \in Nat /\ Impls \subseteq Nat
         /\ Logged = ImplsOf(log)
  BY NumbersAssumption DEF IInv, Types, Handing, EventIds, Logged, ImplsOf, Impls

\* Before the program makes a call there are no events.
LEMMA InitPlaces == Init => PlaceInv
<1> SUFFICES ASSUME Init PROVE PlaceInv
  OBVIOUS
<1>1. /\ m_events = {} /\ eventsWithContext = <<>> /\ m_eventsWithContext = <<>>
      /\ m_destroyEvents = <<>> /\ log = <<>> /\ cancelled = {} /\ revoked = {} /\ made = <<>>
  BY DEF Init
<1>2. Queued = {} /\ Waiting = {} /\ ToDestroy = {} /\ Logged = {} /\ Impls = {}
  BY <1>1 DEF Queued, Waiting, ToDestroy, Logged, ImplsOf, Impls
<1>3. Lists
  BY <1>1 DEF Lists, Increasing, ImplsOf
<1>4. OnceEach
  BY <1>1 DEF OnceEach
<1> QED
  BY <1>1, <1>2, <1>3, <1>4 DEF PlaceInv, Apart, AllMade, AllThere, RevokedIsOut

placeVars == <<m_events, m_eventsWithContext, eventsWithContext, m_destroyEvents,
               cancelled, made, revoked, log>>
StaysAlive == pc' = "destroyed" <=> pc = "destroyed"

\* A step that moves no event.
LEMMA StillPlaces ==
  ASSUME PlaceInv, UNCHANGED placeVars, StaysAlive
  PROVE  PlaceInv'
<1>1. /\ Queued' = Queued /\ Waiting' = Waiting /\ ToDestroy' = ToDestroy
      /\ Logged' = Logged /\ Impls' = Impls
  BY DEF placeVars, Queued, Waiting, ToDestroy, Logged, ImplsOf, Impls
<1>2. Lists' /\ OnceEach'
  BY DEF placeVars, PlaceInv, Lists, OnceEach, Increasing, ImplsOf
<1>3. revoked' = revoked /\ cancelled' = cancelled
  BY DEF placeVars
<1> QED
  BY <1>1, <1>2, <1>3 DEF PlaceInv, Apart, AllMade, AllThere, RevokedIsOut, StaysAlive

\* These steps move none.
LEMMA StillSteps ==
  ASSUME IInv,
         \/ Stop \/ Run \/ Destroy \/ TestFlag \/ Moved \/ ResetStop
         \/ RunReturns \/ EventReturns \/ DestroyEventReturns \/ DoDispose
         \/ (\E w \in Workers : LowerFlag(w))
         \/ UNCHANGED vars
  PROVE  UNCHANGED placeVars /\ StaysAlive /\ UNCHANGED <<ids, m_uid, clockVars>>
<1>1. caller \in Callers
  BY DEF IInv, Types
<1>2. ReturnTo[caller] \in {"reset", "loop", "drain"}
  BY <1>1 DEF ReturnTo, Callers
<1>3. CASE Stop \/ Run \/ Destroy \/ ResetStop \/ RunReturns
  BY <1>3 DEF Stop, Run, Destroy, ResetStop, RunReturns, placeVars, StaysAlive, InProgram,
     queueVars, handVars, program, control, CallProcessEventsWithContext
<1>4. CASE TestFlag \/ Moved
  BY <1>2, <1>4 DEF TestFlag, Moved, placeVars, StaysAlive, queueVars, handVars, program
<1>5. CASE EventReturns \/ DestroyEventReturns \/ DoDispose
  BY <1>5 DEF EventReturns, DestroyEventReturns, DoDispose, placeVars, StaysAlive, queueVars,
     handVars, program, CallProcessEventsWithContext
<1>6. CASE \E w \in Workers : LowerFlag(w)
  BY <1>6 DEF LowerFlag, placeVars, StaysAlive, queueVars, program, control
<1>7. CASE UNCHANGED vars
  BY <1>7 DEF vars, placeVars, StaysAlive, queueVars, handVars, program, control
<1> QED
  BY <1>3, <1>4, <1>5, <1>6, <1>7

\* The event that a call makes is in no place yet.
LEMMA NewIsNowhere ==
  ASSUME IInv, PlaceInv, NEW t, Make(t)
  PROVE  /\ NewImpl \in 1..MaxEvents /\ NewImpl \notin Impls /\ \A i \in Impls : i < NewImpl
         /\ NewImpl \notin Waiting \cup Queued \cup ToDestroy \cup Logged \cup revoked \cup cancelled
         /\ Impls' = Impls \cup {NewImpl}
<1>1. made \in Seq(Workers \cup {Main}) /\ Len(made) \in Nat /\ Len(made) < MaxEvents
  BY DEF IInv, Types, Make
<1>2. made' = Append(made, t) /\ Len(made') = Len(made) + 1
  BY <1>1 DEF Make
<1>3. /\ NewImpl \in 1..MaxEvents /\ NewImpl \notin Impls /\ \A i \in Impls : i < NewImpl
      /\ Impls' = Impls \cup {NewImpl}
  BY <1>1, <1>2, NumbersAssumption DEF NewImpl, Impls
<1> QED
  BY <1>3 DEF PlaceInv, AllMade, RevokedIsOut

\* An event enters the queue.
LEMMA QueueGrows ==
  ASSUME NEW ts, NEW impl, Insert(ts, impl)
  PROVE  Queued' = Queued \cup {impl}
<1> DEFINE new == [ts |-> ts, uid |-> m_uid, impl |-> impl]
<1>1. m_events' = m_events \cup {new} /\ new.impl = impl
  BY DEF Insert
<1> HIDE DEF new
<1> QED
  BY <1>1 DEF Queued

\* The calls of main that make an event for the queue.
LEMMA PlacesMainInserts ==
  ASSUME IInv, PlaceInv, NEW d \in Delays,
         Schedule(d) \/ ScheduleWithContextMain(d) \/ StopAfter(d)
  PROVE  PlaceInv'
<1>1. /\ Make(Main) /\ Insert(m_currentTs + d, NewImpl) /\ pc # "destroyed" /\ pc' = pc
      /\ UNCHANGED <<m_eventsWithContext, eventsWithContext, m_destroyEvents,
                     cancelled, revoked, log>>
  BY DEF Schedule, ScheduleWithContextMain, StopAfter, InProgram, handVars, control
<1>2. /\ NewImpl \notin Waiting \cup Queued \cup ToDestroy \cup Logged \cup revoked \cup cancelled
      /\ Impls' = Impls \cup {NewImpl}
  BY <1>1, NewIsNowhere
<1>3. Queued' = Queued \cup {NewImpl}
  BY <1>1, QueueGrows
<1>4. Waiting' = Waiting /\ ToDestroy' = ToDestroy /\ Logged' = Logged
  BY <1>1 DEF Waiting, ToDestroy, Logged, ImplsOf
<1>5. Lists'
  BY <1>1 DEF PlaceInv, Lists, Increasing, ImplsOf
<1>6. OnceEach'
  <2> DEFINE new == [ts |-> m_currentTs + d, uid |-> m_uid, impl |-> NewImpl]
  <2>1. m_events' = m_events \cup {new} /\ new.impl = NewImpl
    BY <1>1 DEF Insert
  <2>2. \A e \in m_events : e.impl # NewImpl
    BY <1>2 DEF Queued
  <2> HIDE DEF new
  <2> QED
    BY <1>1, <2>1, <2>2, Zenon DEF PlaceInv, OnceEach
<1>7. Apart' /\ AllMade' /\ AllThere'
  BY <1>1, <1>2, <1>3, <1>4 DEF PlaceInv, Apart, AllMade, AllThere
<1>8. RevokedIsOut'
  BY <1>1, <1>2, <1>3, <1>4 DEF PlaceInv, RevokedIsOut
<1> QED
  BY <1>5, <1>6, <1>7, <1>8 DEF PlaceInv

\* ScheduleDestroy puts the new event at the end of the list.
LEMMA PlacesScheduleDestroy == ASSUME IInv, PlaceInv, ScheduleDestroy PROVE PlaceInv'
<1> DEFINE id == [ts |-> m_currentTs, uid |-> DestroyUid, impl |-> NewImpl]
<1>1. /\ Make(Main) /\ m_destroyEvents' = Append(m_destroyEvents, id)
      /\ pc # "destroyed" /\ pc' = pc
      /\ UNCHANGED <<m_events, m_eventsWithContext, eventsWithContext,
                     cancelled, revoked, log>>
  BY DEF ScheduleDestroy, InProgram, handVars, control
<1>2. /\ NewImpl \notin Waiting \cup Queued \cup ToDestroy \cup Logged \cup revoked \cup cancelled
      /\ Impls' = Impls \cup {NewImpl} /\ NewImpl \in 1..MaxEvents
      /\ \A i \in Impls : i < NewImpl
  BY <1>1, NewIsNowhere
<1>3. id \in EventIds /\ id.impl = NewImpl
  BY <1>2, NumbersAssumption DEF EventIds, DestroyUid, IInv, Types
<1> HIDE DEF id
<1>4. m_destroyEvents \in Seq(EventIds)
  BY ListsAreTyped
<1>5. ToDestroy' = ToDestroy \cup {NewImpl}
  BY <1>1, <1>3, <1>4, ImplsAppend DEF ToDestroy
<1>6. Waiting' = Waiting /\ Queued' = Queued /\ Logged' = Logged
  BY <1>1 DEF Waiting, Queued, Logged, ImplsOf
<1>7. Lists'
  <2>1. \A i \in ImplsOf(m_destroyEvents) : i < NewImpl
    BY <1>2 DEF PlaceInv, AllMade, ToDestroy
  <2>2. Increasing(m_destroyEvents')
    BY <1>1, <1>3, <1>4, <2>1, IncreasingAppend DEF PlaceInv, Lists
  <2> QED
    BY <1>1, <2>2 DEF PlaceInv, Lists, Increasing, ImplsOf
<1>8. OnceEach'
  BY <1>1 DEF PlaceInv, OnceEach
<1>9. Apart' /\ AllMade' /\ AllThere'
  BY <1>1, <1>2, <1>5, <1>6 DEF PlaceInv, Apart, AllMade, AllThere
<1>10. RevokedIsOut'
  BY <1>1, <1>2, <1>5, <1>6 DEF PlaceInv, RevokedIsOut
<1> QED
  BY <1>7, <1>8, <1>9, <1>10 DEF PlaceInv

-----------------------------------------------------------------------------
(* The local list. *)

\* ProcessEventsWithContext returns with its list empty.
LEMMA NextLocal == LocalInv /\ [Next]_vars => LocalInv'
<1> SUFFICES ASSUME LocalInv, [Next]_vars PROVE LocalInv'
  OBVIOUS
<1>1. CASE Calls
  BY <1>1, Zenon DEF Calls, LocalInv, Schedule, ScheduleWithContextMain, StopAfter, Cancel, Remove,
     RemoveDestroy, ScheduleDestroy, Stop, Run, Destroy, InProgram, control,
     CallProcessEventsWithContext
<1>2. CASE HandOver
  BY <1>2 DEF HandOver, LocalInv, TestFlag, Swap, Move, Moved, control
<1>3. CASE Steps /\ ~ HandOver
  BY <1>3, Zenon DEF Steps, LocalInv, ResetStop, RunReturns, ProcessOneEvent, EventReturns,
     DestroyOneEvent, DestroyEventReturns, DoDispose, DrainQueue, CallProcessEventsWithContext
<1>4. CASE \E w \in Workers : LowerFlag(w) \/ \E d \in Delays : Push(w, d)
  BY <1>4 DEF LocalInv, LowerFlag, Push, control
<1>5. CASE UNCHANGED vars
  BY <1>5 DEF vars, LocalInv, control
<1> QED
  BY <1>1, <1>2, <1>3, <1>4, <1>5 DEF Next

\* A thread hands an event over.
LEMMA PlacesPush ==
  ASSUME IInv, PlaceInv, NEW w \in Workers, NEW d \in Delays, Push(w, d)
  PROVE  PlaceInv'
<1> DEFINE new == [timestamp |-> d, impl |-> NewImpl]
<1>1. /\ Make(w) /\ m_eventsWithContext' = Append(m_eventsWithContext, new) /\ pc' = pc
      /\ UNCHANGED <<m_events, eventsWithContext, m_destroyEvents, cancelled, revoked, log>>
  BY DEF Push, queueVars, control
<1>2. /\ NewImpl \notin Waiting \cup Queued \cup ToDestroy \cup Logged \cup revoked \cup cancelled
      /\ Impls' = Impls \cup {NewImpl} /\ NewImpl \in 1..MaxEvents
      /\ \A i \in Impls : i < NewImpl
  BY <1>1, NewIsNowhere
<1>3. new \in Handing /\ new.impl = NewImpl
  BY <1>2, NumbersAssumption DEF Handing
<1> HIDE DEF new
<1>4. m_eventsWithContext \in Seq(Handing)
  BY ListsAreTyped
<1>5. ImplsOf(m_eventsWithContext') = ImplsOf(m_eventsWithContext) \cup {NewImpl}
  BY <1>1, <1>3, <1>4, ImplsAppend
<1>6. Waiting' = Waiting \cup {NewImpl}
  BY <1>1, <1>5 DEF Waiting
<1>7. ToDestroy' = ToDestroy /\ Queued' = Queued /\ Logged' = Logged
  BY <1>1 DEF ToDestroy, Queued, Logged, ImplsOf
<1>8. Lists'
  <2>1. \A i \in Waiting : i < NewImpl
    BY <1>2 DEF PlaceInv, AllMade
  <2>2. Increasing(m_eventsWithContext')
    BY <1>1, <1>3, <1>4, <2>1, IncreasingAppend DEF PlaceInv, Lists, Waiting
  <2>3. \A i \in ImplsOf(eventsWithContext), j \in ImplsOf(m_eventsWithContext') : i < j
    BY <1>5, <2>1 DEF PlaceInv, Lists, Waiting
  <2>4. eventsWithContext' = eventsWithContext /\ m_destroyEvents' = m_destroyEvents
    BY <1>1
  <2> QED
    BY <2>2, <2>3, <2>4 DEF PlaceInv, Lists
<1>9. OnceEach'
  BY <1>1 DEF PlaceInv, OnceEach
<1>10. Apart' /\ AllMade' /\ AllThere'
  BY <1>1, <1>2, <1>6, <1>7 DEF PlaceInv, Apart, AllMade, AllThere
<1>11. RevokedIsOut'
  BY <1>1, <1>2, <1>6, <1>7 DEF PlaceInv, RevokedIsOut
<1> QED
  BY <1>8, <1>9, <1>10, <1>11 DEF PlaceInv

\* Main takes the list of handed over events; it has moved all of the last one.
LEMMA PlacesSwap ==
  ASSUME IInv, PlaceInv, LocalInv, Swap
  PROVE  PlaceInv'
<1>1. /\ eventsWithContext' = m_eventsWithContext /\ m_eventsWithContext' = <<>>
      /\ pc # "destroyed" /\ pc' # "destroyed" /\ eventsWithContext = <<>>
      /\ UNCHANGED <<m_events, m_destroyEvents, cancelled, made, revoked, log>>
  BY DEF Swap, LocalInv, queueVars, program
<1>2. ImplsOf(<<>>) = {}
  BY DEF ImplsOf
<1>3. Waiting' = Waiting
  BY <1>1, <1>2 DEF Waiting
<1>4. ToDestroy' = ToDestroy /\ Queued' = Queued /\ Logged' = Logged /\ Impls' = Impls
  BY <1>1 DEF ToDestroy, Queued, Logged, ImplsOf, Impls
<1>5. Lists'
  <2>1. Increasing(m_eventsWithContext') /\ ImplsOf(m_eventsWithContext') = {}
    BY <1>1, <1>2 DEF Increasing
  <2> QED
    BY <1>1, <2>1 DEF PlaceInv, Lists
<1>6. OnceEach'
  BY <1>1 DEF PlaceInv, OnceEach
<1> QED
  BY <1>1, <1>3, <1>4, <1>5, <1>6 DEF PlaceInv, Apart, AllMade, AllThere, RevokedIsOut

\* Main moves one of them to the queue.
LEMMA PlacesMove == ASSUME IInv, PlaceInv, Move PROVE PlaceInv'
<1> DEFINE first == Head(eventsWithContext)
<1>1. /\ eventsWithContext # <<>> /\ eventsWithContext' = Tail(eventsWithContext)
      /\ Insert(m_currentTs + first.timestamp, first.impl)
      /\ pc # "destroyed" /\ pc' = pc
      /\ UNCHANGED <<m_eventsWithContext, m_destroyEvents, cancelled, made, revoked, log>>
  BY DEF Move, handVars, control, program
<1>2. eventsWithContext \in Seq(Handing) /\ \A x \in Handing : x.impl \in Nat
  BY ListsAreTyped
<1>3. Increasing(eventsWithContext)
  BY DEF PlaceInv, Lists
<1>4. /\ ImplsOf(Tail(eventsWithContext)) = ImplsOf(eventsWithContext) \ {first.impl}
      /\ first.impl \in ImplsOf(eventsWithContext) /\ Increasing(Tail(eventsWithContext))
      /\ first \in Handing
  BY <1>1, <1>2, <1>3, ImplsTail
<1> HIDE DEF first
<1>5. first.impl \in Waiting /\ first.impl \notin ImplsOf(m_eventsWithContext)
  BY <1>2, <1>4 DEF PlaceInv, Lists, Waiting
<1>6. Waiting' = Waiting \ {first.impl}
  BY <1>1, <1>4, <1>5 DEF Waiting
<1>7. Queued' = Queued \cup {first.impl}
  BY <1>1, QueueGrows
<1>8. ToDestroy' = ToDestroy /\ Logged' = Logged /\ Impls' = Impls
  BY <1>1 DEF ToDestroy, Logged, ImplsOf, Impls
<1>9. Lists'
  <2>1. /\ Increasing(eventsWithContext') /\ ImplsOf(eventsWithContext') \subseteq ImplsOf(eventsWithContext)
        /\ m_eventsWithContext' = m_eventsWithContext /\ m_destroyEvents' = m_destroyEvents
    BY <1>1, <1>4
  <2> QED
    BY <2>1 DEF PlaceInv, Lists
<1>10. OnceEach'
  <2> DEFINE new == [ts |-> m_currentTs + first.timestamp, uid |-> m_uid, impl |-> first.impl]
  <2>1. m_events' = m_events \cup {new} /\ new.impl = first.impl
    BY <1>1 DEF Insert
  <2>2. \A e \in m_events : e.impl # first.impl
    BY <1>5 DEF PlaceInv, Apart, Queued
  <2> HIDE DEF new
  <2> QED
    BY <1>1, <2>1, <2>2, Zenon DEF PlaceInv, OnceEach
<1>11. Apart'
  BY <1>5, <1>6, <1>7, <1>8 DEF PlaceInv, Apart
<1>12. AllMade' /\ AllThere'
  BY <1>1, <1>5, <1>6, <1>7, <1>8 DEF PlaceInv, AllMade, AllThere
<1>13. RevokedIsOut'
  BY <1>1, <1>5, <1>6, <1>7, <1>8 DEF PlaceInv, RevokedIsOut
<1> QED
  BY <1>9, <1>10, <1>11, <1>12, <1>13 DEF PlaceInv

\* Cancel, Remove, and Remove of a destroy event.
LEMMA PlacesCancel ==
  ASSUME IInv, PlaceInv, NEW id \in ids, Cancel(id) \/ Remove(id) \/ RemoveDestroy(id)
  PROVE  PlaceInv'
<1>1. /\ pc # "destroyed" /\ pc' = pc /\ revoked' = revoked \cup {id.impl}
      /\ UNCHANGED <<m_eventsWithContext, eventsWithContext, made, log>>
  BY DEF Cancel, Remove, RemoveDestroy, InProgram, handVars, control
<1>2. Waiting' = Waiting /\ Logged' = Logged /\ Impls' = Impls
  BY <1>1 DEF Waiting, Logged, ImplsOf, Impls
<1>3. CASE Cancel(id)
  <2>1. /\ m_events' = m_events /\ m_destroyEvents' = m_destroyEvents
        /\ cancelled' = cancelled \cup {id.impl} /\ ~ IsExpired(id)
    BY <1>3 DEF Cancel, queueVars
  <2>2. Queued' = Queued /\ ToDestroy' = ToDestroy
    BY <2>1 DEF Queued, ToDestroy, ImplsOf
  <2>3. id.impl \in Queued \cup ToDestroy
    BY <1>1, <2>1, NotExpired DEF Queued, ToDestroy, ImplsOf
  <2>4. Lists' /\ OnceEach'
    BY <1>1, <2>1 DEF PlaceInv, Lists, OnceEach, Increasing, ImplsOf
  <2>5. Apart' /\ AllMade' /\ AllThere'
    BY <1>1, <1>2, <2>2, <2>3 DEF PlaceInv, Apart, AllMade, AllThere
  <2>6. RevokedIsOut'
    BY <1>1, <1>2, <2>1, <2>2, <2>3 DEF PlaceInv, Apart, RevokedIsOut
  <2> QED
    BY <2>4, <2>5, <2>6 DEF PlaceInv
<1>4. CASE Remove(id)
  <2>1. /\ m_events' = m_events \ {id} /\ m_destroyEvents' = m_destroyEvents
        /\ cancelled' = cancelled \cup {id.impl} /\ ~ IsExpired(id) /\ id.uid # DestroyUid
    BY <1>4 DEF Remove
  <2>2. id \in m_events
    BY <1>1, <2>1, NotExpired
  <2>3. \A e \in m_events : e # id => e.impl # id.impl
    BY <2>2 DEF PlaceInv, OnceEach
  <2>4. Queued' = Queued \ {id.impl} /\ ToDestroy' = ToDestroy /\ id.impl \in Queued
    BY <2>1, <2>2, <2>3 DEF Queued, ToDestroy, ImplsOf
  <2>5. Lists' /\ OnceEach'
    BY <1>1, <2>1 DEF PlaceInv, Lists, OnceEach, Increasing, ImplsOf
  <2>6. Apart' /\ AllMade' /\ AllThere'
    BY <1>1, <1>2, <2>4 DEF PlaceInv, Apart, AllMade, AllThere
  <2>7. RevokedIsOut'
    BY <1>1, <1>2, <2>1, <2>4 DEF PlaceInv, Apart, RevokedIsOut
  <2> QED
    BY <2>5, <2>6, <2>7 DEF PlaceInv
<1>5. CASE RemoveDestroy(id)
  <2>1. PICK n \in DOMAIN m_destroyEvents :
          /\ m_destroyEvents[n] = id
          /\ m_destroyEvents' = SeqX!RemoveAt(m_destroyEvents, n)
    BY <1>5 DEF RemoveDestroy
  <2>2. m_events' = m_events /\ cancelled' = cancelled
    BY <1>5 DEF RemoveDestroy, queueVars
  <2>3. /\ ImplsOf(m_destroyEvents') = ImplsOf(m_destroyEvents) \ {id.impl}
        /\ Increasing(m_destroyEvents')
    BY <2>1, ListsAreTyped, ImplsRemoveAt DEF PlaceInv, Lists
  <2>4. Queued' = Queued /\ ToDestroy' = ToDestroy \ {id.impl} /\ id.impl \in ToDestroy
    BY <2>1, <2>2, <2>3 DEF Queued, ToDestroy, ImplsOf
  <2>5. Lists' /\ OnceEach'
    BY <1>1, <2>2, <2>3 DEF PlaceInv, Lists, OnceEach, Increasing, ImplsOf
  <2>6. Apart' /\ AllMade' /\ AllThere'
    BY <1>1, <1>2, <2>4 DEF PlaceInv, Apart, AllMade, AllThere
  <2>7. RevokedIsOut'
    BY <1>1, <1>2, <2>2, <2>4 DEF PlaceInv, Apart, RevokedIsOut
  <2> QED
    BY <2>5, <2>6, <2>7 DEF PlaceInv
<1> QED
  BY <1>3, <1>4, <1>5

\* What the log says of an event that runs now, for the first time.
LEMMA LogGrows ==
  ASSUME IInv, PlaceInv, NEW e \in EventIds, e.impl \notin Logged, log' = Append(log, e)
  PROVE  /\ Logged' = Logged \cup {e.impl}
         /\ \A j, k \in DOMAIN log' : log'[j].impl = log'[k].impl => j = k
         /\ DOMAIN log' = DOMAIN log \cup {Len(log) + 1}
         /\ \A k \in DOMAIN log : log'[k] = log[k]
         /\ log'[Len(log) + 1] = e
         /\ DOMAIN log = 1..Len(log) /\ Len(log) \in Nat
<1>1. log \in Seq(EventIds)
  BY ListsAreTyped
<1>2. /\ ImplsOf(log') = ImplsOf(log) \cup {e.impl}
      /\ \A k \in 1..Len(log) : log'[k] = log[k]
      /\ log'[Len(log) + 1] = e
      /\ Len(log) \in Nat /\ DOMAIN log = 1..Len(log)
      /\ DOMAIN log' = 1..(Len(log) + 1)
  BY <1>1, ImplsAppend
<1>3. Logged' = Logged \cup {e.impl}
  BY <1>2 DEF Logged, ImplsOf
<1>4. DOMAIN log' = DOMAIN log \cup {Len(log) + 1}
  BY <1>2
<1>5. \A k \in DOMAIN log : log[k].impl # e.impl
  BY DEF Logged
<1>6. \A j, k \in DOMAIN log' : log'[j].impl = log'[k].impl => j = k
  BY <1>2, <1>4, <1>5 DEF PlaceInv, OnceEach
<1> QED
  BY <1>2, <1>3, <1>4, <1>6

\* The main loop takes an event out of the queue, to run it or to drop it.
LEMMA PlacesProcess == ASSUME IInv, PlaceInv, ProcessOneEvent PROVE PlaceInv'
<1>1. PICK next \in m_events :
        /\ m_events' = m_events \ {next}
        /\ \/ next.impl \in cancelled /\ log' = log
           \/ next.impl \notin cancelled /\ log' = Append(log, next)
  BY DEF ProcessOneEvent
<1>2. /\ pc # "destroyed" /\ pc' # "destroyed"
      /\ UNCHANGED <<m_eventsWithContext, eventsWithContext, m_destroyEvents, cancelled,
                     made, revoked>>
  BY DEF ProcessOneEvent, handVars, program, CallProcessEventsWithContext
<1>3. \A e \in m_events : e # next => e.impl # next.impl
  BY DEF PlaceInv, OnceEach
<1>4. Queued' = Queued \ {next.impl} /\ next.impl \in Queued
  BY <1>1, <1>3 DEF Queued
<1>5. Waiting' = Waiting /\ ToDestroy' = ToDestroy /\ Impls' = Impls
  BY <1>2 DEF Waiting, ToDestroy, ImplsOf, Impls
<1>6. Lists'
  BY <1>2 DEF PlaceInv, Lists, Increasing, ImplsOf
<1>7. CASE next.impl \in cancelled /\ log' = log
  <2>1. Logged' = Logged /\ next.impl \in revoked
    BY <1>7 DEF Logged, PlaceInv, RevokedIsOut
  <2>2. OnceEach'
    BY <1>1, <1>7 DEF PlaceInv, OnceEach
  <2>3. Apart' /\ AllMade' /\ AllThere'
    BY <1>2, <1>4, <1>5, <2>1 DEF PlaceInv, Apart, AllMade, AllThere
  <2>4. RevokedIsOut'
    BY <1>2, <1>4, <1>5, <2>1 DEF PlaceInv, RevokedIsOut
  <2> QED
    BY <1>6, <2>2, <2>3, <2>4 DEF PlaceInv
<1>8. CASE next.impl \notin cancelled /\ log' = Append(log, next)
  <2>1. next \in EventIds /\ next.impl \notin Logged
    BY <1>4, ListsAreTyped DEF PlaceInv, Apart
  <2>2. /\ Logged' = Logged \cup {next.impl}
        /\ \A j, k \in DOMAIN log' : log'[j].impl = log'[k].impl => j = k
    BY <1>8, <2>1, LogGrows
  <2>3. OnceEach'
    BY <1>1, <2>2 DEF PlaceInv, OnceEach
  <2>4. next.impl \notin revoked
    BY <1>4, <1>8 DEF PlaceInv, RevokedIsOut
  <2>5. Apart' /\ AllMade' /\ AllThere'
    BY <1>2, <1>4, <1>5, <2>2 DEF PlaceInv, Apart, AllMade, AllThere
  <2>6. RevokedIsOut'
    BY <1>2, <1>4, <1>5, <2>2, <2>4 DEF PlaceInv, RevokedIsOut
  <2> QED
    BY <1>6, <2>3, <2>5, <2>6 DEF PlaceInv
<1> QED
  BY <1>1, <1>7, <1>8

\* Destroy takes the first of its list, to run it or to drop it.
LEMMA PlacesDestroyOne == ASSUME IInv, PlaceInv, DestroyOneEvent PROVE PlaceInv'
<1> DEFINE ev == Head(m_destroyEvents)
<1>1. /\ m_destroyEvents # <<>> /\ m_destroyEvents' = Tail(m_destroyEvents)
      /\ \/ ev.impl \in cancelled /\ log' = log
         \/ ev.impl \notin cancelled /\ log' = Append(log, ev)
  BY DEF DestroyOneEvent
<1>2. /\ pc # "destroyed" /\ pc' # "destroyed"
      /\ UNCHANGED <<m_events, m_eventsWithContext, eventsWithContext, cancelled, made, revoked>>
  BY DEF DestroyOneEvent, queueVars, handVars, program
<1>3. m_destroyEvents \in Seq(EventIds) /\ \A x \in EventIds : x.impl \in Nat
  BY ListsAreTyped
<1>4. /\ ImplsOf(m_destroyEvents') = ImplsOf(m_destroyEvents) \ {ev.impl}
      /\ ev.impl \in ImplsOf(m_destroyEvents) /\ Increasing(m_destroyEvents')
      /\ ev \in EventIds
  BY <1>1, <1>3, ImplsTail DEF PlaceInv, Lists
<1> HIDE DEF ev
<1>5. ToDestroy' = ToDestroy \ {ev.impl} /\ ev.impl \in ToDestroy
  BY <1>4 DEF ToDestroy
<1>6. Waiting' = Waiting /\ Queued' = Queued /\ Impls' = Impls
  BY <1>2 DEF Waiting, Queued, ImplsOf, Impls
<1>7. Lists'
  BY <1>2, <1>4 DEF PlaceInv, Lists, Increasing, ImplsOf
<1>8. CASE ev.impl \in cancelled /\ log' = log
  <2>1. Logged' = Logged /\ ev.impl \in revoked
    BY <1>8 DEF Logged, PlaceInv, RevokedIsOut
  <2>2. OnceEach'
    BY <1>2, <1>8 DEF PlaceInv, OnceEach
  <2>3. Apart' /\ AllMade' /\ AllThere'
    BY <1>2, <1>5, <1>6, <2>1 DEF PlaceInv, Apart, AllMade, AllThere
  <2>4. RevokedIsOut'
    BY <1>2, <1>5, <1>6, <2>1 DEF PlaceInv, RevokedIsOut
  <2> QED
    BY <1>7, <2>2, <2>3, <2>4 DEF PlaceInv
<1>9. CASE ev.impl \notin cancelled /\ log' = Append(log, ev)
  <2>1. ev.impl \notin Logged
    BY <1>5 DEF PlaceInv, Apart
  <2>2. /\ Logged' = Logged \cup {ev.impl}
        /\ \A j, k \in DOMAIN log' : log'[j].impl = log'[k].impl => j = k
    BY <1>4, <1>9, <2>1, LogGrows
  <2>3. OnceEach'
    BY <1>2, <2>2 DEF PlaceInv, OnceEach
  <2>4. ev.impl \notin revoked
    BY <1>5, <1>9 DEF PlaceInv, RevokedIsOut
  <2>5. Apart' /\ AllMade' /\ AllThere'
    BY <1>2, <1>5, <1>6, <2>2 DEF PlaceInv, Apart, AllMade, AllThere
  <2>6. RevokedIsOut'
    BY <1>2, <1>5, <1>6, <2>2, <2>4 DEF PlaceInv, RevokedIsOut
  <2> QED
    BY <1>7, <2>3, <2>5, <2>6 DEF PlaceInv
<1> QED
  BY <1>1, <1>8, <1>9

\* The end: what is still in the queue is dropped.
LEMMA PlacesDrain == ASSUME IInv, PlaceInv, DrainQueue PROVE PlaceInv'
<1>1. /\ m_events' = {} /\ pc' = "destroyed"
      /\ UNCHANGED <<m_eventsWithContext, eventsWithContext, m_destroyEvents, cancelled,
                     made, revoked, log>>
  BY DEF DrainQueue, handVars, program
<1>2. Queued' = {}
  BY <1>1 DEF Queued
<1>3. Waiting' = Waiting /\ ToDestroy' = ToDestroy /\ Logged' = Logged /\ Impls' = Impls
  BY <1>1 DEF Waiting, ToDestroy, Logged, ImplsOf, Impls
<1>4. Lists' /\ OnceEach'
  BY <1>1 DEF PlaceInv, Lists, OnceEach, Increasing, ImplsOf
<1> QED
  BY <1>1, <1>2, <1>3, <1>4 DEF PlaceInv, Apart, AllMade, AllThere, RevokedIsOut

\* Every step keeps each event in one place.
LEMMA NextPlaces == IInv /\ LocalInv /\ PlaceInv /\ [Next]_vars => PlaceInv'
<1> SUFFICES ASSUME IInv, LocalInv, PlaceInv, [Next]_vars PROVE PlaceInv'
  OBVIOUS
<1>1. ASSUME NEW d \in Delays, Schedule(d) \/ ScheduleWithContextMain(d) \/ StopAfter(d)
      PROVE  PlaceInv'
  BY <1>1, PlacesMainInserts
<1>2. ASSUME NEW id \in ids, Cancel(id) \/ RemoveDestroy(id) \/ Remove(id) PROVE PlaceInv'
  BY <1>2, PlacesCancel
<1>3. ASSUME ScheduleDestroy PROVE PlaceInv'
  BY <1>3, PlacesScheduleDestroy
<1>4. ASSUME \/ Stop \/ Run \/ Destroy \/ TestFlag \/ Moved \/ ResetStop
             \/ RunReturns \/ EventReturns \/ DestroyEventReturns \/ DoDispose
             \/ (\E w \in Workers : LowerFlag(w))
             \/ UNCHANGED vars
      PROVE  PlaceInv'
  BY <1>4, StillSteps, StillPlaces
<1>5. ASSUME NEW w \in Workers, NEW d \in Delays, Push(w, d) PROVE PlaceInv'
  BY <1>5, PlacesPush
<1>6. ASSUME Swap \/ Move PROVE PlaceInv'
  BY <1>6, PlacesSwap, PlacesMove
<1>7. ASSUME ProcessOneEvent \/ DestroyOneEvent \/ DrainQueue PROVE PlaceInv'
  BY <1>7, PlacesProcess, PlacesDestroyOne, PlacesDrain
<1> QED
  BY <1>1, <1>2, <1>3, <1>4, <1>5, <1>6, <1>7, Zenon DEF Next, Calls, Steps, HandOver

-----------------------------------------------------------------------------
(* Same time, first in, first out. *)

\* Of a queue and a log that are empty there is nothing to say.
LEMMA InitOrder == Init => OrderInv
<1> SUFFICES ASSUME Init PROVE OrderInv
  OBVIOUS
<1>1. /\ m_events = {} /\ eventsWithContext = <<>> /\ m_eventsWithContext = <<>> /\ log = <<>>
  BY DEF Init
<1>2. Keyed = {} /\ Waiting = {}
  BY <1>1 DEF Keyed, Waiting, ImplsOf
<1> QED
  BY <1>1, <1>2 DEF OrderInv, UidOrder, LogOrder

\* The numbers in a keyed event.
LEMMA KeyedAreTyped ==
  ASSUME IInv, PlaceInv
  PROVE  /\ \A e \in Keyed : e \in EventIds /\ e.impl \in Impls
         /\ \A e \in EventIds : e.ts \in Nat /\ e.uid \in Nat /\ e.impl \in Nat
         /\ m_uid \in Nat /\ m_currentTs \in Nat /\ m_currentUid \in Nat
         /\ \A k \in DOMAIN log : log[k] \in EventIds
<1>1. /\ log \in Seq(EventIds) /\ m_events \subseteq EventIds
      /\ m_uid \in Nat /\ m_currentTs \in Nat /\ m_currentUid \in Nat
  BY DEF IInv, Types
<1>2. \A k \in DOMAIN log : log[k] \in EventIds
  BY <1>1
<1>3. \A e \in EventIds : e.ts \in Nat /\ e.uid \in Nat /\ e.impl \in Nat
  BY NumbersAssumption DEF EventIds
<1>4. \A e \in Keyed : e \in EventIds
  BY <1>1, <1>2 DEF Keyed
<1>5. \A e \in Keyed : e.impl \in Impls
  BY DEF Keyed, PlaceInv, AllMade, Queued, Logged
<1> QED
  BY <1>1, <1>2, <1>3, <1>4, <1>5

\* While there is an event to make or to move, there is a fresh uid after m_uid.
LEMMA UidAdvances ==
  ASSUME NoWrap, IInv, Len(made) < MaxEvents \/ eventsWithContext # <<>>
  PROVE  NextUid = m_uid + 1
<1>1. /\ Len(m_eventsWithContext) \in Nat /\ Len(eventsWithContext) \in Nat /\ m_uid \in Nat
      /\ Len(made) \in Nat /\ Len(made) <= MaxEvents /\ MaxEvents \in Nat /\ UidMod \in Nat
  BY NumbersAssumption DEF IInv, Types
<1>2. eventsWithContext # <<>> => Len(eventsWithContext) >= 1
  BY DEF IInv, Types
<1>3. m_uid + 1 < UidMod
  BY <1>1, <1>2 DEF IInv, UidsLeft, NoWrap
<1> QED
  BY <1>1, <1>3 DEF NextUid

\* A maker is remembered.
LEMMA MakersStay ==
  ASSUME IInv, NEW t, Make(t)
  PROVE  (\A i \in Impls : made'[i] = made[i]) /\ made'[NewImpl] = t
<1>1. made \in Seq(Workers \cup {Main}) /\ made' = Append(made, t)
  BY DEF IInv, Types, Make
<1> QED
  BY <1>1 DEF Impls, NewImpl

\* Fewer keyed events are in order too.
LEMMA FewerKeyed ==
  ASSUME UidOrder, Keyed' \subseteq Keyed, m_uid' = m_uid, made' = made, Waiting' = Waiting
  PROVE  UidOrder'
  BY DEF UidOrder

\* One event more with the next uid: it must be the last its maker made of the
\* keyed ones, and those of its maker that wait must have been made later.
LEMMA OneMoreKeyed ==
  ASSUME IInv, PlaceInv, UidOrder, NEW new \in EventIds,
         Keyed' = Keyed \cup {new}, new.uid = m_uid, m_uid' = m_uid + 1,
         \A i \in Impls : made'[i] = made[i],
         \A e \in Keyed : made[e.impl] = made'[new.impl] => e.impl < new.impl,
         Waiting' \subseteq Waiting,
         \A w \in Waiting' : made[w] = made'[new.impl] => new.impl < w
  PROVE  UidOrder'
<1>1. /\ \A e \in Keyed : e \in EventIds /\ e.impl \in Impls /\ made'[e.impl] = made[e.impl]
      /\ \A e \in EventIds : e.ts \in Nat /\ e.uid \in Nat /\ e.impl \in Nat
      /\ m_uid \in Nat /\ 4 <= m_uid
  BY KeyedAreTyped DEF IInv, UidsLeft
<1>2. \A w \in Waiting' : w \in Waiting /\ made'[w] = made[w]
  BY DEF PlaceInv, AllMade
<1>3. \A e \in Keyed : 4 <= e.uid /\ e.uid < m_uid
  BY DEF UidOrder
<1>4. \A e \in Keyed' : 4 <= e.uid /\ e.uid < m_uid'
  BY <1>1, <1>3
<1>5. ASSUME NEW e \in Keyed', NEW f \in Keyed', made'[e.impl] = made'[f.impl], e.uid < f.uid
      PROVE  e.impl < f.impl
  <2>1. CASE e \in Keyed /\ f \in Keyed
    BY <1>1, <1>5, <2>1 DEF UidOrder
  <2>2. CASE e \in Keyed /\ f = new
    BY <1>1, <1>5, <2>2
  <2>3. CASE e = new
    <3>1. f.uid <= m_uid
      BY <1>1, <1>3
    <3> QED
      BY <1>1, <1>5, <2>3, <3>1
  <2> QED
    BY <2>1, <2>2, <2>3
<1>6. ASSUME NEW w \in Waiting'
      PROVE  made'[w] \in Workers /\ \A e \in Keyed' : made'[e.impl] = made'[w] => e.impl < w
  <2>1. made'[w] = made[w] /\ made[w] \in Workers
    BY <1>2 DEF UidOrder
  <2>2. \A e \in Keyed : made'[e.impl] = made'[w] => e.impl < w
    BY <1>1, <1>2, <2>1 DEF UidOrder
  <2> QED
    BY <2>1, <2>2
<1> QED
  BY <1>4, <1>5, <1>6 DEF UidOrder

\* Keyed depends on the queue and the log.
LEMMA KeyedOnInsert ==
  ASSUME NEW ts, NEW impl, Insert(ts, impl), log' = log
  PROVE  Keyed' = Keyed \cup {[ts |-> ts, uid |-> m_uid, impl |-> impl]}
<1> DEFINE new == [ts |-> ts, uid |-> m_uid, impl |-> impl]
<1>1. m_events' = m_events \cup {new}
  BY DEF Insert
<1> HIDE DEF new
<1> QED
  BY <1>1 DEF Keyed, new

\* A log and a clock that stay as they are.
LEMMA SameLog ==
  ASSUME LogOrder, log' = log, clockVars' = clockVars
  PROVE  LogOrder'
  BY DEF LogOrder, CurrentKey, clockVars, Before

\* Main makes an event: all that wait were made by other threads.
LEMMA OrderMainInserts ==
  ASSUME NoWrap, IInv, PlaceInv, OrderInv, NEW d \in Delays,
         Schedule(d) \/ ScheduleWithContextMain(d) \/ StopAfter(d)
  PROVE  OrderInv'
<1> DEFINE new == [ts |-> m_currentTs + d, uid |-> m_uid, impl |-> NewImpl]
<1>1. /\ Make(Main) /\ Insert(m_currentTs + d, NewImpl)
      /\ UNCHANGED <<m_eventsWithContext, eventsWithContext, log, clockVars>>
  BY DEF Schedule, ScheduleWithContextMain, StopAfter, handVars
<1>2. m_uid' = m_uid + 1
  <2>1. Len(made) < MaxEvents
    BY <1>1 DEF Make
  <2> QED
    BY <1>1, <2>1, UidAdvances DEF Insert
<1>3. /\ NewImpl \in 1..MaxEvents /\ \A i \in Impls : i < NewImpl
      /\ \A i \in Impls : made'[i] = made[i]
      /\ made'[NewImpl] = Main
  BY <1>1, NewIsNowhere, MakersStay
<1>4. Keyed' = Keyed \cup {new}
  BY <1>1, KeyedOnInsert
<1>5. new \in EventIds /\ new.uid = m_uid /\ new.impl = NewImpl
  <2>1. m_uid \in 0..(UidMod - 1)
    <3>1. /\ Len(m_eventsWithContext) \in Nat /\ Len(eventsWithContext) \in Nat /\ m_uid \in Nat
          /\ Len(made) \in Nat /\ Len(made) <= MaxEvents /\ MaxEvents \in Nat /\ UidMod \in Nat
      BY NumbersAssumption DEF IInv, Types
    <3> QED
      BY <3>1 DEF IInv, UidsLeft, NoWrap
  <2>2. m_currentTs + d \in Nat
    BY NumbersAssumption DEF IInv, Types
  <2> QED
    BY <1>3, <2>1, <2>2 DEF EventIds
<1> HIDE DEF new
<1>6. Waiting' = Waiting
  BY <1>1 DEF Waiting, ImplsOf
<1>7. \A w \in Waiting' : made[w] # Main
  BY <1>6, ThreadsAssumption DEF OrderInv, UidOrder
<1>8. \A e \in Keyed : e.impl < new.impl
  BY <1>3, <1>5, KeyedAreTyped
<1>9. UidOrder'
  BY <1>2, <1>3, <1>4, <1>5, <1>6, <1>7, <1>8, OneMoreKeyed DEF OrderInv
<1> QED
  BY <1>1, <1>9, SameLog DEF OrderInv

\* Main moves an event: what its thread handed over after it still waits.
LEMMA OrderMove ==
  ASSUME NoWrap, IInv, PlaceInv, OrderInv, Move
  PROVE  OrderInv'
<1> DEFINE first == Head(eventsWithContext)
           new == [ts |-> m_currentTs + first.timestamp, uid |-> m_uid, impl |-> first.impl]
<1>1. /\ eventsWithContext # <<>> /\ eventsWithContext' = Tail(eventsWithContext)
      /\ Insert(m_currentTs + first.timestamp, first.impl)
      /\ UNCHANGED <<m_eventsWithContext, log, clockVars, made>>
  BY DEF Move, handVars, program
<1>2. m_uid' = m_uid + 1
  BY <1>1, UidAdvances DEF Insert
<1>3. eventsWithContext \in Seq(Handing) /\ \A x \in Handing : x.impl \in Nat
  BY ListsAreTyped
<1>4. /\ first \in Handing /\ first.impl \in ImplsOf(eventsWithContext)
      /\ ImplsOf(eventsWithContext') = ImplsOf(eventsWithContext) \ {first.impl}
      /\ \A i \in ImplsOf(eventsWithContext') : first.impl < i
  BY <1>1, <1>3, ImplsTail DEF PlaceInv, Lists
<1>5. Keyed' = Keyed \cup {new}
  BY <1>1, KeyedOnInsert
<1>6. new \in EventIds /\ new.uid = m_uid /\ new.impl = first.impl
  <2>1. m_uid \in 0..(UidMod - 1)
    <3>1. /\ Len(m_eventsWithContext) \in Nat /\ Len(eventsWithContext) \in Nat /\ m_uid \in Nat
          /\ Len(made) \in Nat /\ Len(made) <= MaxEvents /\ MaxEvents \in Nat /\ UidMod \in Nat
      BY NumbersAssumption DEF IInv, Types
    <3> QED
      BY <3>1 DEF IInv, UidsLeft, NoWrap
  <2>2. m_currentTs + first.timestamp \in Nat /\ first.impl \in 1..MaxEvents
    BY <1>4 DEF IInv, Types, Handing
  <2> QED
    BY <2>1, <2>2 DEF EventIds
<1> HIDE DEF new, first
<1>7. first.impl \in Waiting /\ Waiting' \subseteq Waiting
  BY <1>1, <1>4 DEF Waiting
<1>8. \A w \in Waiting' : first.impl < w
  BY <1>1, <1>4 DEF Waiting, PlaceInv, Lists
<1>9. made' = made
  BY <1>1
<1>10. \A e \in Keyed : made[e.impl] = made[first.impl] => e.impl < first.impl
  BY <1>7 DEF OrderInv, UidOrder
<1>11. UidOrder'
  BY <1>2, <1>5, <1>6, <1>7, <1>8, <1>9, <1>10, OneMoreKeyed DEF OrderInv
<1> QED
  BY <1>1, <1>11, SameLog DEF OrderInv

\* A thread hands an event over: it is newer than all that is keyed.
LEMMA OrderPush ==
  ASSUME NoWrap, IInv, PlaceInv, OrderInv, NEW w \in Workers, NEW d \in Delays, Push(w, d)
  PROVE  OrderInv'
<1> DEFINE new == [timestamp |-> d, impl |-> NewImpl]
<1>1. /\ Make(w) /\ m_eventsWithContext' = Append(m_eventsWithContext, new)
      /\ UNCHANGED <<m_events, m_uid, eventsWithContext, log, clockVars>>
  BY DEF Push, queueVars
<1>2. /\ NewImpl \in 1..MaxEvents /\ \A i \in Impls : i < NewImpl
      /\ \A i \in Impls : made'[i] = made[i]
      /\ made'[NewImpl] = w
  BY <1>1, NewIsNowhere, MakersStay
<1>3. new \in Handing /\ new.impl = NewImpl
  BY <1>2, NumbersAssumption DEF Handing
<1> HIDE DEF new
<1>4. Waiting' = Waiting \cup {NewImpl}
  BY <1>1, <1>3, ListsAreTyped, ImplsAppend DEF Waiting
<1>5. Keyed' = Keyed
  BY <1>1 DEF Keyed
<1>6. /\ \A e \in Keyed : e.impl \in Impls /\ made'[e.impl] = made[e.impl] /\ e.impl < NewImpl
      /\ \A i \in Waiting : made'[i] = made[i]
  BY <1>2, KeyedAreTyped DEF PlaceInv, AllMade
<1>7. UidOrder'
  BY <1>1, <1>2, <1>4, <1>5, <1>6 DEF OrderInv, UidOrder
<1> QED
  BY <1>1, <1>7, SameLog DEF OrderInv

\* A destroy event uses a uid up, and is not keyed.
LEMMA OrderScheduleDestroy ==
  ASSUME NoWrap, IInv, PlaceInv, OrderInv, ScheduleDestroy
  PROVE  OrderInv'
<1>1. /\ Make(Main) /\ m_uid' = NextUid
      /\ UNCHANGED <<m_events, m_eventsWithContext, eventsWithContext, log, clockVars>>
  BY DEF ScheduleDestroy, handVars
<1>2. m_uid' = m_uid + 1 /\ m_uid \in Nat
  BY <1>1, UidAdvances DEF Make, IInv, Types
<1>3. \A i \in Impls : made'[i] = made[i]
  BY <1>1, MakersStay
<1>4. Keyed' = Keyed /\ Waiting' = Waiting
  BY <1>1 DEF Keyed, Waiting, ImplsOf
<1>5. /\ \A e \in Keyed : e.impl \in Impls /\ made'[e.impl] = made[e.impl] /\ e.uid \in Nat
      /\ \A i \in Waiting : made'[i] = made[i]
  BY <1>3, KeyedAreTyped DEF PlaceInv, AllMade
<1>6. UidOrder'
  BY <1>2, <1>4, <1>5 DEF OrderInv, UidOrder
<1> QED
  BY <1>1, <1>6, SameLog DEF OrderInv

\* The main loop runs the least event of the queue.
LEMMA OrderProcess ==
  ASSUME IInv, PlaceInv, OrderInv, ProcessOneEvent
  PROVE  OrderInv'
<1>1. PICK next \in m_events :
        /\ m_events' = m_events \ {next}
        /\ m_currentTs' = next.ts /\ m_currentUid' = next.uid
        /\ log' = log \/ log' = Append(log, next)
  BY DEF ProcessOneEvent
<1>2. UNCHANGED <<m_uid, made, m_eventsWithContext, eventsWithContext>>
  BY DEF ProcessOneEvent, handVars, program
<1>3. /\ next \in EventIds /\ next.impl \notin Logged
      /\ Before(CurrentKey, next) /\ next.uid # DestroyUid
  BY ListsAreTyped DEF IInv, QueueKeys, PlaceInv, Apart, Queued, DestroyUid
<1>4. log' = Append(log, next) =>
        /\ DOMAIN log' = DOMAIN log \cup {Len(log) + 1}
        /\ \A k \in DOMAIN log : log'[k] = log[k]
        /\ log'[Len(log) + 1] = next
        /\ DOMAIN log = 1..Len(log) /\ Len(log) \in Nat
  BY <1>3, LogGrows
<1>5. Waiting' = Waiting
  BY <1>2 DEF Waiting, ImplsOf
<1>6. Keyed' \subseteq Keyed
  BY <1>1, <1>4 DEF Keyed
<1>7. UidOrder'
  BY <1>2, <1>5, <1>6, FewerKeyed DEF OrderInv
<1>8. CurrentKey' = [ts |-> next.ts, uid |-> next.uid]
  BY <1>1 DEF CurrentKey
<1>9. /\ m_currentTs \in Nat /\ m_currentUid \in Nat /\ next.ts \in Nat /\ next.uid \in Nat
      /\ \A k \in DOMAIN log : log[k].ts \in Nat /\ log[k].uid \in Nat
  BY <1>3, KeyedAreTyped
<1>10. \A k \in DOMAIN log : log[k].uid # DestroyUid => Before(log[k], next)
  BY <1>3, <1>9 DEF OrderInv, LogOrder, Before, CurrentKey
<1>11. \A k \in DOMAIN log : log[k].uid # DestroyUid => ~ Before(CurrentKey', log[k])
  BY <1>8, <1>9, <1>10 DEF Before
<1>12. ~ Before(CurrentKey', next)
  BY <1>8, <1>9 DEF Before
<1>13. LogOrder'
  <2>1. CASE log' = log
    BY <1>11, <2>1 DEF OrderInv, LogOrder
  <2>2. CASE log' = Append(log, next)
    <3>1. /\ DOMAIN log' = DOMAIN log \cup {Len(log) + 1}
          /\ \A k \in DOMAIN log : log'[k] = log[k]
          /\ log'[Len(log) + 1] = next
          /\ DOMAIN log = 1..Len(log) /\ Len(log) \in Nat
      BY <1>4, <2>2
    <3>2. \A k \in DOMAIN log' : log'[k].uid # DestroyUid => ~ Before(CurrentKey', log'[k])
      BY <1>11, <1>12, <3>1
    <3>3. ASSUME NEW j \in DOMAIN log', NEW k \in DOMAIN log', j < k,
                 log'[j].uid # DestroyUid, log'[k].uid # DestroyUid
          PROVE  Before(log'[j], log'[k])
      <4>1. j \in DOMAIN log
        BY <3>1, <3>3
      <4>2. CASE k \in DOMAIN log
        BY <3>1, <3>3, <4>1, <4>2 DEF OrderInv, LogOrder
      <4>3. CASE k = Len(log) + 1
        BY <1>10, <3>1, <3>3, <4>1, <4>3
      <4> QED
        BY <3>1, <4>2, <4>3
    <3> QED
      BY <3>2, <3>3 DEF LogOrder
  <2> QED
    BY <1>1, <2>1, <2>2
<1> QED
  BY <1>7, <1>13 DEF OrderInv

\* A destroy event is not keyed.
LEMMA OrderDestroyOne ==
  ASSUME IInv, PlaceInv, OrderInv, DestroyOneEvent
  PROVE  OrderInv'
<1> DEFINE ev == Head(m_destroyEvents)
<1>1. UNCHANGED <<m_events, m_uid, made, m_eventsWithContext, eventsWithContext, clockVars>>
  BY DEF DestroyOneEvent, queueVars, handVars, program
<1>2. m_destroyEvents # <<>> /\ (log' = log \/ log' = Append(log, ev))
  BY DEF DestroyOneEvent
<1>3. m_destroyEvents \in Seq(EventIds) /\ 1 \in DOMAIN m_destroyEvents /\ ev = m_destroyEvents[1]
  BY <1>2, ListsAreTyped
<1>4. ev \in EventIds /\ ev.uid = DestroyUid /\ ev.impl \in ToDestroy
  <2>1. ev \in EventIds
    BY <1>3, ElementOfSeq
  <2> QED
    BY <1>3, <2>1 DEF IInv, DestroyIds, ToDestroy, ImplsOf
<1> HIDE DEF ev
<1>5. ev.impl \notin Logged
  BY <1>4 DEF PlaceInv, Apart
<1>6. log' = Append(log, ev) =>
        /\ DOMAIN log' = DOMAIN log \cup {Len(log) + 1}
        /\ \A k \in DOMAIN log : log'[k] = log[k]
        /\ log'[Len(log) + 1] = ev
  BY <1>4, <1>5, LogGrows
<1>7. Waiting' = Waiting
  BY <1>1 DEF Waiting, ImplsOf
<1>8. Keyed' \subseteq Keyed
  BY <1>1, <1>2, <1>4, <1>6 DEF Keyed
<1>9. UidOrder'
  BY <1>1, <1>7, <1>8, FewerKeyed DEF OrderInv
<1>10. CurrentKey' = CurrentKey
  BY <1>1 DEF clockVars, CurrentKey
<1>11. LogOrder'
  BY <1>2, <1>4, <1>6, <1>10 DEF OrderInv, LogOrder
<1> QED
  BY <1>9, <1>11 DEF OrderInv

\* The steps that key no event more and run none.
LEMMA OrderOthers ==
  ASSUME IInv, LocalInv, OrderInv,
         \/ Stop \/ Run \/ Destroy \/ TestFlag \/ Moved \/ ResetStop
         \/ RunReturns \/ EventReturns \/ DestroyEventReturns \/ DoDispose
         \/ (\E w \in Workers : LowerFlag(w))
         \/ UNCHANGED vars
         \/ (\E id \in ids : Cancel(id) \/ Remove(id) \/ RemoveDestroy(id))
         \/ Swap \/ DrainQueue
  PROVE  OrderInv'
<1>1. /\ m_events' \subseteq m_events /\ Waiting' = Waiting
      /\ m_uid' = m_uid /\ made' = made /\ log' = log /\ clockVars' = clockVars
  <2>1. CASE \/ Stop \/ Run \/ Destroy \/ TestFlag \/ Moved \/ ResetStop
             \/ RunReturns \/ EventReturns \/ DestroyEventReturns \/ DoDispose
             \/ (\E w \in Workers : LowerFlag(w))
             \/ UNCHANGED vars
    <3>1. UNCHANGED placeVars /\ UNCHANGED <<ids, m_uid, clockVars>>
      BY <2>1, StillSteps
    <3> QED
      BY <3>1 DEF placeVars, Waiting, ImplsOf
  <2>2. CASE \E id \in ids : Cancel(id) \/ Remove(id) \/ RemoveDestroy(id)
    <3>1. /\ m_events' \subseteq m_events
          /\ UNCHANGED <<m_uid, made, log, clockVars, m_eventsWithContext, eventsWithContext>>
      BY <2>2 DEF Cancel, Remove, RemoveDestroy, queueVars, handVars
    <3> QED
      BY <3>1 DEF Waiting, ImplsOf
  <2>3. CASE Swap
    <3>1. /\ eventsWithContext = <<>> /\ eventsWithContext' = m_eventsWithContext
          /\ m_eventsWithContext' = <<>>
          /\ UNCHANGED <<m_events, m_uid, made, log, clockVars>>
      BY <2>3 DEF Swap, LocalInv, queueVars, program
    <3>2. ImplsOf(<<>>) = {}
      BY DEF ImplsOf
    <3> QED
      BY <3>1, <3>2 DEF Waiting
  <2>4. CASE DrainQueue
    BY <2>4 DEF DrainQueue, handVars, program, Waiting, ImplsOf
  <2> QED
    BY <2>1, <2>2, <2>3, <2>4
<1>2. Keyed' \subseteq Keyed
  BY <1>1 DEF Keyed
<1> QED
  BY <1>1, <1>2, FewerKeyed, SameLog DEF OrderInv

\* Every step keeps the order.
LEMMA NextOrder ==
  NoWrap /\ IInv /\ LocalInv /\ PlaceInv /\ OrderInv /\ [Next]_vars => OrderInv'
<1> SUFFICES ASSUME NoWrap, IInv, LocalInv, PlaceInv, OrderInv, [Next]_vars PROVE OrderInv'
  OBVIOUS
<1>1. ASSUME NEW d \in Delays, Schedule(d) \/ ScheduleWithContextMain(d) \/ StopAfter(d)
      PROVE  OrderInv'
  BY <1>1, OrderMainInserts
<1>2. ASSUME ScheduleDestroy PROVE OrderInv'
  BY <1>2, OrderScheduleDestroy
<1>3. ASSUME NEW w \in Workers, NEW d \in Delays, Push(w, d) PROVE OrderInv'
  BY <1>3, OrderPush
<1>4. ASSUME Move \/ ProcessOneEvent \/ DestroyOneEvent PROVE OrderInv'
  BY <1>4, OrderMove, OrderProcess, OrderDestroyOne
<1>5. ASSUME \/ Stop \/ Run \/ Destroy \/ TestFlag \/ Moved \/ ResetStop
             \/ RunReturns \/ EventReturns \/ DestroyEventReturns \/ DoDispose
             \/ (\E w \in Workers : LowerFlag(w))
             \/ UNCHANGED vars
             \/ (\E id \in ids : Cancel(id) \/ Remove(id) \/ RemoveDestroy(id))
             \/ Swap \/ DrainQueue
      PROVE  OrderInv'
  BY <1>5, OrderOthers
<1> QED
  BY <1>1, <1>2, <1>3, <1>4, <1>5, Zenon DEF Next, Calls, Steps, HandOver

-----------------------------------------------------------------------------
(* The destroy events. *)

\* There are none yet.
LEMMA InitDestroy == Init => DestroyInv
  BY DEF Init, DestroyInv, DestroyData, DestroyControl, ToDestroy, Logged, ImplsOf

\* Only the body of a destroy event, which runs before the disposal, and the
\* program before Destroy, make destroy events.
LEMMA NextDestroyControl ==
  IInv /\ DestroyControl /\ [Next]_vars => DestroyControl'
<1> SUFFICES ASSUME IInv, DestroyControl, [Next]_vars PROVE DestroyControl'
  OBVIOUS
<1>0. caller \in Callers
  BY DEF IInv, Types
<1>1. CASE Calls
  <2>1. CASE Run \/ Destroy
    BY <2>1 DEF Run, Destroy, CallProcessEventsWithContext, DestroyControl
  <2>2. CASE ~ (Run \/ Destroy)
    <3>1. pc' \in {"outside", "event", "destroyEvent"}
      BY <1>1, <2>2, Zenon DEF Calls, Schedule, ScheduleWithContextMain, StopAfter, Cancel, Remove,
         RemoveDestroy, ScheduleDestroy, Stop, InProgram, control
    <3> QED
      BY <3>1 DEF DestroyControl
  <2> QED
    BY <2>1, <2>2
<1>2. CASE HandOver
  <2>1. /\ m_destroyEvents' = m_destroyEvents /\ caller' = caller
        /\ pc \in {"flag", "swap", "move"} /\ pc' \in {"swap", "move", ReturnTo[caller]}
    BY <1>2 DEF HandOver, TestFlag, Swap, Move, Moved, control, atCall
  <2>2. ReturnTo[caller] = "drain" => caller = "DoDispose"
    BY <1>0 DEF ReturnTo, Callers
  <2>3. ReturnTo[caller] # "destroyed"
    BY <1>0 DEF ReturnTo, Callers
  <2> QED
    BY <2>1, <2>2, <2>3 DEF DestroyControl
<1>3. CASE ResetStop \/ RunReturns \/ ProcessOneEvent \/ EventReturns
  BY <1>3 DEF ResetStop, RunReturns, ProcessOneEvent, EventReturns,
     CallProcessEventsWithContext, DestroyControl
<1>4. CASE DestroyOneEvent \/ DestroyEventReturns \/ DoDispose \/ DrainQueue
  BY <1>4 DEF DestroyOneEvent, DestroyEventReturns, DoDispose, DrainQueue, atCall,
     CallProcessEventsWithContext, DestroyControl
<1>5. CASE \E w \in Workers : LowerFlag(w) \/ \E d \in Delays : Push(w, d)
  BY <1>5 DEF LowerFlag, Push, control, atCall, DestroyControl
<1>6. CASE UNCHANGED vars
  BY <1>6 DEF vars, control, atCall, DestroyControl
<1> QED
  BY <1>1, <1>2, <1>3, <1>4, <1>5, <1>6 DEF Next, Steps

\* Steps that make no destroy event, take none from the list and run none.
LEMMA SameDestroys ==
  ASSUME DestroyData, m_destroyEvents' = m_destroyEvents, log' = log, revoked \subseteq revoked',
         \A id \in ids' : id.uid = DestroyUid => id \in ids
  PROVE  DestroyData'
<1>1. ToDestroy' = ToDestroy /\ Logged' = Logged
  BY DEF ToDestroy, Logged, ImplsOf
<1> QED
  BY <1>1 DEF DestroyData

\* A new destroy event goes behind all others.
LEMMA DestroyScheduled ==
  ASSUME IInv, PlaceInv, DestroyData, ScheduleDestroy
  PROVE  DestroyData'
<1> DEFINE id == [ts |-> m_currentTs, uid |-> DestroyUid, impl |-> NewImpl]
<1>1. /\ Make(Main) /\ m_destroyEvents' = Append(m_destroyEvents, id)
      /\ ids' = ids \cup {id} /\ log' = log /\ revoked' = revoked
  BY DEF ScheduleDestroy
<1>2. NewImpl \in 1..MaxEvents /\ \A i \in Impls : i < NewImpl
  BY <1>1, NewIsNowhere
<1>3. id \in EventIds /\ id.impl = NewImpl
  BY <1>2, NumbersAssumption DEF EventIds, DestroyUid, IInv, Types
<1> HIDE DEF id
<1>4. ToDestroy' = ToDestroy \cup {NewImpl}
  BY <1>1, <1>3, ListsAreTyped, ImplsAppend DEF ToDestroy
<1>5. Logged' = Logged
  BY <1>1 DEF Logged
<1>6. \A k \in DOMAIN log : log[k].impl < NewImpl
  BY <1>2 DEF PlaceInv, AllMade, Logged
<1> QED
  BY <1>1, <1>3, <1>4, <1>5, <1>6 DEF DestroyData

\* The first of the list is dropped when it is cancelled, and runs otherwise.
LEMMA DestroyOneRuns ==
  ASSUME IInv, PlaceInv, DestroyData, DestroyOneEvent
  PROVE  DestroyData'
<1> DEFINE ev == Head(m_destroyEvents)
<1>1. /\ m_destroyEvents # <<>> /\ m_destroyEvents' = Tail(m_destroyEvents)
      /\ \/ ev.impl \in cancelled /\ log' = log
         \/ log' = Append(log, ev)
  BY DEF DestroyOneEvent
<1>2. ids' = ids /\ revoked' = revoked
  BY DEF DestroyOneEvent, program
<1>3. /\ ev \in EventIds /\ ev.impl \in ToDestroy
      /\ ToDestroy' = ToDestroy \ {ev.impl}
      /\ \A i \in ToDestroy' : ev.impl < i
  BY <1>1, ListsAreTyped, ImplsTail DEF PlaceInv, Lists, ToDestroy
<1> HIDE DEF ev
<1>4. ev.impl \notin Logged /\ (ev.impl \in cancelled => ev.impl \in revoked)
  BY <1>3 DEF PlaceInv, Apart, RevokedIsOut
<1>5. CASE ev.impl \in cancelled /\ log' = log
  <2>1. Logged' = Logged
    BY <1>5 DEF Logged
  <2> QED
    BY <1>2, <1>3, <1>4, <1>5, <2>1 DEF DestroyData
<1>6. CASE log' = Append(log, ev)
  <2>1. /\ Logged' = Logged \cup {ev.impl}
        /\ DOMAIN log' = DOMAIN log \cup {Len(log) + 1}
        /\ \A k \in DOMAIN log : log'[k] = log[k]
        /\ log'[Len(log) + 1] = ev
        /\ DOMAIN log = 1..Len(log) /\ Len(log) \in Nat
    BY <1>3, <1>4, <1>6, LogGrows
  <2>2. \A id \in ids' : id.uid = DestroyUid => id.impl \in ToDestroy' \cup Logged' \cup revoked'
    BY <1>2, <1>3, <2>1 DEF DestroyData
  <2>3. \A k \in DOMAIN log' : log'[k].uid = DestroyUid => \A i \in ToDestroy' : log'[k].impl < i
    BY <1>3, <2>1 DEF DestroyData
  <2>4. ASSUME NEW j \in DOMAIN log', NEW k \in DOMAIN log', j < k,
               log'[j].uid = DestroyUid, log'[k].uid = DestroyUid
        PROVE  log'[j].impl < log'[k].impl
    <3>1. j \in DOMAIN log /\ log'[j] = log[j]
      BY <2>1, <2>4
    <3>2. CASE k \in DOMAIN log
      BY <2>1, <2>4, <3>1, <3>2 DEF DestroyData
    <3>3. CASE k = Len(log) + 1
      BY <1>3, <2>1, <2>4, <3>1, <3>3 DEF DestroyData
    <3> QED
      BY <2>1, <3>2, <3>3
  <2> QED
    BY <2>2, <2>3, <2>4 DEF DestroyData
<1> QED
  BY <1>1, <1>5, <1>6

\* An event of the main loop is no destroy event.
LEMMA DestroyAndLoop ==
  ASSUME IInv, PlaceInv, DestroyData, ProcessOneEvent
  PROVE  DestroyData'
<1>1. PICK next \in m_events : log' = log \/ log' = Append(log, next)
  BY DEF ProcessOneEvent
<1>2. ids' = ids /\ revoked' = revoked /\ m_destroyEvents' = m_destroyEvents
  BY DEF ProcessOneEvent, program
<1>3. next \in EventIds /\ next.impl \notin Logged /\ next.uid # DestroyUid
  BY ListsAreTyped DEF IInv, QueueKeys, PlaceInv, Apart, Queued, DestroyUid
<1>4. CASE log' = log
  BY <1>2, <1>4, SameDestroys
<1>5. CASE log' = Append(log, next)
  <2>1. /\ Logged' = Logged \cup {next.impl}
        /\ DOMAIN log' = DOMAIN log \cup {Len(log) + 1}
        /\ \A k \in DOMAIN log : log'[k] = log[k]
        /\ log'[Len(log) + 1] = next
    BY <1>3, <1>5, LogGrows
  <2>2. ToDestroy' = ToDestroy
    BY <1>2 DEF ToDestroy
  <2> QED
    BY <1>2, <1>3, <2>1, <2>2 DEF DestroyData
<1> QED
  BY <1>1, <1>4, <1>5

\* Cancel and Remove revoke.
LEMMA DestroyRevoked ==
  ASSUME IInv, PlaceInv, DestroyData,
         NEW id \in ids, Cancel(id) \/ Remove(id) \/ RemoveDestroy(id)
  PROVE  DestroyData'
<1>1. /\ revoked' = revoked \cup {id.impl} /\ ids' = ids /\ log' = log
  BY DEF Cancel, Remove, RemoveDestroy
<1>2. CASE m_destroyEvents' = m_destroyEvents
  BY <1>1, <1>2, SameDestroys
<1>3. CASE RemoveDestroy(id)
  <2>1. PICK n \in DOMAIN m_destroyEvents :
          /\ m_destroyEvents[n] = id
          /\ m_destroyEvents' = SeqX!RemoveAt(m_destroyEvents, n)
    BY <1>3 DEF RemoveDestroy
  <2>2. ToDestroy' = ToDestroy \ {id.impl}
    BY <2>1, ListsAreTyped, ImplsRemoveAt DEF ToDestroy, PlaceInv, Lists
  <2>3. Logged' = Logged
    BY <1>1 DEF Logged
  <2> QED
    BY <1>1, <2>2, <2>3 DEF DestroyData
<1> QED
  BY <1>2, <1>3 DEF Cancel, Remove

\* Every step keeps track of the destroy events.
LEMMA NextDestroy == IInv /\ PlaceInv /\ DestroyInv /\ [Next]_vars => DestroyInv'
<1> SUFFICES ASSUME IInv, PlaceInv, DestroyInv, [Next]_vars PROVE DestroyInv'
  OBVIOUS
<1>1. DestroyData /\ DestroyControl'
  BY NextDestroyControl DEF DestroyInv
<1>2. ASSUME NEW d \in Delays, Schedule(d) \/ ScheduleWithContextMain(d) \/ StopAfter(d)
      PROVE  DestroyData'
  <2>1. m_uid # DestroyUid
    BY DEF IInv, Types, UidsLeft, DestroyUid
  <2> QED
    BY <1>1, <1>2, <2>1, SameDestroys DEF Schedule, ScheduleWithContextMain, StopAfter
<1>3. ASSUME NEW id \in ids, Cancel(id) \/ RemoveDestroy(id) \/ Remove(id) PROVE DestroyData'
  BY <1>1, <1>3, DestroyRevoked
<1>4. ASSUME ScheduleDestroy PROVE DestroyData'
  BY <1>1, <1>4, DestroyScheduled
<1>5. ASSUME \/ Stop \/ Run \/ Destroy \/ TestFlag \/ Moved \/ ResetStop
             \/ RunReturns \/ EventReturns \/ DestroyEventReturns \/ DoDispose
             \/ (\E w \in Workers : LowerFlag(w))
             \/ UNCHANGED vars
      PROVE  DestroyData'
  BY <1>1, <1>5, StillSteps, SameDestroys DEF placeVars
<1>6. ASSUME NEW w \in Workers, NEW d \in Delays, Push(w, d) PROVE DestroyData'
  BY <1>1, <1>6, SameDestroys DEF Push
<1>7. ASSUME Swap \/ Move \/ DrainQueue PROVE DestroyData'
  BY <1>1, <1>7, SameDestroys DEF Swap, Move, DrainQueue, program
<1>8. ASSUME ProcessOneEvent \/ DestroyOneEvent PROVE DestroyData'
  BY <1>1, <1>8, DestroyAndLoop, DestroyOneRuns
<1>9. DestroyData'
  BY <1>2, <1>3, <1>4, <1>5, <1>6, <1>7, <1>8, Zenon DEF Next, Calls, Steps, HandOver
<1> QED
  BY <1>1, <1>9 DEF DestroyInv

-----------------------------------------------------------------------------
(* What was handed over before a look at the flag. *)

\* Nothing is due before the first call.
LEMMA InitDue == Init => DueInv
  BY DEF Init, DueInv, ImplsOf, Impls, HandedOver

\* A step that neither hands over nor takes over, within or without a call.
LEMMA DueStill ==
  ASSUME DueInv, handVars' = handVars, due' = due, Impls \subseteq Impls',
         pc' = "flag" => pc = "flag",
         pc' \notin {"flag", "swap"} => pc \notin {"flag", "swap"}
  PROVE  DueInv'
<1>1. /\ m_eventsWithContext' = m_eventsWithContext
      /\ m_eventsWithContextMutex' = m_eventsWithContextMutex
      /\ m_eventsWithContextEmpty' = m_eventsWithContextEmpty
  BY DEF handVars
<1>2. HandedOver' = HandedOver /\ ImplsOf(m_eventsWithContext') = ImplsOf(m_eventsWithContext)
  BY <1>1 DEF HandedOver
<1> QED
  BY <1>1, <1>2 DEF DueInv

\* A call of ProcessEventsWithContext.
LEMMA DueCall ==
  ASSUME IInv, PlaceInv, DueInv, handVars' = handVars, made' = made,
         NEW who, CallProcessEventsWithContext(who)
  PROVE  DueInv'
<1>1. /\ m_eventsWithContext' = m_eventsWithContext
      /\ m_eventsWithContextMutex' = m_eventsWithContextMutex
      /\ m_eventsWithContextEmpty' = m_eventsWithContextEmpty
  BY DEF handVars
<1>2. pc' = "flag" /\ due' = HandedOver /\ Impls' = Impls /\ HandedOver' = HandedOver
  BY <1>1 DEF CallProcessEventsWithContext, HandedOver, Impls
<1>3. HandedOver \subseteq ImplsOf(m_eventsWithContext)
  BY ListsAreTyped DEF HandedOver, ImplsOf
<1>4. HandedOver \subseteq Impls
  BY <1>3 DEF PlaceInv, AllMade, Waiting
<1> QED
  BY <1>1, <1>2, <1>4 DEF DueInv

\* The flag is up: no event is entirely handed over, so none is due.
LEMMA DueTestFlag == ASSUME IInv, DueInv, TestFlag PROVE DueInv'
<1>1. /\ pc = "flag" /\ handVars' = handVars /\ due' = due /\ made' = made
      /\ pc' = IF m_eventsWithContextEmpty THEN ReturnTo[caller] ELSE "swap"
  BY DEF TestFlag, atCall, program
<1>2. Impls' = Impls
  BY <1>1 DEF Impls
<1>3. CASE m_eventsWithContextEmpty
  <2>1. Len(m_eventsWithContext) \in Nat
    BY DEF IInv, Types
  <2>2. HandedOver = {}
    <3>1. 1..(Len(m_eventsWithContext) - (IF m_eventsWithContextMutex = NoThread THEN 0 ELSE 1)) = {}
      BY <1>3, <2>1 DEF DueInv
    <3> QED
      BY <3>1 DEF HandedOver
  <2>3. due = {}
    BY <1>1, <2>2 DEF DueInv
  <2> QED
    BY <1>1, <1>2, <2>3 DEF DueInv, handVars
<1>4. CASE ~ m_eventsWithContextEmpty
  <2>1. pc' = "swap"
    BY <1>1, <1>4
  <2> QED
    BY <1>1, <1>2, <2>1 DEF DueInv, handVars
<1> QED
  BY <1>3, <1>4

\* A thread pushes its event: it was not due, as it did not exist.
LEMMA DuePush ==
  ASSUME IInv, PlaceInv, DueInv, NEW w \in Workers, NEW d \in Delays, Push(w, d)
  PROVE  DueInv'
<1> DEFINE new == [timestamp |-> d, impl |-> NewImpl]
<1>1. /\ Make(w) /\ m_eventsWithContext' = Append(m_eventsWithContext, new)
      /\ m_eventsWithContextMutex = NoThread /\ m_eventsWithContextMutex' = w
      /\ UNCHANGED <<pc, due, m_eventsWithContextEmpty>>
  BY DEF Push, control, atCall
<1>2. /\ NewImpl \in 1..MaxEvents /\ NewImpl \notin Impls /\ Impls' = Impls \cup {NewImpl}
  BY <1>1, NewIsNowhere
<1>3. new \in Handing /\ new.impl = NewImpl
  BY <1>2, NumbersAssumption DEF Handing
<1> HIDE DEF new
<1>4. w # NoThread
  BY ThreadsAssumption
<1>5. /\ ImplsOf(m_eventsWithContext') = ImplsOf(m_eventsWithContext) \cup {NewImpl}
      /\ Len(m_eventsWithContext') = Len(m_eventsWithContext) + 1
      /\ Len(m_eventsWithContext) \in Nat
      /\ \A k \in 1..Len(m_eventsWithContext) : m_eventsWithContext'[k] = m_eventsWithContext[k]
  BY <1>1, <1>3, ListsAreTyped, ImplsAppend
<1>6. HandedOver' = HandedOver
  <2>1. HandedOver = {m_eventsWithContext[k].impl : k \in 1..Len(m_eventsWithContext)}
    BY <1>1, <1>5 DEF HandedOver
  <2>2. HandedOver' = {m_eventsWithContext'[k].impl : k \in 1..Len(m_eventsWithContext)}
    BY <1>1, <1>4, <1>5 DEF HandedOver
  <2> QED
    BY <1>5, <2>1, <2>2
<1>7. due \subseteq Impls /\ due' = due /\ pc' = pc
  BY <1>1 DEF DueInv
<1>8. m_eventsWithContextEmpty' =>
        Len(m_eventsWithContext') <= IF m_eventsWithContextMutex' = NoThread THEN 0 ELSE 1
  BY <1>1, <1>4, <1>5 DEF DueInv
<1>9. pc' = "flag" => due' \subseteq HandedOver'
  BY <1>6, <1>7 DEF DueInv
<1>10. pc' \notin {"flag", "swap"} => due' \cap ImplsOf(m_eventsWithContext') = {}
  BY <1>2, <1>5, <1>7 DEF DueInv
<1> QED
  BY <1>2, <1>7, <1>8, <1>9, <1>10 DEF DueInv

\* A thread leaves: its event is now entirely handed over, and the flag is down.
LEMMA DueLowerFlag ==
  ASSUME IInv, DueInv, NEW w \in Workers, LowerFlag(w)
  PROVE  DueInv'
<1>1. /\ m_eventsWithContextEmpty' = FALSE /\ m_eventsWithContextMutex' = NoThread
      /\ UNCHANGED <<m_eventsWithContext, pc, due, made>>
  BY DEF LowerFlag, control, atCall, program
<1>2. HandedOver \subseteq HandedOver'
  <2>1. HandedOver' = {m_eventsWithContext[k].impl : k \in 1..Len(m_eventsWithContext)}
    BY <1>1, ListsAreTyped DEF HandedOver
  <2>2. HandedOver \subseteq {m_eventsWithContext[k].impl : k \in 1..Len(m_eventsWithContext)}
    BY ListsAreTyped DEF HandedOver
  <2> QED
    BY <2>1, <2>2
<1>3. Impls' = Impls
  BY <1>1 DEF Impls
<1> QED
  BY <1>1, <1>2, <1>3 DEF DueInv

\* Main takes all that there is.
LEMMA DueSwap == ASSUME DueInv, Swap PROVE DueInv'
<1>1. /\ m_eventsWithContext' = <<>> /\ pc' = "move" /\ due' = due /\ made' = made
      /\ m_eventsWithContextMutex' = NoThread
  BY DEF Swap, atCall, program
<1>2. ImplsOf(m_eventsWithContext') = {} /\ Len(m_eventsWithContext') = 0 /\ Impls' = Impls
  BY <1>1 DEF ImplsOf, Impls
<1> QED
  BY <1>1, <1>2 DEF DueInv

\* Every step keeps the account of what is due.
LEMMA NextDue == IInv /\ PlaceInv /\ DueInv /\ [Next]_vars => DueInv'
<1> SUFFICES ASSUME IInv, PlaceInv, DueInv, [Next]_vars PROVE DueInv'
  OBVIOUS
<1>1. CASE Calls
  <2>1. CASE Run
    BY <2>1, DueCall DEF Run, program
  <2>2. CASE ~ Run
    <3>1. /\ handVars' = handVars /\ due' = due
          /\ pc \notin {"flag", "swap"} /\ pc' \notin {"flag", "swap"}
      BY <1>1, <2>2, Zenon DEF Calls, Schedule, ScheduleWithContextMain, StopAfter, Cancel, Remove,
         RemoveDestroy, ScheduleDestroy, Stop, Destroy, InProgram, control, atCall
    <3>2. made' = made \/ Make(Main)
      BY <1>1, <2>2, Zenon DEF Calls, Schedule, ScheduleWithContextMain, StopAfter, Cancel, Remove,
         RemoveDestroy, ScheduleDestroy, Stop, Destroy, program
    <3>3. Impls \subseteq Impls'
      BY <3>2, NewIsNowhere DEF Impls
    <3> QED
      BY <3>1, <3>3, DueStill
  <2> QED
    BY <2>1, <2>2
<1>2. CASE TestFlag
  BY <1>2, DueTestFlag
<1>3. CASE Swap
  BY <1>3, DueSwap
<1>4. CASE Move \/ Moved \/ ResetStop \/ RunReturns \/ DestroyOneEvent
           \/ DestroyEventReturns \/ DrainQueue \/ UNCHANGED vars
  <2>1. /\ handVars' = handVars /\ due' = due /\ made' = made
    BY <1>4, Zenon DEF Move, Moved, ResetStop, RunReturns, DestroyOneEvent, DestroyEventReturns,
       DrainQueue, vars, control, atCall, program
  <2>2. caller \in Callers
    BY DEF IInv, Types
  <2>3. /\ pc' = "flag" => pc = "flag"
        /\ pc' \notin {"flag", "swap"} => pc \notin {"flag", "swap"}
    BY <1>4, <2>2 DEF Move, Moved, ResetStop, RunReturns, DestroyOneEvent, DestroyEventReturns,
       DrainQueue, vars, control, ReturnTo, Callers
  <2>4. Impls' = Impls
    BY <2>1 DEF Impls
  <2> QED
    BY <2>1, <2>3, <2>4, DueStill
<1>5. CASE EventReturns \/ DoDispose
  BY <1>5, DueCall DEF EventReturns, DoDispose, program
<1>6. CASE ProcessOneEvent
  <2>1. /\ handVars' = handVars /\ made' = made /\ pc = "loop"
        /\ CallProcessEventsWithContext("ProcessOneEvent") \/ (pc' = "event" /\ due' = due)
    BY <1>6 DEF ProcessOneEvent, atCall, program
  <2>2. CASE CallProcessEventsWithContext("ProcessOneEvent")
    BY <2>1, <2>2, DueCall
  <2>3. CASE pc' = "event" /\ due' = due
    BY <2>1, <2>3, DueStill DEF Impls
  <2> QED
    BY <2>1, <2>2, <2>3
<1>7. CASE \E w \in Workers : LowerFlag(w) \/ \E d \in Delays : Push(w, d)
  BY <1>7, DuePush, DueLowerFlag
<1> QED
  BY <1>1, <1>2, <1>3, <1>4, <1>5, <1>6, <1>7, Zenon DEF Next, Steps, HandOver

-----------------------------------------------------------------------------
(* The theorems. *)

AllInv == IInv /\ LocalInv /\ PlaceInv /\ OrderInv /\ DestroyInv /\ DueInv

\* All the invariants hold in every state, when the uids do not wrap.
LEMMA AllInvariant == ASSUME NoWrap PROVE Spec => []AllInv
<1>1. Init => LocalInv
  BY DEF Init, LocalInv
<1>2. Init => AllInv
  BY <1>1, InitIInv, InitPlaces, InitOrder, InitDestroy, InitDue DEF AllInv
<1>3. AllInv /\ [Next]_vars => AllInv'
  BY NextIInv, NextLocal, NextPlaces, NextOrder, NextDestroy, NextDue DEF AllInv
<1> QED
  BY <1>2, <1>3, PTL DEF Spec

\* An event of the queue that was cancelled or removed while it was pending never
\* runs, whatever is scheduled, handed over and cancelled besides.
THEOREM NeverRunRevoked == ASSUME NoWrap PROVE Spec => []RevokedNeverRuns
<1>1. AllInv => RevokedNeverRuns
  BY DEF AllInv, PlaceInv, RevokedIsOut, RevokedNeverRuns, Logged
<1> QED
  BY <1>1, AllInvariant, PTL

\* An event is in exactly one place, from the call that makes it: no thread that
\* hands events over, no cancellation and no call of Destroy loses or doubles one.
THEOREM NoneLostOrDoubled == ASSUME NoWrap PROVE Spec => []NothingLost
<1>1. AllInv => NothingLost
  <2> SUFFICES ASSUME AllInv, pc # "destroyed", NEW i \in Impls
               PROVE  Cardinality(Places(i)) <= 1 /\ (i \notin revoked => Places(i) # {})
    BY DEF NothingLost
  <2>1. IInv /\ PlaceInv
    BY DEF AllInv
  <2> DEFINE H == {<<"handed", k>> : k \in {k \in DOMAIN m_eventsWithContext : m_eventsWithContext[k].impl = i}}
             M == {<<"moving", k>> : k \in {k \in DOMAIN eventsWithContext : eventsWithContext[k].impl = i}}
             Q == {<<"queued", e.uid>> : e \in {e \in m_events : e.impl = i}}
             D == {<<"destroy", k>> : k \in {k \in DOMAIN m_destroyEvents : m_destroyEvents[k].impl = i}}
             R == {<<"run", k>> : k \in {k \in DOMAIN log : log[k].impl = i}}
  <2>2. Places(i) = H \cup M \cup Q \cup D \cup R
    BY DEF Places
  <2>3. /\ H # {} <=> i \in ImplsOf(m_eventsWithContext)
        /\ M # {} <=> i \in ImplsOf(eventsWithContext)
        /\ Q # {} <=> i \in Queued
        /\ D # {} <=> i \in ToDestroy
        /\ R # {} <=> i \in Logged
    BY DEF ImplsOf, Queued, ToDestroy, Logged
  <2>4. /\ \A j, k \in DOMAIN m_eventsWithContext :
             m_eventsWithContext[j].impl = m_eventsWithContext[k].impl => j = k
        /\ \A j, k \in DOMAIN eventsWithContext :
             eventsWithContext[j].impl = eventsWithContext[k].impl => j = k
        /\ \A j, k \in DOMAIN m_destroyEvents :
             m_destroyEvents[j].impl = m_destroyEvents[k].impl => j = k
    <3>1. ASSUME NEW S, \A x \in S : x.impl \in Nat, NEW s \in Seq(S), Increasing(s),
                 NEW j \in DOMAIN s, NEW k \in DOMAIN s, s[j].impl = s[k].impl
          PROVE  j = k
      <4>1. s[j].impl \in Nat /\ s[k].impl \in Nat /\ j \in Nat /\ k \in Nat
        BY <3>1, ElementOfSeq
      <4> QED
        BY <3>1, <4>1 DEF Increasing
    <3> QED
      BY <2>1, <3>1, ListsAreTyped DEF PlaceInv, Lists
  <2>5. /\ \A p, q \in H : p = q
        /\ \A p, q \in M : p = q
        /\ \A p, q \in D : p = q
    BY <2>4
  <2>6. /\ \A p, q \in Q : p = q
        /\ \A p, q \in R : p = q
    BY <2>1 DEF PlaceInv, OnceEach
  <2>7. ~ (i \in ImplsOf(m_eventsWithContext) /\ i \in ImplsOf(eventsWithContext))
    BY <2>1, ListsAreTyped DEF PlaceInv, Lists
  <2> HIDE DEF H, M, Q, D, R
  <2>8. \A p, q \in Places(i) : p = q
    BY <2>1, <2>2, <2>3, <2>5, <2>6, <2>7 DEF PlaceInv, Apart, Waiting
  <2>9. Cardinality(Places(i)) <= 1
    <3>1. CASE Places(i) = {}
      BY <3>1, FS_EmptySet
    <3>2. CASE Places(i) # {}
      <4>1. PICK p : Places(i) = {p}
        BY <2>8, <3>2
      <4> QED
        BY <4>1, FS_Singleton
    <3> QED
      BY <3>1, <3>2
  <2>10. i \notin revoked => Places(i) # {}
    BY <2>1, <2>2, <2>3 DEF PlaceInv, AllThere, Waiting
  <2> QED
    BY <2>9, <2>10
<1> QED
  BY <1>1, AllInvariant, PTL

\* Of two events of one thread that run at one time, the one the thread asked for
\* first runs first, whether it was scheduled by main or handed over.
THEOREM FirstInFirstOut == ASSUME NoWrap PROVE Spec => []SameTimeFifo
<1>1. AllInv => SameTimeFifo
  <2> SUFFICES ASSUME AllInv, NEW j \in DOMAIN log, NEW k \in DOMAIN log,
                      j < k, log[j].uid # DestroyUid, log[k].uid # DestroyUid,
                      log[j].ts = log[k].ts, made[log[j].impl] = made[log[k].impl]
               PROVE  log[j].impl < log[k].impl
    BY DEF SameTimeFifo
  <2>1. Before(log[j], log[k]) /\ log[j] \in Keyed /\ log[k] \in Keyed
    BY DEF AllInv, OrderInv, LogOrder, Keyed
  <2>2. log[j].ts \in Nat
    BY KeyedAreTyped DEF AllInv
  <2>3. log[j].uid < log[k].uid
    BY <2>1, <2>2 DEF Before
  <2> QED
    BY <2>1, <2>3 DEF AllInv, OrderInv, UidOrder
<1> QED
  BY <1>1, AllInvariant, PTL

\* Destroy runs all destroy events that were not revoked, in the order of their
\* scheduling, before the simulator is disposed of.
THEOREM AllDestroyEventsRun == ASSUME NoWrap PROVE Spec => []DestroyEventsRun
<1>1. AllInv => DestroyEventsRun
  <2> SUFFICES ASSUME AllInv PROVE DestroyEventsRun
    OBVIOUS
  <2>1. ASSUME pc = "destroyed", NEW id \in ids, id.uid = DestroyUid
        PROVE  id.impl \in Logged \cup revoked
    <3>1. m_destroyEvents = <<>>
      BY <2>1 DEF AllInv, DestroyInv, DestroyControl
    <3>2. ToDestroy = {}
      BY <3>1 DEF ToDestroy, ImplsOf
    <3> QED
      BY <2>1, <3>2 DEF AllInv, DestroyInv, DestroyData
  <2> QED
    BY <2>1 DEF DestroyEventsRun, AllInv, DestroyInv, DestroyData
<1> QED
  BY <1>1, AllInvariant, PTL

\* Main reads the flag without the mutex, and no event that was handed over when
\* it began to look is left behind.
THEOREM NoneLeftBehind == ASSUME NoWrap PROVE Spec => []HandedOverInTime
<1>1. AllInv => HandedOverInTime
  BY DEF AllInv, DueInv, HandedOverInTime, ImplsOf
<1> QED
  BY <1>1, AllInvariant, PTL
=============================================================================
