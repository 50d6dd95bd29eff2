-------------------------- MODULE DefaultSimulator --------------------------
(***************************************************************************)
(* The single-process simulator, DefaultSimulatorImpl                      *)
(* (core/model/default-simulator-impl.cc): the main thread runs events in  *)
(* the order of their keys, the body of an event calls back into the       *)
(* simulator, and other threads hand events over with ScheduleWithContext. *)
(*                                                                         *)
(* An event implementation (EventImpl) is the number of its creation; its  *)
(* maker is made[i].  What an event does is left open: while one runs, any *)
(* sequence of calls to the simulator may happen.  The execution context   *)
(* of an event plays no part here.                                         *)
(***************************************************************************)
EXTENDS EventKeys, Integers, FiniteSets, Sequences

CONSTANTS
  Main,       \* the thread that calls Run, m_main
  Workers,    \* the other threads
  NoThread,   \* the owner of a free mutex
  Delays,     \* the delays the program asks for, in time steps
  UidMod,     \* number of values of m_uid: 2^32 in the code
  MaxEvents   \* bound on the events ever made

ASSUME ThreadsAssumption ==
  Main \notin Workers /\ NoThread \notin Workers \cup {Main}
ASSUME NumbersAssumption ==
  Delays \subseteq Nat /\ UidMod \in Nat \ (0..4) /\ MaxEvents \in Nat

SeqX == INSTANCE SequencesExt

VARIABLES
  m_events,                  \* pending events: [ts, uid, impl]
  m_uid,                     \* next unique id
  m_currentTs, m_currentUid, \* key of the running, or last, event
  m_unscheduledEvents,       \* count of pending events
  m_stop,
  m_eventsWithContext,       \* events handed over: [timestamp, impl]
  m_eventsWithContextEmpty,  \* the flag main reads without the mutex
  m_eventsWithContextMutex,  \* its owner
  eventsWithContext,         \* the list main has swapped out
  m_destroyEvents,           \* EventIds, oldest first
  cancelled,                 \* implementations with m_cancel set
  pc, caller,                \* main: where it is, who called the hand-over
  due,                       \* history: events handed over before that call
  made,                      \* made[i] is the thread that made event i
  ids,                       \* the EventIds the program holds
  stops,                     \* events made by Stop(delay)
  revoked,                   \* history: pending events cancelled or removed
  log                        \* history: the events run, in order

queueVars == <<m_events, m_uid, m_unscheduledEvents>>
clockVars == <<m_currentTs, m_currentUid>>
handVars  == <<m_eventsWithContext, m_eventsWithContextEmpty,
               m_eventsWithContextMutex>>
atCall    == <<caller, due>>
control   == <<pc, atCall>>
program   == <<made, ids, stops, revoked>>
vars == <<queueVars, clockVars, m_stop, handVars, eventsWithContext,
          m_destroyEvents, cancelled, control, program, log>>

InvalidUid == 0   \* uids are allocated from 4; 0 and 2 are reserved
DestroyUid == 2
Impls == 1..Len(made)
EventIds == [ts : Nat, uid : 0..(UidMod - 1), impl : 1..MaxEvents]
Logged == {log[k].impl : k \in DOMAIN log}

(***************************************************************************)
(* What the calls share.                                                   *)
(***************************************************************************)

\* The program may call the simulator: outside Run, or in an event's body.
InProgram == pc \in {"outside", "event", "destroyEvent"}

\* A thread makes one more event; it is the implementation NewImpl.
NewImpl == Len(made) + 1
Make(t) == Len(made) < MaxEvents /\ made' = Append(made, t)

NextUid == (m_uid + 1) % UidMod

\* An event goes into the queue under a fresh uid.
Insert(ts, impl) ==
  /\ m_events' = m_events \cup {[ts |-> ts, uid |-> m_uid, impl |-> impl]}
  /\ m_uid' = NextUid
  /\ m_unscheduledEvents' = m_unscheduledEvents + 1

\* Mutant: the running event is not yet expired.
IsExpired_Strict(id) ==
  \/ id.impl \in cancelled
  \/ id.uid = DestroyUid /\ \A k \in DOMAIN m_destroyEvents : m_destroyEvents[k] # id
  \/ id.uid # DestroyUid /\ Before(id, [ts |-> m_currentTs, uid |-> m_currentUid])

IsExpired(id) ==
  \/ id.impl \in cancelled
  \/ id.uid = DestroyUid /\ \A k \in DOMAIN m_destroyEvents : m_destroyEvents[k] # id
  \/ /\ id.uid # DestroyUid
     /\ ~ Before([ts |-> m_currentTs, uid |-> m_currentUid], id)

Init ==
  /\ m_events = {} /\ m_uid = 4 /\ m_unscheduledEvents = 0
  /\ m_currentTs = 0 /\ m_currentUid = InvalidUid
  /\ m_stop = FALSE
  /\ m_eventsWithContext = <<>> /\ m_eventsWithContextEmpty = TRUE
  /\ m_eventsWithContextMutex = NoThread
  /\ eventsWithContext = <<>>
  /\ m_destroyEvents = <<>>
  /\ cancelled = {}
  /\ pc = "outside" /\ caller = "Run" /\ due = {}
  /\ made = <<>> /\ ids = {} /\ stops = {} /\ revoked = {}
  /\ log = <<>>

(***************************************************************************)
(* Calls of the program on the main thread.                                *)
(***************************************************************************)

\* Schedule, and ScheduleNow with a zero delay: the caller gets an EventId.
Schedule(d) ==
  /\ InProgram
  /\ Make(Main)
  /\ Insert(m_currentTs + d, NewImpl)
  /\ ids' = ids \cup {[ts |-> m_currentTs + d, uid |-> m_uid, impl |-> NewImpl]}
  /\ UNCHANGED <<clockVars, m_stop, handVars, eventsWithContext,
                 m_destroyEvents, cancelled, control, stops, revoked, log>>

\* ScheduleWithContext on the main thread returns no EventId.
ScheduleWithContextMain(d) ==
  /\ InProgram
  /\ Make(Main)
  /\ Insert(m_currentTs + d, NewImpl)
  /\ UNCHANGED <<clockVars, m_stop, handVars, eventsWithContext,
                 m_destroyEvents, cancelled, control, ids, stops, revoked, log>>

\* Stop(delay) schedules an event that calls Stop.
StopAfter(d) ==
  /\ InProgram
  /\ Make(Main)
  /\ Insert(m_currentTs + d, NewImpl)
  /\ stops' = stops \cup {NewImpl}
  /\ UNCHANGED <<clockVars, m_stop, handVars, eventsWithContext,
                 m_destroyEvents, cancelled, control, ids, revoked, log>>

Stop ==
  /\ InProgram
  /\ m_stop' = TRUE
  /\ UNCHANGED <<queueVars, clockVars, handVars, eventsWithContext,
                 m_destroyEvents, cancelled, control, program, log>>

ScheduleDestroy ==
  /\ InProgram
  /\ Make(Main)
  /\ LET id == [ts |-> m_currentTs, uid |-> DestroyUid, impl |-> NewImpl]
     IN  m_destroyEvents' = Append(m_destroyEvents, id) /\ ids' = ids \cup {id}
  /\ m_uid' = NextUid
  /\ UNCHANGED <<m_events, m_unscheduledEvents, clockVars, m_stop, handVars,
                 eventsWithContext, cancelled, control, stops, revoked, log>>

\* Cancel leaves the event in the queue; on an expired id it does nothing.
Cancel(id) ==
  /\ InProgram
  /\ ~ IsExpired(id)
  /\ cancelled' = cancelled \cup {id.impl}
  /\ revoked' = revoked \cup {id.impl}
  /\ UNCHANGED <<queueVars, clockVars, m_stop, handVars, eventsWithContext,
                 m_destroyEvents, control, made, ids, stops, log>>

\* Remove of a destroy event erases it from the list and does not cancel it.
RemoveDestroy(id) ==
  /\ InProgram
  /\ id.uid = DestroyUid
  /\ \E k \in DOMAIN m_destroyEvents :
       m_destroyEvents[k] = id /\ m_destroyEvents' = SeqX!RemoveAt(m_destroyEvents, k)
  /\ revoked' = revoked \cup {id.impl}
  /\ UNCHANGED <<queueVars, clockVars, m_stop, handVars, eventsWithContext,
                 cancelled, control, made, ids, stops, log>>

\* Mutant: Remove without the test for expiry.
Remove_NoTest(id) ==
  /\ InProgram
  /\ id.uid # DestroyUid
  /\ m_events' = m_events \ {id}
  /\ m_unscheduledEvents' = m_unscheduledEvents - 1
  /\ cancelled' = cancelled \cup {id.impl}
  /\ revoked' = revoked \cup {id.impl}
  /\ UNCHANGED <<m_uid, clockVars, m_stop, handVars, eventsWithContext,
                 m_destroyEvents, control, made, ids, stops, log>>

\* Remove of another event takes it out of the queue; expired: no effect.
Remove(id) ==
  /\ InProgram
  /\ id.uid # DestroyUid
  /\ ~ IsExpired(id)
  /\ m_events' = m_events \ {id}
  /\ m_unscheduledEvents' = m_unscheduledEvents - 1
  /\ cancelled' = cancelled \cup {id.impl}
  /\ revoked' = revoked \cup {id.impl}
  /\ UNCHANGED <<m_uid, clockVars, m_stop, handVars, eventsWithContext,
                 m_destroyEvents, control, made, ids, stops, log>>

(***************************************************************************)
(* ScheduleWithContext on another thread: push under the mutex, then lower *)
(* the flag and leave.  Such threads are joined before Destroy is called.  *)
(***************************************************************************)
Push(w, d) ==
  /\ caller # "DoDispose"
  /\ m_eventsWithContextMutex = NoThread
  /\ Make(w)
  /\ m_eventsWithContextMutex' = w
  /\ m_eventsWithContext' =
       Append(m_eventsWithContext, [timestamp |-> d, impl |-> NewImpl])
  /\ UNCHANGED <<queueVars, clockVars, m_stop, m_eventsWithContextEmpty,
                 eventsWithContext, m_destroyEvents, cancelled, control, ids,
                 stops, revoked, log>>

\* Mutant: the flag stays up.
LowerFlag_Forgotten(w) ==
  /\ m_eventsWithContextMutex = w
  /\ m_eventsWithContextMutex' = NoThread
  /\ UNCHANGED <<queueVars, clockVars, m_stop, m_eventsWithContext,
                 m_eventsWithContextEmpty, eventsWithContext, m_destroyEvents,
                 cancelled, control, program, log>>

LowerFlag(w) ==
  /\ m_eventsWithContextMutex = w
  /\ m_eventsWithContextEmpty' = FALSE
  /\ m_eventsWithContextMutex' = NoThread
  /\ UNCHANGED <<queueVars, clockVars, m_stop, m_eventsWithContext,
                 eventsWithContext, m_destroyEvents, cancelled, control,
                 program, log>>

(***************************************************************************)
(* ProcessEventsWithContext, called by Run, by ProcessOneEvent and by      *)
(* DoDispose: test the flag without the mutex, swap the lists under it,    *)
(* then insert the swapped events one at a time.                           *)
(***************************************************************************)
ReturnTo == [Run |-> "reset", ProcessOneEvent |-> "loop", DoDispose |-> "drain"]

\* The events that threads have entirely handed over: all but the one whose
\* thread is still between the push and the flag.
HandedOver ==
  {m_eventsWithContext[k].impl : k \in
     1..(Len(m_eventsWithContext) - (IF m_eventsWithContextMutex = NoThread THEN 0 ELSE 1))}

CallProcessEventsWithContext(who) == pc' = "flag" /\ caller' = who /\ due' = HandedOver

TestFlag ==
  /\ pc = "flag"
  /\ pc' = IF m_eventsWithContextEmpty THEN ReturnTo[caller] ELSE "swap"
  /\ UNCHANGED <<queueVars, clockVars, m_stop, handVars, eventsWithContext,
                 m_destroyEvents, cancelled, atCall, program, log>>

\* Mutant: takes the head of the list and drops the rest.
Swap_HeadOnly ==
  /\ pc = "swap"
  /\ m_eventsWithContextMutex = NoThread
  /\ eventsWithContext' = <<Head(m_eventsWithContext)>>
  /\ m_eventsWithContext' = <<>>
  /\ m_eventsWithContextEmpty' = TRUE
  /\ pc' = "move"
  /\ UNCHANGED <<queueVars, clockVars, m_stop, m_eventsWithContextMutex,
                 m_destroyEvents, cancelled, atCall, program, log>>

Swap ==
  /\ pc = "swap"
  /\ m_eventsWithContextMutex = NoThread
  /\ eventsWithContext' = m_eventsWithContext
  /\ m_eventsWithContext' = <<>>
  /\ m_eventsWithContextEmpty' = TRUE
  /\ pc' = "move"
  /\ UNCHANGED <<queueVars, clockVars, m_stop, m_eventsWithContextMutex,
                 m_destroyEvents, cancelled, atCall, program, log>>

\* Mutant: the delay is taken for a time.
Move_NoCurrentTime ==
  /\ pc = "move"
  /\ eventsWithContext # <<>>
  /\ Insert(Head(eventsWithContext).timestamp, Head(eventsWithContext).impl)
  /\ eventsWithContext' = Tail(eventsWithContext)
  /\ UNCHANGED <<clockVars, m_stop, handVars, m_destroyEvents, cancelled,
                 control, program, log>>

Move ==
  /\ pc = "move"
  /\ eventsWithContext # <<>>
  /\ Insert(m_currentTs + Head(eventsWithContext).timestamp,
            Head(eventsWithContext).impl)
  /\ eventsWithContext' = Tail(eventsWithContext)
  /\ UNCHANGED <<clockVars, m_stop, handVars, m_destroyEvents, cancelled,
                 control, program, log>>

Moved ==
  /\ pc = "move"
  /\ eventsWithContext = <<>>
  /\ pc' = ReturnTo[caller]
  /\ UNCHANGED <<queueVars, clockVars, m_stop, handVars, eventsWithContext,
                 m_destroyEvents, cancelled, atCall, program, log>>

(***************************************************************************)
(* Run.                                                                    *)
(***************************************************************************)
Run ==
  /\ pc = "outside"
  /\ CallProcessEventsWithContext("Run")
  /\ UNCHANGED <<queueVars, clockVars, m_stop, handVars, eventsWithContext,
                 m_destroyEvents, cancelled, program, log>>

ResetStop ==
  /\ pc = "reset"
  /\ m_stop' = FALSE
  /\ pc' = "loop"
  /\ UNCHANGED <<queueVars, clockVars, handVars, eventsWithContext,
                 m_destroyEvents, cancelled, atCall, program, log>>

\* The loop condition fails: Run returns.
RunReturns ==
  /\ pc = "loop"
  /\ m_events = {} \/ m_stop
  /\ pc' = "outside"
  /\ UNCHANGED <<queueVars, clockVars, m_stop, handVars, eventsWithContext,
                 m_destroyEvents, cancelled, atCall, program, log>>

\* Mutant: invokes an event that was cancelled.
ProcessOneEvent_Always ==
  /\ pc = "loop"
  /\ ~ m_stop
  /\ \E next \in m_events :
       /\ IsNext(next, m_events)
       /\ m_events' = m_events \ {next}
       /\ m_currentTs' = next.ts
       /\ m_currentUid' = next.uid
       /\ m_stop' = (next.impl \in stops)
       /\ log' = Append(log, next)
  /\ pc' = "event"
  /\ m_unscheduledEvents' = m_unscheduledEvents - 1
  /\ UNCHANGED <<m_uid, handVars, eventsWithContext, m_destroyEvents,
                 cancelled, atCall, program>>

\* ProcessOneEvent up to the body of the event.  Invoke does nothing when the
\* event is cancelled; the body of a Stop(delay) event sets m_stop.
ProcessOneEvent ==
  /\ pc = "loop"
  /\ ~ m_stop
  /\ \E next \in m_events :
       /\ IsNext(next, m_events)
       /\ m_events' = m_events \ {next}
       /\ m_currentTs' = next.ts
       /\ m_currentUid' = next.uid
       /\ m_stop' = (next.impl \in stops)
       /\ \/ /\ next.impl \in cancelled
             /\ CallProcessEventsWithContext("ProcessOneEvent")
             /\ log' = log
          \/ /\ next.impl \notin cancelled
             /\ pc' = "event" /\ UNCHANGED atCall
             /\ log' = Append(log, next)
  /\ m_unscheduledEvents' = m_unscheduledEvents - 1
  /\ UNCHANGED <<m_uid, handVars, eventsWithContext, m_destroyEvents,
                 cancelled, program>>

EventReturns ==
  /\ pc = "event"
  /\ CallProcessEventsWithContext("ProcessOneEvent")
  /\ UNCHANGED <<queueVars, clockVars, m_stop, handVars, eventsWithContext,
                 m_destroyEvents, cancelled, program, log>>

(***************************************************************************)
(* Simulator::Destroy: Destroy runs the destroy events, and dropping the   *)
(* last reference to the simulator calls DoDispose.                        *)
(***************************************************************************)
Destroy ==
  /\ pc = "outside"
  /\ m_eventsWithContextMutex = NoThread
  /\ pc' = "destroy" /\ caller' = "DoDispose" /\ due' = due
  /\ UNCHANGED <<queueVars, clockVars, m_stop, handVars, eventsWithContext,
                 m_destroyEvents, cancelled, program, log>>

DestroyOneEvent ==
  /\ pc = "destroy"
  /\ m_destroyEvents # <<>>
  /\ m_destroyEvents' = Tail(m_destroyEvents)
  /\ LET ev == Head(m_destroyEvents) IN
       \/ ev.impl \in cancelled /\ UNCHANGED <<pc, log>>
       \/ /\ ev.impl \notin cancelled
          /\ pc' = "destroyEvent"
          /\ log' = Append(log, ev)
  /\ UNCHANGED <<queueVars, clockVars, m_stop, handVars, eventsWithContext,
                 cancelled, atCall, program>>

DestroyEventReturns ==
  /\ pc = "destroyEvent"
  /\ pc' = "destroy"
  /\ UNCHANGED <<queueVars, clockVars, m_stop, handVars, eventsWithContext,
                 m_destroyEvents, cancelled, atCall, program, log>>

\* Mutant: disposes of the simulator with destroy events left.
DoDispose_Early ==
  /\ pc = "destroy"
  /\ CallProcessEventsWithContext("DoDispose")
  /\ UNCHANGED <<queueVars, clockVars, m_stop, handVars, eventsWithContext,
                 m_destroyEvents, cancelled, program, log>>

DoDispose ==
  /\ pc = "destroy"
  /\ m_destroyEvents = <<>>
  /\ CallProcessEventsWithContext("DoDispose")
  /\ UNCHANGED <<queueVars, clockVars, m_stop, handVars, eventsWithContext,
                 m_destroyEvents, cancelled, program, log>>

DrainQueue ==
  /\ pc = "drain"
  /\ m_events' = {}
  /\ pc' = "destroyed"
  /\ UNCHANGED <<m_uid, m_unscheduledEvents, clockVars, m_stop, handVars,
                 eventsWithContext, m_destroyEvents, cancelled, atCall, program, log>>

(***************************************************************************)
(* The specification.                                                      *)
(***************************************************************************)
Calls ==
  \/ \E d \in Delays : Schedule(d) \/ ScheduleWithContextMain(d) \/ StopAfter(d)
  \/ \E id \in ids : Cancel(id) \/ RemoveDestroy(id) \/ Remove(id)
  \/ ScheduleDestroy \/ Stop \/ Run \/ Destroy

HandOver == TestFlag \/ Swap \/ Move \/ Moved
Steps ==
  \/ HandOver
  \/ ResetStop \/ RunReturns \/ ProcessOneEvent \/ EventReturns
  \/ DestroyOneEvent \/ DestroyEventReturns \/ DoDispose \/ DrainQueue

Next ==
  \/ Calls
  \/ Steps
  \/ \E w \in Workers : LowerFlag(w) \/ \E d \in Delays : Push(w, d)

Spec == Init /\ [][Next]_vars

(***************************************************************************)
(* Properties.                                                             *)
(***************************************************************************)

PcValues == {"outside", "flag", "swap", "move", "reset", "loop", "event",
             "destroy", "destroyEvent", "drain", "destroyed"}

Callers == {"Run", "ProcessOneEvent", "DoDispose"}

\* The variables have their types.
TypeOK ==
  /\ m_events \subseteq EventIds
  /\ m_uid \in 0..(UidMod - 1)
  /\ m_currentTs \in Nat /\ m_currentUid \in 0..(UidMod - 1)
  /\ m_unscheduledEvents \in Nat
  /\ m_stop \in BOOLEAN /\ m_eventsWithContextEmpty \in BOOLEAN
  /\ m_eventsWithContext \in Seq([timestamp : Nat, impl : 1..MaxEvents])
  /\ eventsWithContext \in Seq([timestamp : Nat, impl : 1..MaxEvents])
  /\ m_eventsWithContextMutex \in Workers \cup {NoThread}
  /\ m_destroyEvents \in Seq(EventIds)
  /\ pc \in PcValues /\ caller \in Callers /\ due \subseteq 1..MaxEvents
  /\ made \in Seq(Workers \cup {Main}) /\ Len(made) <= MaxEvents
  /\ ids \subseteq EventIds
  /\ cancelled \subseteq 1..MaxEvents
  /\ stops \subseteq 1..MaxEvents /\ revoked \subseteq 1..MaxEvents
  /\ log \in Seq(EventIds)

CurrentKey == [ts |-> m_currentTs, uid |-> m_currentUid]

\* Every pending event is due after the event that is running or ran last:
\* whatever the running event, a thread or a later Run schedules, the
\* assertion of ProcessOneEvent (time does not go back) cannot fail.
PendingAfterCurrent == \A e \in m_events : Before(CurrentKey, e)

\* Events run in the strict order of their keys: a step of the main loop
\* never goes back in time, nor back in the order of the uids at one time.
EventsRunInOrder ==
  [][clockVars' # clockVars => Before(CurrentKey, CurrentKey')]_vars

\* IsExpired answers from a comparison of keys, without a look at the queue;
\* the answer is nevertheless exact: the EventId of an event of the queue is not
\* expired exactly when its event is still going to run.  Destroy events are not
\* spoken of: simulator.h says that to test one "will result in a program error",
\* although IsExpired has a branch for them.
ExpiryIsExact ==
  pc # "destroyed" =>
    \A id \in ids : id.uid # DestroyUid =>
      (~ IsExpired(id) <=> (id \in m_events /\ id.impl \notin cancelled))

\* The count that Run checks on its way out is the length of the queue.
CountIsQueueLength ==
  pc # "destroyed" => m_unscheduledEvents = Cardinality(m_events)

\* An event of the queue cancelled or removed while it was pending never runs.
\* Nothing is said of destroy events: simulator.h says that to cancel or remove
\* one "will result in a program error", although the code has branches for them.
RevokedNeverRuns ==
  \A k \in DOMAIN log : log[k].uid # DestroyUid => log[k].impl \notin revoked

\* Until the simulator is disposed of, an event is in exactly one place: handed
\* over, being moved, queued, in the list of destroy events, run (once), or
\* taken out by Remove.  No interleaving of threads loses or doubles one.
Places(i) ==
  {<<"handed", k>> : k \in {k \in DOMAIN m_eventsWithContext : m_eventsWithContext[k].impl = i}}
  \cup {<<"moving", k>> : k \in {k \in DOMAIN eventsWithContext : eventsWithContext[k].impl = i}}
  \cup {<<"queued", e.uid>> : e \in {e \in m_events : e.impl = i}}
  \cup {<<"destroy", k>> : k \in {k \in DOMAIN m_destroyEvents : m_destroyEvents[k].impl = i}}
  \cup {<<"run", k>> : k \in {k \in DOMAIN log : log[k].impl = i}}
NothingLost ==
  pc # "destroyed" =>
    \A i \in Impls : /\ Cardinality(Places(i)) <= 1
                     /\ i \notin revoked => Places(i) # {}

\* Simulator::Destroy runs every destroy event that was not revoked, those
\* that destroy events schedule included, in the order they were scheduled.
DestroyEventsRun ==
  /\ pc = "destroyed" =>
       \A id \in ids : id.uid = DestroyUid => id.impl \in Logged \cup revoked
  /\ \A j, k \in DOMAIN log :
       j < k /\ log[j].uid = DestroyUid /\ log[k].uid = DestroyUid
         => log[j].impl < log[k].impl

\* "Events whose expiration time is the same are scheduled in FIFO order": of
\* two events of one thread that run at the same time, the one the thread
\* asked for first runs first, handed over or not.
SameTimeFifo ==
  \A j, k \in DOMAIN log :
    /\ j < k /\ log[j].uid # DestroyUid /\ log[k].uid # DestroyUid
    /\ log[j].ts = log[k].ts
    /\ made[log[j].impl] = made[log[k].impl]
    => log[j].impl < log[k].impl

\* simulator.h on Stop(delay): Run returns "when the expiration time of the next
\* event to be processed is greater than or equal to the stop time".  While the
\* stop event is pending, no other event due at its time or later is run.
NothingAtStopTime ==
  [][\A s \in m_events :
       s.impl \in stops /\ log' # log /\ pc = "loop"
         => log'[Len(log')].impl = s.impl \/ log'[Len(log')].ts < s.ts]_vars

\* Main tests the flag without the mutex; still, an event handed over before an
\* event returns (before Run or DoDispose begins) is in the queue when the main
\* loop goes on (when the queue is drained).
HandedOverInTime ==
  pc \in {"reset", "loop", "drain"} =>
    \A i \in due : ~ \E k \in DOMAIN m_eventsWithContext : m_eventsWithContext[k].impl = i

=============================================================================
