----------------------------- MODULE NullMessage -----------------------------
(***************************************************************************)
(* The conservative parallel simulator with null messages:                 *)
(* NullMessageSimulatorImpl (mpi/model/null-message-simulator-impl.cc) on  *)
(* each rank, its RemoteChannelBundles, and NullMessageMpiInterface.  With *)
(* every message a rank sends a neighbour a guarantee, a time before which *)
(* it is not going to send it anything; a rank runs its events up to the   *)
(* least guarantee it has from its neighbours.  A rank with nothing to     *)
(* send a neighbour sends it null messages, from an event of its own.      *)
(*                                                                         *)
(* One call of Run is modelled.  The body of an event is any sequence of   *)
(* Schedule and of packets handed to point-to-point devices that are not   *)
(* transmitting; each rank stops by an event scheduled before Run.         *)
(***************************************************************************)
EXTENDS EventKeys, Sequences, FiniteSets

CONSTANTS
  Rank,           \* the MPI tasks, numbered
  Links,          \* remote point-to-point links: [ends, delay, id]
  Infinity,       \* GetMaximumSimulationTime
  NullDelay,      \* m_schedulerTune times the delay of a bundle, in time steps
  InitialTime,    \* when each rank has an event scheduled before Run
  StopTime,       \* when each rank stops
  Delays,         \* delays of the events the program schedules
  TxTimes,        \* transmission times of packets
  MaxWork         \* bound on what the program does on each rank

Neighbours(r) == {s \in Rank \ {r} : \E l \in Links : l.ends = {r, s}}
Bundle(r, s)  == {l \in Links : l.ends = {r, s}}
Bundles       == {b \in Rank \X Rank : b[2] \in Neighbours(b[1])}

ASSUME RankAssumption == IsFiniteSet(Rank) /\ Rank \subseteq Nat
ASSUME LinksAssumption ==
  \A l \in Links : l.delay \in Nat /\ \E r, s \in Rank : r # s /\ l.ends = {r, s}
ASSUME TimeAssumption ==
  /\ Infinity \in Nat /\ NullDelay \in [Bundles -> Nat]
  /\ InitialTime \in [Rank -> Nat] /\ StopTime \in [Rank -> Nat]
  /\ Delays \subseteq Nat /\ TxTimes \subseteq Nat /\ MaxWork \in [Rank -> Nat]

VARIABLES
  pc,               \* where each rank is in Run
  m_events,         \* pending events of each rank: [ts, uid]
  cancelled,        \* the uids of those that were cancelled
  m_uid, m_currentUid, m_currentTs,
  m_stop, m_safeTime,
  m_guaranteeTime,  \* for each bundle <<r, s>>: what r has from s
  m_nullEventId,    \* for each bundle: the uid of its next null message event
  m_transmitting,   \* for each rank and link: uid of TransmitComplete, or READY
  channel,          \* for each bundle: the messages from r to s, in MPI's order
  work              \* what the program has done on each rank

clockVars == <<m_currentUid, m_currentTs, m_stop>>
eventVars == <<m_events, cancelled, m_uid>>
bundleVars == <<m_guaranteeTime, m_safeTime>>
vars == <<pc, eventVars, clockVars, bundleVars, m_nullEventId, m_transmitting, channel, work>>

READY == 0
AppUid == 4
StopUid == 5
FirstNullUid == 6

Lesser(x, y) == IF x <= y THEN x ELSE y

\* AddChannel: the delay of a bundle is the least of its channels.
BundleDelay(r, s) ==
  CHOOSE d \in {l.delay : l \in Bundle(r, s)} : \A l \in Bundle(r, s) : d <= l.delay

(***************************************************************************)
(* Sending.                                                                *)
(***************************************************************************)

\* Mutant: the delay with the wrong sign.
Guarantees_Before(r, s, S) ==
  {Lesser(next.ts, m_safeTime[r]) - BundleDelay(r, s) : next \in {e \in S : IsNext(e, S)}}

\* Min (Next (), GetSafeTime ()) + the delay of the bundle, when the pending
\* events of r are S.
Guarantees(r, s, S) ==
  {Lesser(next.ts, m_safeTime[r]) + BundleDelay(r, s) : next \in {e \in S : IsNext(e, S)}}

NullMessageWith(g) == [rxTime |-> 0, guarantee |-> g]

Goto(r, from, to) == pc[r] = from /\ pc' = [pc EXCEPT ![r] = to]

Init ==
  /\ pc = [r \in Rank |-> "start"]
  /\ m_events = [r \in Rank |->
       {[ts |-> InitialTime[r], uid |-> AppUid], [ts |-> StopTime[r], uid |-> StopUid]}]
  /\ cancelled = [r \in Rank |-> {}]
  /\ m_uid = [r \in Rank |-> FirstNullUid]
  /\ m_currentUid = [r \in Rank |-> 0]
  /\ m_currentTs = [r \in Rank |-> 0]
  /\ m_stop = [r \in Rank |-> FALSE]
  /\ m_safeTime = [r \in Rank |-> 0]
  /\ m_guaranteeTime = [b \in Bundles |-> 0]
  /\ m_nullEventId = [b \in Bundles |-> 0]
  /\ m_transmitting = [r \in Rank |-> [l \in Links |-> READY]]
  /\ channel = [b \in Bundles |-> <<>>]
  /\ work = [r \in Rank |-> 0]

\* Mutant: no first promise.
Run_NoPromise(r) ==
  /\ Goto(r, "start", "loop")
  /\ LET uidOf(s) == m_uid[r] + Cardinality({q \in Neighbours(r) : q < s}) IN
     /\ m_nullEventId' = [b \in Bundles |-> IF b[1] = r THEN uidOf(b[2]) ELSE m_nullEventId[b]]
     /\ m_events' = [m_events EXCEPT ![r] =
          @ \cup {[ts |-> NullDelay[<<r, s>>], uid |-> uidOf(s)] : s \in Neighbours(r)}]
     /\ m_uid' = [m_uid EXCEPT ![r] = @ + Cardinality(Neighbours(r))]
  /\ UNCHANGED <<cancelled, clockVars, bundleVars, m_transmitting, channel, work>>

\* Run, up to its loop: InitializeNullMessageEvents promises each neighbour the
\* delay of the bundle, and schedules the first null message event of each, in
\* the order of the ranks.
Run(r) ==
  /\ Goto(r, "start", "loop")
  /\ LET uidOf(s) == m_uid[r] + Cardinality({q \in Neighbours(r) : q < s}) IN
     /\ channel' = [b \in Bundles |->
          IF b[1] = r THEN Append(channel[b], NullMessageWith(BundleDelay(r, b[2])))
          ELSE channel[b]]
     /\ m_nullEventId' = [b \in Bundles |-> IF b[1] = r THEN uidOf(b[2]) ELSE m_nullEventId[b]]
     /\ m_events' = [m_events EXCEPT ![r] =
          @ \cup {[ts |-> NullDelay[<<r, s>>], uid |-> uidOf(s)] : s \in Neighbours(r)}]
     /\ m_uid' = [m_uid EXCEPT ![r] = @ + Cardinality(Neighbours(r))]
  /\ UNCHANGED <<cancelled, clockVars, bundleVars, m_transmitting, work>>

(***************************************************************************)
(* The loop of Run.                                                        *)
(***************************************************************************)

\* IsFinished.
RunReturns(r) ==
  /\ Goto(r, "loop", "done")
  /\ m_stop[r] \/ m_events[r] = {}
  /\ UNCHANGED <<eventVars, clockVars, bundleVars, m_nullEventId, m_transmitting, channel, work>>

\* The next event is safe: ProcessOneEvent, up to its body.  If it is the
\* TransmitComplete of a device, the device is ready for another packet.
ProcessOneEvent(r) ==
  /\ Goto(r, "loop", "event")
  /\ ~ m_stop[r]
  /\ \E next \in m_events[r] :
       /\ IsNext(next, m_events[r])
       /\ next.ts <= m_safeTime[r]
       /\ m_events' = [m_events EXCEPT ![r] = @ \ {next}]
       /\ m_currentTs' = [m_currentTs EXCEPT ![r] = next.ts]
       /\ m_currentUid' = [m_currentUid EXCEPT ![r] = next.uid]
       /\ m_transmitting' = [m_transmitting EXCEPT ![r] =
            [l \in Links |-> IF @[l] = next.uid THEN READY ELSE @[l]]]
  /\ UNCHANGED <<cancelled, m_uid, m_stop, bundleVars, m_nullEventId, channel, work>>

\* Mutant: the latest message overtakes the others.
Take_Latest(r, s) ==
  LET n == Len(channel[<<s, r>>])
      m == channel[<<s, r>>][n] IN
  /\ s \in Neighbours(r) /\ channel[<<s, r>>] # <<>>
  /\ channel' = [channel EXCEPT ![<<s, r>>] = SubSeq(@, 1, n - 1)]
  /\ m_guaranteeTime' = [m_guaranteeTime EXCEPT ![<<r, s>>] = m.guarantee]
  /\ IF m.rxTime > 0
     THEN /\ m_events' = [m_events EXCEPT ![r] = @ \cup {[ts |-> m.rxTime, uid |-> m_uid[r]]}]
          /\ m_uid' = [m_uid EXCEPT ![r] = @ + 1]
     ELSE UNCHANGED <<m_events, m_uid>>
  /\ UNCHANGED <<cancelled, clockVars, m_safeTime, m_nullEventId, m_transmitting, work>>

\* One message from s, oldest first: a packet becomes an event of r, and any
\* message brings a guarantee.
Take(r, s) ==
  LET m == Head(channel[<<s, r>>]) IN
  /\ s \in Neighbours(r) /\ channel[<<s, r>>] # <<>>
  /\ channel' = [channel EXCEPT ![<<s, r>>] = Tail(@)]
  /\ m_guaranteeTime' = [m_guaranteeTime EXCEPT ![<<r, s>>] = m.guarantee]
  /\ IF m.rxTime > 0
     THEN /\ m_events' = [m_events EXCEPT ![r] = @ \cup {[ts |-> m.rxTime, uid |-> m_uid[r]]}]
          /\ m_uid' = [m_uid EXCEPT ![r] = @ + 1]
     ELSE UNCHANGED <<m_events, m_uid>>
  /\ UNCHANGED <<cancelled, clockVars, m_safeTime, m_nullEventId, m_transmitting, work>>

\* After an event, MPI_Testany finds one message after another ...
ReceiveNonBlocking(r) ==
  /\ pc[r] = "receive" /\ UNCHANGED pc
  /\ \E s \in Rank : Take(r, s)

\* ... and, at any time, none.  When the next event is not safe, MPI_Waitany waits
\* for one message.
ReceiveBlocking(r) ==
  /\ Goto(r, "loop", "safe")
  /\ ~ m_stop[r]
  /\ \E next \in m_events[r] : IsNext(next, m_events[r]) /\ next.ts > m_safeTime[r]
  /\ \E s \in Rank : Take(r, s)

\* Mutant: the guarantee of any neighbour.
CalculateSafeTime_Any(r) ==
  /\ Goto(r, "receive", "loop") \/ Goto(r, "safe", "loop")
  /\ \E s \in Neighbours(r) : m_safeTime' = [m_safeTime EXCEPT ![r] = m_guaranteeTime[<<r, s>>]]
  /\ UNCHANGED <<eventVars, clockVars, m_guaranteeTime, m_nullEventId, m_transmitting, channel, work>>

\* The least of the neighbours' guarantees.
CalculateSafeTime(r) ==
  /\ Goto(r, "receive", "loop") \/ Goto(r, "safe", "loop")
  /\ LET guarantees == {Infinity} \cup {m_guaranteeTime[<<r, s>>] : s \in Neighbours(r)} IN
     \E safe \in guarantees :
       /\ \A g \in guarantees : safe <= g
       /\ m_safeTime' = [m_safeTime EXCEPT ![r] = safe]
  /\ UNCHANGED <<eventVars, clockVars, m_guaranteeTime, m_nullEventId, m_transmitting, channel, work>>

(***************************************************************************)
(* The bodies of events.                                                   *)
(***************************************************************************)
IsNullEvent(r, s) == s \in Neighbours(r) /\ m_currentUid[r] = m_nullEventId[<<r, s>>]
IsProgramEvent(r) ==
  /\ m_currentUid[r] # StopUid /\ m_currentUid[r] \notin cancelled[r]
  /\ \A s \in Neighbours(r) : ~ IsNullEvent(r, s)

\* NullMessageEventHandler: tells s how far it may go, and schedules the next.
NullMessageEventHandler(r, s) ==
  /\ Goto(r, "event", "receive")
  /\ IsNullEvent(r, s)
  /\ \E g \in Guarantees(r, s, m_events[r]) :
       channel' = [channel EXCEPT ![<<r, s>>] = Append(@, NullMessageWith(g))]
  /\ m_events' = [m_events EXCEPT ![r] =
       @ \cup {[ts |-> m_currentTs[r] + NullDelay[<<r, s>>], uid |-> m_uid[r]]}]
  /\ m_nullEventId' = [m_nullEventId EXCEPT ![<<r, s>>] = m_uid[r]]
  /\ m_uid' = [m_uid EXCEPT ![r] = @ + 1]
  /\ UNCHANGED <<cancelled, clockVars, bundleVars, m_transmitting, work>>

Schedule(r, d) ==
  /\ pc[r] = "event" /\ IsProgramEvent(r)
  /\ work[r] < MaxWork[r]
  /\ m_events' = [m_events EXCEPT ![r] =
       @ \cup {[ts |-> m_currentTs[r] + d, uid |-> m_uid[r]]}]
  /\ m_uid' = [m_uid EXCEPT ![r] = @ + 1]
  /\ work' = [work EXCEPT ![r] = @ + 1]
  /\ UNCHANGED <<pc, cancelled, clockVars, bundleVars, m_nullEventId, m_transmitting, channel>>

\* Mutant: the null message event is cancelled and not scheduled again.
SendPacket_Cancel(r, s, l, txTime) ==
  /\ pc[r] = "event" /\ IsProgramEvent(r)
  /\ work[r] < MaxWork[r]
  /\ s \in Neighbours(r) /\ l \in Bundle(r, s)
  /\ m_transmitting[r][l] = READY
  /\ LET complete == [ts |-> m_currentTs[r] + txTime, uid |-> m_uid[r]]
         pending  == m_events[r] \cup {complete} IN
     /\ \E g \in Guarantees(r, s, pending) :
          channel' = [channel EXCEPT ![<<r, s>>] =
            Append(@, [rxTime |-> m_currentTs[r] + txTime + l.delay, guarantee |-> g])]
     /\ m_events' = [m_events EXCEPT ![r] = pending]
  /\ m_transmitting' = [m_transmitting EXCEPT ![r][l] = m_uid[r]]
  /\ cancelled' = [cancelled EXCEPT ![r] = @ \cup {m_nullEventId[<<r, s>>]}]
  /\ m_uid' = [m_uid EXCEPT ![r] = @ + 1]
  /\ work' = [work EXCEPT ![r] = @ + 1]
  /\ UNCHANGED <<pc, clockVars, bundleVars, m_nullEventId>>

\* A packet for a device that is ready.  PointToPointNetDevice::TransmitStart
\* schedules TransmitComplete; PointToPointRemoteChannel::TransmitStart calls
\* SendPacket with the time at which the packet is received, which adds the
\* guarantee, and puts off the null message event of the bundle.  The gap between
\* frames, m_tInterframeGap, which delays TransmitComplete, is at its default of 0.
SendPacket(r, s, l, txTime) ==
  /\ pc[r] = "event" /\ IsProgramEvent(r)
  /\ work[r] < MaxWork[r]
  /\ s \in Neighbours(r) /\ l \in Bundle(r, s)
  /\ m_transmitting[r][l] = READY
  /\ LET complete == [ts |-> m_currentTs[r] + txTime, uid |-> m_uid[r]]
         pending  == m_events[r] \cup {complete} IN
     /\ \E g \in Guarantees(r, s, pending) :
          channel' = [channel EXCEPT ![<<r, s>>] =
            Append(@, [rxTime |-> m_currentTs[r] + txTime + l.delay, guarantee |-> g])]
     /\ m_events' = [m_events EXCEPT ![r] =
          pending \cup {[ts |-> m_currentTs[r] + NullDelay[<<r, s>>], uid |-> m_uid[r] + 1]}]
  /\ m_transmitting' = [m_transmitting EXCEPT ![r][l] = m_uid[r]]
  /\ cancelled' = [cancelled EXCEPT ![r] = @ \cup {m_nullEventId[<<r, s>>]}]
  /\ m_nullEventId' = [m_nullEventId EXCEPT ![<<r, s>>] = m_uid[r] + 1]
  /\ m_uid' = [m_uid EXCEPT ![r] = @ + 2]
  /\ work' = [work EXCEPT ![r] = @ + 1]
  /\ UNCHANGED <<pc, clockVars, bundleVars>>

\* The event returns; that of StopUid is the function Stop.
EventReturns(r) ==
  /\ Goto(r, "event", "receive")
  /\ \A s \in Neighbours(r) : ~ IsNullEvent(r, s)
  /\ m_stop' = [m_stop EXCEPT ![r] = @ \/ m_currentUid[r] = StopUid]
  /\ UNCHANGED <<eventVars, m_currentUid, m_currentTs, bundleVars, m_nullEventId,
                 m_transmitting, channel, work>>

(***************************************************************************)
(* The specification.  Fairness: a rank goes on with its loop, and MPI     *)
(* brings a message to the rank that waits for it.                         *)
(***************************************************************************)
Loop(r) ==
  \/ Run(r) \/ ProcessOneEvent(r) \/ CalculateSafeTime(r)
  \/ ReceiveNonBlocking(r) \/ ReceiveBlocking(r) \/ EventReturns(r) \/ RunReturns(r)
  \/ \E s \in Rank : NullMessageEventHandler(r, s)

Program(r) ==
  \/ \E d \in Delays : Schedule(r, d)
  \/ \E s \in Rank, l \in Links, txTime \in TxTimes : SendPacket(r, s, l, txTime)

Next == \E r \in Rank : Loop(r) \/ Program(r)

Spec == Init /\ [][Next]_vars
FairSpec == Spec /\ \A r \in Rank : WF_vars(Loop(r))

(***************************************************************************)
(* Properties.                                                             *)
(***************************************************************************)
Event == [ts : Nat, uid : Nat]
Message == [rxTime : Nat, guarantee : Nat]

\* The condition under which guarantees are kept: one link between two ranks.
OneLinkEach == \A l, k \in Links : l.ends = k.ends => l = k

\* The variables have these types.
TypeOK ==
  /\ pc \in [Rank -> {"start", "loop", "event", "receive", "safe", "done"}]
  /\ m_events \in [Rank -> SUBSET Event]
  /\ cancelled \in [Rank -> SUBSET Nat]
  /\ m_uid \in [Rank -> Nat] /\ m_currentUid \in [Rank -> Nat]
  /\ m_currentTs \in [Rank -> Nat] /\ m_safeTime \in [Rank -> Nat]
  /\ m_stop \in [Rank -> BOOLEAN]
  /\ m_guaranteeTime \in [Bundles -> Nat] /\ m_nullEventId \in [Bundles -> Nat]
  /\ m_transmitting \in [Rank -> [Links -> Nat]]
  /\ channel \in [Bundles -> Seq(Message)]
  /\ work \in [Rank -> Nat]

\* The packets on their way from r to s.
Packets(r, s) == {m \in {channel[<<r, s>>][i] : i \in DOMAIN channel[<<r, s>>]} : m.rxTime > 0}

\* A rank holds a neighbour's guarantee against what that one has under way:
\* "No PacketMessage will ever arrive on any incoming channel in this bundle with
\* a ReceiveTime less than this."  It holds as long as each pair of ranks has one
\* link.
GuaranteeKept ==
  \A b \in Bundles : \A m \in Packets(b[2], b[1]) : m_guaranteeTime[b] <= m.rxTime

\* No rank gets an event from the past, of its own or in a packet: the assertions
\* of ProcessOneEvent, and of ScheduleWithContext for the packets it receives.
Causality ==
  /\ \A r \in Rank : \A e \in m_events[r] : m_currentTs[r] <= e.ts
  /\ \A b \in Bundles : \A m \in Packets(b[1], b[2]) : m_currentTs[b[2]] <= m.rxTime

\* No guarantee takes back an earlier one that its receiver has acted on: the
\* assertions of SetGuaranteeTime and of CalculateSafeTime, that what a rank is
\* given does not lie before its own clock.
NeverTakenBack ==
  \A b \in Bundles :
    m_currentTs[b[1]] <= m_guaranteeTime[b] /\ m_currentTs[b[1]] <= m_safeTime[b[1]]

\* What a rank relies on only grows: neither the guarantee it has from a neighbour nor
\* the time up to which it may run its events is ever set back, although each message
\* overwrites the guarantee of its bundle, and a guarantee is computed anew for each.
GuaranteesGrow ==
  [][\A b \in Bundles :
       /\ m_guaranteeTime[b] <= m_guaranteeTime'[b]
       /\ m_safeTime[b[1]] <= m_safeTime'[b[1]]]_vars

\* The null messages to a neighbour never dry up: while a rank runs, there is one
\* event, neither run nor cancelled, to send the next, and it is at most
\* SchedulerTune times the delay of the bundle away.
Heartbeat ==
  \A b \in Bundles :
    LET r == b[1] IN
    pc[r] \notin {"start", "done"} =>
      \/ pc[r] = "event" /\ m_currentUid[r] = m_nullEventId[b]
      \/ \E e \in m_events[r] :
           /\ e.uid = m_nullEventId[b] /\ e.uid \notin cancelled[r]
           /\ e.ts <= m_currentTs[r] + NullDelay[b]

\* r waits in MPI_Waitany: its next event is not safe, and no message is on its way
\* to it.
Waiting(r) ==
  /\ pc[r] = "loop" /\ ~ m_stop[r]
  /\ \E next \in m_events[r] : IsNext(next, m_events[r]) /\ m_safeTime[r] < next.ts
  /\ \A s \in Neighbours(r) : channel[<<s, r>>] = <<>>

\* The ranks never all wait for each other, nor for one that has stopped: as long as
\* one has not returned from Run, one that has not can go on.
NoDeadlock ==
  (\E r \in Rank : pc[r] # "done") => \E r \in Rank : pc[r] # "done" /\ ~ Waiting(r)

\* All ranks stop if they stop at the same time: none waits for ever for a message
\* of one that has stopped, or is itself waiting.
Termination == <>(\A r \in Rank : pc[r] = "done")

\* The null message algorithm implements LogicalProcesses: no rank runs an event
\* while an earlier one is pending or on its way to it.
Processes == INSTANCE LogicalProcesses WITH
  Process <- Rank,
  now <- m_currentTs,
  agenda <- [r \in Rank |-> {e.ts : e \in m_events[r]}],
  underWay <- [r \in Rank |-> UNION {{m.rxTime : m \in Packets(s, r)} : s \in Neighbours(r)}],
  returned <- {r \in Rank : pc[r] = "done"}

ImplementsProcesses == Processes!Spec
=============================================================================
