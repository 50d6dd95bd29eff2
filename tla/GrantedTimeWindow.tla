------------------------- MODULE GrantedTimeWindow -------------------------
(***************************************************************************)
(* The conservative parallel simulator with a granted time window:         *)
(* DistributedSimulatorImpl (mpi/model/distributed-simulator-impl.cc) on   *)
(* each rank and GrantedTimeWindowMpiInterface between the ranks.  A rank  *)
(* runs its events up to its granted time; then it takes in the messages   *)
(* that have arrived and exchanges its next event time and its message     *)
(* counts with all the others in an MPI_Allgather, which ends when every   *)
(* rank has entered it.                                                    *)
(*                                                                         *)
(* One call of Run is modelled.  The body of an event is any sequence of   *)
(* Schedule, packets sent over a remote link, and Stop.                    *)
(***************************************************************************)
EXTENDS EventKeys, FiniteSets

CONSTANTS
  Rank,               \* the MPI tasks, two or more
  Links,              \* remote point-to-point links: [ends, delay]
  Infinity,           \* GetMaximumSimulationTime
  MaximumLookAhead,   \* SetMaximumLookAhead, Infinity when it was not called
  InitialTimes,       \* when each rank may have an event scheduled before Run
  Delays,             \* local delays, and transmission times of packets
  MaxUid,             \* bound on the events of each rank
  MaxMessages         \* bound on the messages

ASSUME RankAssumption == IsFiniteSet(Rank) /\ Cardinality(Rank) > 1
ASSUME LinksAssumption ==
  /\ \A l \in Links : l.delay \in Nat /\ l.ends \subseteq Rank /\ l.delay < Infinity
  /\ Infinity \in Nat /\ MaximumLookAhead \in 1..Infinity
ASSUME ProgramAssumption ==
  InitialTimes \in [Rank -> SUBSET (0..(Infinity - 1))] /\ Delays \subseteq Nat
  /\ MaxUid \in [Rank -> Nat] /\ MaxMessages \in Nat

VARIABLES
  pc,               \* where each rank is in Run
  m_lookAhead, m_grantedTime,
  m_events,         \* pending events of each rank: [ts, uid]
  m_uid, m_currentTs,
  m_stop, m_globalFinished,
  sent,             \* every message sent: [to, link, rxTime, n]
  arrived,          \* those MPI can deliver; ReceiveMessages polls for them
  received,         \* those taken in
  m_pLBTS           \* what the last MPI_Allgather brought to all ranks

rankVars == <<m_events, m_uid, m_currentTs, m_stop>>
netVars  == <<sent, arrived, received>>
windowVars == <<m_grantedTime, m_globalFinished, m_pLBTS>>
vars == <<pc, m_lookAhead, windowVars, rankVars, netVars>>

Times == 0..Infinity
FirstUid == 4

(***************************************************************************)
(* CalculateLookAhead: the least delay of the rank's remote links, or the  *)
(* look-ahead set for it when that is less; ranks that are left with       *)
(* infinity take the greatest of the others (MPI_Allreduce), or stay with  *)
(* infinity if that is zero.                                               *)
(***************************************************************************)
LinkDelays(r) == {l.delay : l \in {l \in Links : r \in l.ends}}
IsLeast(x, S) == x \in S /\ \A y \in S : x <= y

\* Mutant: the greatest delay.
IsLookAhead_Greatest(la) ==
  \A r \in Rank : la[r] \in LinkDelays(r) /\ \A d \in LinkDelays(r) : d <= la[r]

IsLookAhead(la) ==
  \E own \in [Rank -> Times] :
    LET sendbuf(r) == IF own[r] = Infinity THEN 0 ELSE own[r] IN
    /\ \A r \in Rank : IsLeast(own[r], LinkDelays(r) \cup {MaximumLookAhead})
    /\ \E s \in Rank :
         /\ \A t \in Rank : sendbuf(t) <= sendbuf(s)
         /\ \A r \in Rank :
              la[r] = IF own[r] = Infinity /\ sendbuf(s) # 0 THEN sendbuf(s) ELSE own[r]

(***************************************************************************)
(* Helpers of Run.                                                         *)
(***************************************************************************)
IsLocalFinished(r) == m_events[r] = {} \/ m_stop[r]

\* NextTs: infinity when the rank is finished, or else its earliest event.
IsNextTime(r, t) ==
  IF IsLocalFinished(r)
  THEN t = Infinity
  ELSE \E e \in m_events[r] : t = e.ts /\ \A f \in m_events[r] : e.ts <= f.ts

Goto(r, from, to) == pc[r] = from /\ pc' = [pc EXCEPT ![r] = to]

Insert(r, ts) ==
  /\ m_events' = [m_events EXCEPT ![r] = @ \cup {[ts |-> ts, uid |-> m_uid[r]]}]
  /\ m_uid' = [m_uid EXCEPT ![r] = @ + 1]

Init ==
  /\ pc = [r \in Rank |-> "loop"]
  /\ m_lookAhead \in [Rank -> Times] /\ IsLookAhead(m_lookAhead)
  /\ m_grantedTime = m_lookAhead
  /\ m_globalFinished = [r \in Rank |-> FALSE]
  /\ \E t \in [Rank -> Times] :
       m_events = [r \in Rank |-> {[ts |-> x, uid |-> FirstUid] : x \in {t[r]} \cap InitialTimes[r]}]
  /\ m_uid = [r \in Rank |-> FirstUid + 1]
  /\ m_currentTs = [r \in Rank |-> 0]
  /\ m_stop = [r \in Rank |-> FALSE]
  /\ sent = {} /\ arrived = {} /\ received = {}
  /\ m_pLBTS = [next |-> m_lookAhead, finished |-> m_globalFinished, totRx |-> 0, totTx |-> 0]

(***************************************************************************)
(* The loop of Run.                                                        *)
(***************************************************************************)

\* The next event lies in the window: ProcessOneEvent, up to the event's body.
\* A rank that has just been granted more time comes here by way of the loop
\* condition, which is false only when no rank has an event to run.
ProcessOneEvent(r) ==
  /\ Goto(r, "loop", "event")
  /\ ~ m_globalFinished[r] /\ ~ IsLocalFinished(r)
  /\ \E next \in m_events[r] :
       /\ IsNext(next, m_events[r])
       /\ next.ts <= m_grantedTime[r]
       /\ m_events' = [m_events EXCEPT ![r] = @ \ {next}]
       /\ m_currentTs' = [m_currentTs EXCEPT ![r] = next.ts]
  /\ UNCHANGED <<m_lookAhead, windowVars, m_uid, m_stop, netVars>>

\* Mutant: goes into MPI_Allgather without a look at the messages.
Synchronize_NoReceive(r) ==
  /\ Goto(r, "loop", "gather")
  /\ ~ m_globalFinished[r]
  /\ IsLocalFinished(r) \/ \A e \in m_events[r] : e.ts > m_grantedTime[r]
  /\ UNCHANGED <<m_lookAhead, windowVars, rankVars, netVars>>

\* It does not, or the rank is finished: take in messages first.
Synchronize(r) ==
  /\ Goto(r, "loop", "receive")
  /\ ~ m_globalFinished[r]
  /\ IsLocalFinished(r) \/ \A e \in m_events[r] : e.ts > m_grantedTime[r]
  /\ UNCHANGED <<m_lookAhead, windowVars, rankVars, netVars>>

\* Mutant: takes the receive time for a delay.
ReceiveMessage_Delay(r) ==
  /\ pc[r] = "receive"
  /\ \E m \in arrived \ received :
       /\ m.to = r
       /\ received' = received \cup {m}
       /\ Insert(r, m_currentTs[r] + m.rxTime)
  /\ UNCHANGED <<pc, m_lookAhead, windowVars, m_currentTs, m_stop, sent, arrived>>

\* ReceiveMessages, one message that has arrived: in no particular order.
ReceiveMessage(r) ==
  /\ pc[r] = "receive"
  /\ \E m \in arrived \ received :
       /\ m.to = r
       /\ received' = received \cup {m}
       /\ Insert(r, m.rxTime)
  /\ UNCHANGED <<pc, m_lookAhead, windowVars, m_currentTs, m_stop, sent, arrived>>

\* Nothing more has arrived: enter MPI_Allgather.
EnterAllgather(r) ==
  /\ Goto(r, "receive", "gather")
  /\ \A m \in arrived \ received : m.to # r
  /\ UNCHANGED <<m_lookAhead, windowVars, rankVars, netVars>>

\* MPI_Allgather returns on every rank with the LbtsMessages of all of them.
\* The counts stand for the sums of the ranks' m_rxCount and m_txCount.
Allgather ==
  /\ \A r \in Rank : pc[r] = "gather"
  /\ pc' = [r \in Rank |-> "decide"]
  /\ \E next \in [Rank -> Times] :
       /\ \A r \in Rank : IsNextTime(r, next[r])
       /\ m_pLBTS' = [next |-> next,
                      finished |-> [r \in Rank |-> IsLocalFinished(r)],
                      totRx |-> Cardinality(received),
                      totTx |-> Cardinality(sent)]
  /\ UNCHANGED <<m_lookAhead, m_grantedTime, m_globalFinished, rankVars, netVars>>

\* Mutant: grants time although messages are under way.
Decide_Transients(r) ==
  /\ Goto(r, "decide", "loop")
  /\ m_globalFinished' = [m_globalFinished EXCEPT ![r] = \A s \in Rank : m_pLBTS.finished[s]]
  /\ \E smallest \in Times :
       /\ IsLeast(smallest, {m_pLBTS.next[s] : s \in Rank})
       /\ m_grantedTime' = [m_grantedTime EXCEPT ![r] = smallest + m_lookAhead[r]]
  /\ UNCHANGED <<m_lookAhead, m_pLBTS, rankVars, netVars>>

\* Mutant: opens the window at the rank's own next event.
Decide_OwnTime(r) ==
  /\ Goto(r, "decide", "loop")
  /\ m_globalFinished' = [m_globalFinished EXCEPT ![r] = \A s \in Rank : m_pLBTS.finished[s]]
  /\ IF m_pLBTS.totRx # m_pLBTS.totTx
     THEN m_grantedTime' = m_grantedTime
     ELSE m_grantedTime' = [m_grantedTime EXCEPT ![r] = m_pLBTS.next[r] + m_lookAhead[r]]
  /\ UNCHANGED <<m_lookAhead, m_pLBTS, rankVars, netVars>>

\* Mutant: leaves when it is finished itself.
Decide_OwnFlag(r) ==
  /\ Goto(r, "decide", "loop")
  /\ m_globalFinished' = [m_globalFinished EXCEPT ![r] = m_pLBTS.finished[r]]
  /\ UNCHANGED <<m_lookAhead, m_grantedTime, m_pLBTS, rankVars, netVars>>

\* Each rank draws the same conclusions from the answer, at its own pace.
Decide(r) ==
  /\ Goto(r, "decide", "loop")
  /\ m_globalFinished' = [m_globalFinished EXCEPT ![r] = \A s \in Rank : m_pLBTS.finished[s]]
  /\ IF m_pLBTS.totRx # m_pLBTS.totTx
     THEN m_grantedTime' = m_grantedTime
     ELSE \E smallest \in Times :
            /\ IsLeast(smallest, {m_pLBTS.next[s] : s \in Rank})
            /\ m_grantedTime' = [m_grantedTime EXCEPT ![r] =
                 IF m_lookAhead[r] = Infinity THEN Infinity ELSE smallest + m_lookAhead[r]]
  /\ UNCHANGED <<m_lookAhead, m_pLBTS, rankVars, netVars>>

RunReturns(r) ==
  /\ Goto(r, "loop", "done")
  /\ m_globalFinished[r]
  /\ UNCHANGED <<m_lookAhead, windowVars, rankVars, netVars>>

(***************************************************************************)
(* The body of an event.                                                   *)
(***************************************************************************)
Schedule(r, d) ==
  /\ pc[r] = "event"
  /\ m_uid[r] < MaxUid[r] /\ m_currentTs[r] + d < Infinity
  /\ Insert(r, m_currentTs[r] + d)
  /\ UNCHANGED <<pc, m_lookAhead, windowVars, m_currentTs, m_stop, netVars>>

\* PointToPointRemoteChannel::TransmitStart and SendPacket: the receive time is
\* the current time, the transmission time and the delay of the link.
SendPacket(r, l, txTime) ==
  /\ pc[r] = "event" /\ r \in l.ends
  /\ Cardinality(sent) < MaxMessages
  /\ \E s \in l.ends \ {r} :
       LET rxTime == m_currentTs[r] + txTime + l.delay IN
       /\ rxTime < Infinity
       /\ sent' = sent \cup {[to |-> s, link |-> l, rxTime |-> rxTime,
                              n |-> Cardinality(sent) + 1]}
  /\ UNCHANGED <<pc, m_lookAhead, windowVars, rankVars, arrived, received>>

Stop(r) ==
  /\ pc[r] = "event"
  /\ m_stop' = [m_stop EXCEPT ![r] = TRUE]
  /\ UNCHANGED <<pc, m_lookAhead, windowVars, m_events, m_uid, m_currentTs, netVars>>

EventReturns(r) ==
  /\ Goto(r, "event", "loop")
  /\ UNCHANGED <<m_lookAhead, windowVars, rankVars, netVars>>

\* MPI: a message becomes available at its receiver some time after it was sent.
Arrive(m) ==
  /\ m \in sent \ arrived
  /\ arrived' = arrived \cup {m}
  /\ UNCHANGED <<pc, m_lookAhead, windowVars, rankVars, sent, received>>

(***************************************************************************)
(* The specification.  Fairness: a rank that can take a step of its loop   *)
(* takes it, the body of an event returns, and MPI delivers.               *)
(***************************************************************************)
Loop(r) ==
  \/ ProcessOneEvent(r) \/ EventReturns(r) \/ Synchronize(r) \/ ReceiveMessage(r)
  \/ EnterAllgather(r) \/ Decide(r) \/ RunReturns(r)

Body(r) ==
  \/ \E d \in Delays : Schedule(r, d)
  \/ \E l \in Links, d \in Delays : SendPacket(r, l, d)
  \/ Stop(r)

Next ==
  \/ \E r \in Rank : Loop(r) \/ Body(r)
  \/ Allgather
  \/ \E m \in sent : Arrive(m)

Spec == Init /\ [][Next]_vars
FairSpec ==
  /\ Spec
  /\ \A r \in Rank : WF_vars(Loop(r))
  /\ WF_vars(Allgather)
  /\ WF_vars(\E m \in sent : Arrive(m))

(***************************************************************************)
(* Properties.                                                             *)
(***************************************************************************)
Message == [to : Rank, link : Links, rxTime : 0..(Infinity - 1), n : 1..MaxMessages]

\* The variables have their types.
TypeOK ==
  /\ pc \in [Rank -> {"loop", "receive", "gather", "decide", "event", "done"}]
  /\ m_lookAhead \in [Rank -> Nat] /\ m_grantedTime \in [Rank -> Nat]
  /\ m_events \in [Rank -> SUBSET [ts : 0..(Infinity - 1), uid : Nat]]
  /\ m_uid \in [Rank -> Nat] /\ m_currentTs \in [Rank -> Nat]
  /\ m_stop \in [Rank -> BOOLEAN] /\ m_globalFinished \in [Rank -> BOOLEAN]
  /\ received \subseteq arrived /\ arrived \subseteq sent /\ sent \subseteq Message
  /\ m_pLBTS \in [next : [Rank -> Nat], finished : [Rank -> BOOLEAN],
                  totRx : Nat, totTx : Nat]

InFlight == sent \ received

\* No rank gets ahead of another's packets: a packet that is still under way
\* reaches its receiver in the receiver's future or present, and no pending
\* event lies in the past (the assertion of ProcessOneEvent).
NoEventFromThePast ==
  /\ \A m \in InFlight : m_currentTs[m.to] <= m.rxTime
  /\ \A r \in Rank : \A e \in m_events[r] : m_currentTs[r] <= e.ts

\* Time goes forward on every rank, over the whole Run.
TimeIsMonotone == [][\A r \in Rank : m_currentTs[r] <= m_currentTs'[r]]_vars

\* No rank runs ahead of the others by more than its own look-ahead: what another rank
\* still has to run, or to take in, is not further behind, although each draws its
\* window from an answer that the others may not have looked at yet.
InStep ==
  \A r \in Rank :
    /\ \A s \in Rank : \A e \in m_events[s] :
         m_stop[s] \/ m_currentTs[r] <= e.ts + m_lookAhead[r]
    /\ \A m \in InFlight : m_currentTs[r] <= m.rxTime + m_lookAhead[r]

\* The ranks leave together: one leaves only if all of them have nothing left
\* to run, so no rank waits in MPI_Allgather for one that is gone.
LeaveTogether ==
  (\E r \in Rank : pc[r] = "done") =>
    \A s \in Rank : IsLocalFinished(s) /\ pc[s] # "gather"

\* Whatever the program does, once every rank is out of events all of them return.
Termination == <>(\A r \in Rank : pc[r] = "done")

\* What the ranks do is what logical processes may do: no rank runs an event
\* before a packet that is still on its way to it and is received earlier, and
\* no rank runs, sends or takes in anything when Run has returned on it.
Agenda   == [r \in Rank |-> {e.ts : e \in m_events[r]}]
UnderWay == [r \in Rank |-> {m.rxTime : m \in {m \in InFlight : m.to = r}}]
Returned == {r \in Rank : pc[r] = "done"}

Processes == INSTANCE LogicalProcesses WITH
  Process <- Rank, now <- m_currentTs, agenda <- Agenda, underWay <- UnderWay,
  returned <- Returned

ImplementsProcesses == Processes!Spec

\* "A consistency test to check that we didn't lose any events along the way":
\* when Run has returned, every packet has been taken in by its receiver.
NoMessageLost == (\A r \in Rank : pc[r] = "done") => InFlight = {}
=============================================================================
