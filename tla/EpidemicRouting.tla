-------------------------- MODULE EpidemicRouting --------------------------
(***************************************************************************)
(* Epidemic routing with delivery predictabilities                         *)
(* (contrib/epidemic-routing), as the scratch program test-proposal-0720   *)
(* sets it up.  Nodes hold data packets in a queue.  When the beacon of a  *)
(* node with a higher address is heard, the two exchange summary vectors   *)
(* (REPLY, then REPLY_BACK), and each schedules, for each packet the other *)
(* did not list, a send that happens if the other's predictability of      *)
(* reaching the packet's destination is higher.                            *)
(*                                                                         *)
(* The program tags each packet with the uid of the message it carries;    *)
(* several nodes may each make a data packet for one message, and what a   *)
(* node has had (queuelist) is known by that uid.                          *)
(*                                                                         *)
(* Data packets are numbered in the order they are made, which is that of  *)
(* their expiry; two are never made at one instant.  Of time, only what    *)
(* has expired matters.  Predictabilities are below 1, and which of two is *)
(* higher is left open, save where the code sets them.  Beacons carry      *)
(* nothing, and are not kept as messages.                                  *)
(***************************************************************************)
EXTENDS Naturals, FiniteSets, Sequences

CONSTANTS
  Nodes,        \* the nodes, as their addresses
  Sink,         \* the node 192.168.2.5
  Flows,        \* who may send to whom for which message: <<source, destination, uid>>
  HopCount, QueueLength,
  Large,        \* data packets have 200 bytes or more; if not, less than 100
  HostMod,      \* the part of an address that an id keeps: 2^16 in the code
  CounterMod,   \* number of values of m_dataPacketCounter: 2^16 in the code
  MaxCount,     \* bound on what a node counts while packets are still made
  MaxPackets,   \* bound on the data packets made
  MaxRadio      \* no session starts while so many messages are on the air

\* The uids of messages, in the tags of their packets.
Uids == {f[3] : f \in Flows}

ASSUME NodesAssumption == Nodes \subseteq Nat /\ Sink \in Nodes
\* The token of a message names its receiver next to its uid.
ASSUME FlowsAssumption ==
  /\ Flows \subseteq Nodes \X Nodes \X Nat
  /\ \A f, g \in Flows : f[3] = g[3] => f[2] = g[2]
ASSUME NumbersAssumption ==
  /\ HopCount \in Nat \ {0} /\ QueueLength \in Nat \ {0}
  /\ HostMod \in Nat \ {0} /\ CounterMod \in Nat \ {0} /\ MaxCount \in Nat /\ MaxPackets \in Nat /\ MaxRadio \in Nat
  /\ Large \in BOOLEAN

VARIABLES
  packets,              \* the data packets made: [source, dest, uid, id]
  expired,              \* the first `expired` of them are out of date
  m_queue,              \* of each node: the entries, one for a packet id
  m_dataPacketCounter,
  m_hostContactTime,    \* of each node: hosts contacted within the period
  queuelist,            \* of each node: uids it has had; in the program
  scheduled,            \* sends scheduled with Time (0): [at, to, entry]
  radio,                \* messages on the air
  outOfRange,           \* messages may still be lost
  wrapped,              \* history: nodes whose counter has come round to 0
  delivered,            \* how often each packet was delivered, up to 2
  dropped               \* history: packets that left the queue of their source or
                        \* destination, as <<node, packet>>

counters == <<m_dataPacketCounter, wrapped>>
nodeVars == <<m_queue, counters, m_hostContactTime, queuelist>>
airVars == <<scheduled, radio, outOfRange>>
history == <<delivered, dropped>>
vars == <<packets, expired, nodeVars, airVars, history>>

Made == DOMAIN packets
Dest(e) == packets[e.pkt].dest
Source(e) == packets[e.pkt].source
Uid(e) == packets[e.pkt].uid
Ends(p) == {packets[p].source, packets[p].dest}
HasExpired(e) == e.pkt <= expired

Packet == [source : Nodes, dest : Nodes, uid : Uids, id : Nat]

\* An entry of a queue, or a data packet on the air; hops is a history field:
\* how many times this copy has been sent.
Entry == [id : Nat, pkt : 1..MaxPackets, hopCount : Nat, hops : Nat]

\* Sends scheduled with Time (0) come before all that needs time to pass.
InstantOver == scheduled = {}

Ids(q) == {e.id : e \in q}
Pkts(q) == {e.pkt : e \in q}

Init ==
  /\ packets = <<>> /\ expired = 0
  /\ m_queue = [n \in Nodes |-> {}]
  /\ m_dataPacketCounter = [n \in Nodes |-> 0]
  /\ m_hostContactTime = [n \in Nodes |-> {}]
  /\ queuelist = [n \in Nodes |-> {}] /\ wrapped = {}
  /\ scheduled = {} /\ radio = {} /\ outOfRange = TRUE
  /\ delivered = <<>> /\ dropped = {}

(***************************************************************************)
(* The queue.                                                              *)
(***************************************************************************)

\* Mutant: only a queue with two entries too many is cut.
Purge_OffByOne(q, r) ==
  IF Cardinality(q) > QueueLength + 1
  THEN \E e \in q : (\A f \in q : e.pkt <= f.pkt) /\ r = q \ {e}
  ELSE r = {e \in q : ~HasExpired(e)}

\* Purge (true) leaves r of q.  Too long: the entry that expires first goes, no
\* other.  Or else the entries out of date go; but the loop goes on from the
\* entry it has just erased, so that beyond the first any may be passed over.
Purge(q, r) ==
  IF Cardinality(q) > QueueLength
  THEN \E e \in q : (\A f \in q : e.pkt <= f.pkt) /\ r = q \ {e}
  ELSE LET out == {e \in q : HasExpired(e)} IN
       /\ q \ out \subseteq r
       /\ \A e \in out : (\A f \in out : e.id <= f.id) => e \notin r

\* Node n purges q, which it holds or is about to hold, and keeps the rest.
KeepPurged(n, q) ==
  \E r \in SUBSET q :
    /\ Purge(q, r)
    /\ m_queue' = [m_queue EXCEPT ![n] = r]
    /\ dropped' = dropped \cup
         {<<n, p>> : p \in {p \in Pkts(m_queue[n] \cup q) \ Pkts(r) : n \in Ends(p)}}

\* Enqueue: an entry with the same packet id is overwritten.
Enqueue(n, entry) ==
  KeepPurged(n, {e \in m_queue[n] : e.id # entry.id} \cup {entry})

\* Mutant: judge stays set once it is.
Store_JudgeStays(n, entry, u) ==
  /\ IF Large /\ queuelist[n] # {} THEN UNCHANGED <<m_queue, dropped>> ELSE Enqueue(n, entry)
  /\ queuelist' = [queuelist EXCEPT ![n] = IF Large THEN @ \cup {u} ELSE @]

\* RouteInput asks the program whether the node has had the uid u of the packet
\* (judge), and tells it afterwards; for large packets only.
Store(n, entry, u) ==
  /\ IF Large /\ u \in queuelist[n]
     THEN UNCHANGED <<m_queue, dropped>>
     ELSE Enqueue(n, entry)
  /\ queuelist' = [queuelist EXCEPT ![n] = IF Large THEN @ \cup {u} ELSE @]

(***************************************************************************)
(* Data packets.                                                           *)
(***************************************************************************)

\* The counter goes up for each packet that is not for the node itself, its
\* own or another's.  A node whose count has reached the bound sends no packets
\* of its own any more, and nothing else reads the count.
CountPacket(n) ==
  LET counts == m_dataPacketCounter[n] < MaxCount /\ Len(packets) < MaxPackets
      next == (m_dataPacketCounter[n] + 1) % CounterMod IN
  /\ m_dataPacketCounter' = [m_dataPacketCounter EXCEPT ![n] = IF counts THEN next ELSE @]
  /\ wrapped' = IF counts /\ next = 0 THEN wrapped \cup {n} ELSE wrapped

\* The low bits of the source's address, then the count.
GlobalPacketID(n, count) == (n % HostMod) * CounterMod + count

\* do_proposal: a node that a message has reached, and that is not its receiver,
\* makes a data packet for it unless it has had the uid.  (Two applications set up
\* at one instant are left out: RouteInput does not store the packet of the second.)
DoProposal(n, d, u) == <<n, d, u>> \in Flows /\ n # d /\ u \notin queuelist[n]

\* An application of n sends such a packet to d: RouteOutput loops it back, and
\* RouteInput gives it an epidemic header and stores it.
Originate(n, d, u) ==
  /\ InstantOver /\ DoProposal(n, d, u)
  /\ Len(packets) < MaxPackets /\ m_dataPacketCounter[n] < MaxCount
  /\ CountPacket(n)
  /\ LET id == GlobalPacketID(n, m_dataPacketCounter'[n]) IN
     /\ packets' = Append(packets, [source |-> n, dest |-> d, uid |-> u, id |-> id])
     /\ Store(n, [id |-> id, pkt |-> Len(packets) + 1, hopCount |-> HopCount, hops |-> 0], u)
  /\ delivered' = Append(delivered, 0)
  /\ UNCHANGED <<expired, m_hostContactTime, airVars>>

\* Mutant: no look in the queue before a packet is delivered.
Deliver_NoTest(m) ==
  LET n == m.to
      entry == m.entry IN
  /\ InstantOver /\ m.type = "DATA" /\ Dest(entry) = n
  /\ Store(n, entry, Uid(entry))
  /\ delivered' = [delivered EXCEPT ![entry.pkt] = IF @ < 2 THEN @ + 1 ELSE @]
  /\ radio' = radio \ {m}
  /\ UNCHANGED <<packets, expired, counters, m_hostContactTime, scheduled, outOfRange>>

\* RouteInput at the destination: what Find finds in the queue is a duplicate.
\* An entry it does not find has the id 0, so that a packet of that id never is.
Deliver(m) ==
  LET n == m.to
      entry == m.entry IN
  /\ InstantOver /\ m.type = "DATA" /\ Dest(entry) = n
  /\ IF entry.id \in Ids(m_queue[n]) \ {0}
     THEN UNCHANGED <<m_queue, queuelist, history>>
     ELSE /\ Store(n, entry, Uid(entry))
          /\ delivered' = [delivered EXCEPT ![entry.pkt] = IF @ < 2 THEN @ + 1 ELSE @]
  /\ radio' = radio \ {m}
  /\ UNCHANGED <<packets, expired, counters, m_hostContactTime, scheduled, outOfRange>>

\* Mutant: a relay stores the copy under a count of its own.
Relay_OwnId(m) ==
  LET n == m.to
      entry == m.entry IN
  /\ InstantOver /\ m.type = "DATA" /\ Dest(entry) # n
  /\ CountPacket(n)
  /\ IF entry.hopCount <= 1 \/ HasExpired(entry)
     THEN UNCHANGED <<m_queue, queuelist, dropped>>
     ELSE Store(n, [entry EXCEPT !.hopCount = @ - 1,
                                 !.id = GlobalPacketID(Source(entry), m_dataPacketCounter'[n])],
                Uid(entry))
  /\ radio' = radio \ {m}
  /\ UNCHANGED <<packets, expired, m_hostContactTime, scheduled, outOfRange, delivered>>

\* Mutant: a relay stores what has no hop left.
Relay_NoFloodTest(m) ==
  LET n == m.to
      entry == m.entry IN
  /\ InstantOver /\ m.type = "DATA" /\ Dest(entry) # n
  /\ CountPacket(n)
  /\ IF HasExpired(entry)
     THEN UNCHANGED <<m_queue, queuelist, dropped>>
     ELSE Store(n, [entry EXCEPT !.hopCount = IF @ > 0 THEN @ - 1 ELSE 0], Uid(entry))
  /\ radio' = radio \ {m}
  /\ UNCHANGED <<packets, expired, m_hostContactTime, scheduled, outOfRange, delivered>>

\* RouteInput at another node: the flood count or the age may end the packet.
Relay(m) ==
  LET n == m.to
      entry == m.entry IN
  /\ InstantOver /\ m.type = "DATA" /\ Dest(entry) # n
  /\ CountPacket(n)
  /\ IF entry.hopCount <= 1 \/ HasExpired(entry)
     THEN UNCHANGED <<m_queue, queuelist, dropped>>
     ELSE Store(n, [entry EXCEPT !.hopCount = @ - 1], Uid(entry))
  /\ radio' = radio \ {m}
  /\ UNCHANGED <<packets, expired, m_hostContactTime, scheduled, outOfRange, delivered>>

\* preds[dest] < opp_preds2[dest] in SendPacketFromQueue: the program hands in
\* the predictabilities of the next hop, which has none for itself; for the
\* sink alone it is set to 1.
Answers(to, dest) == IF to # dest THEN BOOLEAN ELSE {dest = Sink}

\* SendPacketFromQueue: not to the source, and not what was for the node itself.
SendPacketFromQueue(s) ==
  /\ \E better \in Answers(s.to, Dest(s.entry)) :
       radio' = IF better /\ s.to # Source(s.entry) /\ s.at # Dest(s.entry)
                THEN radio \cup {[type |-> "DATA", from |-> s.at, to |-> s.to,
                                  entry |-> [s.entry EXCEPT !.hops = @ + 1]]}
                ELSE radio
  /\ scheduled' = scheduled \ {s}
  /\ UNCHANGED <<packets, expired, nodeVars, outOfRange, history>>

(***************************************************************************)
(* Beacons and summary vectors: RecvEpidemic.  It starts with              *)
(* DropExpiredPackets, and SendSummaryVector purges once more.             *)
(***************************************************************************)
Summary(type, n, s, q) == [type |-> type, from |-> n, to |-> s, list |-> Ids(q)]

\* SendDisjointPackets: the entries the other did not list.
Disjoint(n, s, q, list) ==
  {[at |-> n, to |-> s, entry |-> e] : e \in {e \in q : e.id \notin list}}

\* The beacon of s: the node with the smaller address starts a session, unless
\* it has started one with s within the recent period.
RecvBeacon(n, s) ==
  /\ InstantOver /\ n # s
  /\ IF n < s /\ s \notin m_hostContactTime[n]
     THEN /\ Cardinality(radio) < MaxRadio
          /\ \E q \in SUBSET m_queue[n] : Purge(m_queue[n], q) /\ KeepPurged(n, q)
          /\ m_hostContactTime' = [m_hostContactTime EXCEPT ![n] = @ \cup {s}]
          /\ radio' = radio \cup {Summary("REPLY", n, s, m_queue'[n])}
     ELSE KeepPurged(n, m_queue[n]) /\ UNCHANGED <<m_hostContactTime, radio>>
  /\ UNCHANGED <<packets, expired, counters, queuelist, scheduled, outOfRange, delivered>>

\* Mutant: no REPLY_BACK.
RecvReply_NoReplyBack(m) ==
  LET n == m.to IN
  /\ InstantOver /\ m.type = "REPLY"
  /\ \E q \in SUBSET m_queue[n] :
       /\ Purge(m_queue[n], q)
       /\ scheduled' = scheduled \cup Disjoint(n, m.from, q, m.list)
       /\ KeepPurged(n, q)
  /\ radio' = radio \ {m}
  /\ UNCHANGED <<packets, expired, counters, m_hostContactTime,
                 queuelist, outOfRange, delivered>>

RecvReply(m) ==
  LET n == m.to IN
  /\ InstantOver /\ m.type = "REPLY"
  /\ \E q \in SUBSET m_queue[n] :
       /\ Purge(m_queue[n], q)
       /\ scheduled' = scheduled \cup Disjoint(n, m.from, q, m.list)
       /\ KeepPurged(n, q)
  /\ radio' = (radio \ {m}) \cup {Summary("REPLY_BACK", n, m.from, m_queue'[n])}
  /\ UNCHANGED <<packets, expired, counters, m_hostContactTime,
                 queuelist, outOfRange, delivered>>

RecvReplyBack(m) ==
  LET n == m.to IN
  /\ InstantOver /\ m.type = "REPLY_BACK"
  /\ KeepPurged(n, m_queue[n])
  /\ scheduled' = scheduled \cup Disjoint(n, m.from, m_queue'[n], m.list)
  /\ radio' = radio \ {m}
  /\ UNCHANGED <<packets, expired, counters, m_hostContactTime,
                 queuelist, outOfRange, delivered>>

(***************************************************************************)
(* Time and the radio.                                                     *)
(***************************************************************************)

\* The recent period of n for s is over.
PeriodEnds(n, s) ==
  /\ s \in m_hostContactTime[n]
  /\ m_hostContactTime' = [m_hostContactTime EXCEPT ![n] = @ \ {s}]
  /\ UNCHANGED <<packets, expired, m_queue, counters, queuelist,
                 airVars, history>>

\* The next packet is out of date.
Expire ==
  /\ InstantOver /\ expired < Len(packets)
  /\ expired' = expired + 1
  /\ UNCHANGED <<packets, nodeVars, airVars, history>>

\* Out of range, or collided.
Lose(m) ==
  /\ InstantOver /\ outOfRange
  /\ radio' = radio \ {m}
  /\ UNCHANGED <<packets, expired, nodeVars, scheduled, outOfRange, history>>

\* From some time on the nodes stay in range of each other.
StayInRange ==
  /\ outOfRange /\ outOfRange' = FALSE
  /\ UNCHANGED <<packets, expired, nodeVars, scheduled, radio, history>>

(***************************************************************************)
(* The specification, in which messages may be lost for ever, and the one  *)
(* with fairness: what is scheduled happens, recent periods end, in the end*)
(* the nodes stay in range and each message arrives, and of the beacons that*)
(* the sink exchanges with another node some are heard when a session can  *)
(* start.                                                                  *)
(***************************************************************************)
Receive(m) == Deliver(m) \/ Relay(m) \/ RecvReply(m) \/ RecvReplyBack(m)

Next ==
  \/ \E f \in Flows : Originate(f[1], f[2], f[3])
  \/ \E n, s \in Nodes : RecvBeacon(n, s) \/ PeriodEnds(n, s)
  \/ \E s \in scheduled : SendPacketFromQueue(s)
  \/ \E m \in radio : Receive(m) \/ Lose(m)
  \/ Expire

Spec == Init /\ [][Next]_vars

PairsWithSink == {x \in Nodes \X Nodes : x[1] < x[2] /\ Sink \in {x[1], x[2]}}

FairSpec ==
  /\ Init /\ [][Next \/ StayInRange]_vars
  /\ WF_vars(StayInRange)
  /\ WF_vars(\E s \in scheduled : SendPacketFromQueue(s))
  /\ \A n \in Nodes : WF_vars(\E m \in radio : m.to = n /\ Receive(m))
  /\ \A x \in PairsWithSink :
       WF_vars(PeriodEnds(x[1], x[2])) /\ SF_vars(RecvBeacon(x[1], x[2]))

(***************************************************************************)
(* Properties.                                                             *)
(***************************************************************************)
Send == [at : Nodes, to : Nodes, entry : Entry]
Message ==
  [type : {"DATA"}, from : Nodes, to : Nodes, entry : Entry]
  \cup [type : {"REPLY", "REPLY_BACK"}, from : Nodes, to : Nodes, list : SUBSET Nat]

\* The variables have their types, and no queue is longer than QueueLength.
TypeOK ==
  /\ packets \in Seq(Packet) /\ Len(packets) <= MaxPackets
  /\ expired \in 0..Len(packets)
  /\ m_queue \in [Nodes -> SUBSET Entry]
  /\ \A n \in Nodes : Cardinality(m_queue[n]) <= QueueLength
  /\ m_dataPacketCounter \in [Nodes -> 0..(CounterMod - 1)]
  /\ m_hostContactTime \in [Nodes -> SUBSET Nodes]
  /\ queuelist \in [Nodes -> SUBSET Uids] /\ wrapped \subseteq Nodes
  /\ scheduled \subseteq Send /\ radio \subseteq Message /\ outOfRange \in BOOLEAN
  /\ delivered \in [Made -> 0..2] /\ dropped \subseteq Nodes \X Made

DataMessages == {m \in radio : m.type = "DATA"}
Copies ==
  (UNION {m_queue[n] : n \in Nodes}) \cup {s.entry : s \in scheduled}
  \cup {m.entry : m \in DataMessages}

\* No copy of a packet makes more hops than HopCount (at least 1), although queues
\* overwrite entries with copies that took other ways.
FloodLimit == \A m \in DataMessages : m.entry.hops <= HopCount

\* Two packets get one id only if their sources' addresses agree in the bits that
\* an id keeps, and for one source only if its counter, which counts what it
\* relays too, has come round.
MayClash(p, q) ==
  /\ packets[p].source % HostMod = packets[q].source % HostMod
  /\ packets[p].source = packets[q].source => packets[p].source \in wrapped

\* Wherever copies are, and whatever they passed: two with one global packet id
\* are of one packet, or of two whose ids clash in that way.
OneIdOnePacket ==
  \A x, y \in Copies : x.id = y.id => x.pkt = y.pkt \/ MayClash(x.pkt, y.pkt)

\* The destination has judged a message known by another packet of its uid, and
\* so does not store packet p (it does deliver it).
AnotherOfItsUid(p) ==
  Large /\ \E q \in Made \ {p} : packets[q].uid = packets[p].uid /\ delivered[q] > 0

\* However stale the summary vectors and however many carriers: a packet reaches
\* its application a second time only if the destination's queue lost it, or did
\* not store it as another packet of its uid had come, or if its id is 0.
DuplicateOnlyAfterDrop ==
  \A p \in Made : delivered[p] > 1 =>
    <<packets[p].dest, p>> \in dropped \/ AnotherOfItsUid(p) \/ packets[p].id = 0

\* RouteInput: a data packet is added "to the epidemic queue in order to avoid
\* receiving duplicates of the same packet".
DeliveredOnce == \A p \in Made : delivered[p] <= 1

\* Each of the packets for the sink in the end reaches it, or its source drops it
\* before, unless another packet has its id: what has come to pass of these stays
\* so, and it is true again and again of all packets made.
Settled(p) ==
  \/ delivered[p] > 0 \/ <<packets[p].source, p>> \in dropped
  \/ \E q \in Made \ {p} : packets[q].id = packets[p].id
ReachesSink == []<>(\A p \in Made : packets[p].dest = Sink => Settled(p))

\* epidemic.rst: when two nodes meet, "they each send the other any packets the
\* other doesn't already have", save those that come from or were for one of them.
AllDisjointSent ==
  [][\A s \in scheduled \ scheduled' :
       \/ s.to = Source(s.entry) \/ s.at = Dest(s.entry)
       \/ \E m \in radio' : m.type = "DATA" /\ m.from = s.at /\ m.to = s.to
                            /\ m.entry.id = s.entry.id]_vars
=============================================================================
