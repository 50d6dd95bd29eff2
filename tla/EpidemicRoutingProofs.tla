----------------------- MODULE EpidemicRoutingProofs -----------------------
(***************************************************************************)
(* Proofs about EpidemicRouting, for any set of nodes and flows, any hop   *)
(* limit and length of the queues, any width of counters and of the hosts  *)
(* in the ids, and any number of messages on the air.                      *)
(***************************************************************************)
EXTENDS EpidemicRouting, TLAPS, FiniteSetTheorems, SequenceTheorems

-----------------------------------------------------------------------------
(* The inductive invariant. *)

CopiesMade == \A e \in Copies : e.pkt \in Made

Finite == \A n \in Nodes : IsFiniteSet(m_queue[n])

\* Copies carry the id of their packet.  That is made of its source and a count of
\* it, which is past as long as the counter has not come round, and is that of
\* another packet only as MayClash says.
CountOf(p, c) ==
  LET n == packets[p].source IN
  /\ packets[p].id = GlobalPacketID(n, c)
  /\ n \notin wrapped => c <= m_dataPacketCounter[n]
Named ==
  /\ \A e \in Copies : e.id = packets[e.pkt].id
  /\ \A p \in Made : \E c \in 0..(CounterMod - 1) : CountOf(p, c)
  /\ \A p, q \in Made : p # q /\ packets[p].id = packets[q].id => MayClash(p, q)

\* Packets belong to flows, so that those of one uid have one destination.
FromFlows ==
  \A p \in Made : <<packets[p].source, packets[p].dest, packets[p].uid>> \in Flows

\* The hops a copy has made and those it has left.  At its destination nothing
\* is said of it: it is sent no further.
Within(e) == e.hopCount >= 1 /\ e.hops + e.hopCount <= HopCount
HopsLeft ==
  /\ \A n \in Nodes : \A e \in m_queue[n] : n # Dest(e) => Within(e)
  /\ \A s \in scheduled : s.at # Dest(s.entry) => Within(s.entry)
  /\ \A m \in DataMessages :
       m.entry.hopCount >= 1 /\ m.entry.hops + m.entry.hopCount <= HopCount + 1

\* The destination of p cannot be expected to know of its deliveries.
Gone(p) == <<packets[p].dest, p>> \in dropped \/ AnotherOfItsUid(p)

\* What was delivered is in the destination's queue, or gone; and was delivered
\* twice only if it was gone, or if Find does not see its id.
Remembered ==
  \A p \in Made :
    /\ delivered[p] > 0 => p \in Pkts(m_queue[packets[p].dest]) \/ Gone(p)
    /\ delivered[p] > 1 => Gone(p) \/ packets[p].id = 0

\* The program's list at a destination tells of deliveries only.
Listed ==
  \A n \in Nodes : \A u \in queuelist[n] :
    \E q \in Made : packets[q].uid = u /\ (packets[q].dest # n \/ delivered[q] > 0)

IInv ==
  TypeOK /\ CopiesMade /\ Finite /\ Named /\ FromFlows /\ HopsLeft /\ Remembered /\ Listed

-----------------------------------------------------------------------------
(* Numbers and types. *)

\* An id determines the host and the count it is made of.
LEMMA IdsDiffer ==
  ASSUME NEW K \in Nat \ {0}, NEW n \in Nat, NEW m \in Nat, NEW c \in Nat, NEW d \in Nat,
         c < K, d < K, n * K + c = m * K + d
  PROVE  n = m /\ c = d
<1>1. ASSUME NEW x \in Nat, NEW y \in Nat, x < y PROVE x * K + K <= y * K
  <2>1. PICK k \in Nat : y = x + 1 + k
    <3>1. y - x - 1 \in Nat /\ y = x + 1 + (y - x - 1)
      BY <1>1
    <3> QED
      BY <3>1
  <2>2. y * K = x * K + K + k * K
    BY <2>1
  <2>3. k * K \in Nat /\ x * K \in Nat /\ y * K \in Nat
    OBVIOUS
  <2> QED
    BY <2>2, <2>3
<1>2. n * K \in Nat /\ m * K \in Nat
  OBVIOUS
<1>3. ~ (n < m) /\ ~ (m < n)
  BY <1>1, <1>2
<1> QED
  BY <1>2, <1>3

\* A count goes up by one, or comes round to 0.
LEMMA NextCount ==
  ASSUME NEW K \in Nat \ {0}, NEW a \in Nat, a < K
  PROVE  (a + 1) % K \in 0..(K - 1) /\ ((a + 1) % K = a + 1 \/ (a + 1) % K = 0)
<1>1. CASE a + 1 < K
  <2>1. (a + 1) % K = a + 1
    BY <1>1
  <2> QED
    BY <1>1, <2>1
<1>2. CASE ~ (a + 1 < K)
  <2>1. a + 1 = K
    BY <1>2
  <2>2. K % K = 0
    OBVIOUS
  <2> QED
    BY <2>1, <2>2
<1> QED
  BY <1>1, <1>2

\* Counting: the counts of nodes whose counter has not come round do not go down,
\* and that of n goes up if it counts.
CountsGrow ==
  /\ m_dataPacketCounter' \in [Nodes -> 0..(CounterMod - 1)]
  /\ wrapped \subseteq wrapped' /\ wrapped' \subseteq Nodes
  /\ \A x \in Nodes : x \notin wrapped' => m_dataPacketCounter[x] <= m_dataPacketCounter'[x]

LEMMA CountStep ==
  ASSUME TypeOK, NEW n \in Nodes, CountPacket(n)
  PROVE  /\ CountsGrow
         /\ m_dataPacketCounter[n] < MaxCount /\ Len(packets) < MaxPackets /\ n \notin wrapped'
              => m_dataPacketCounter'[n] = m_dataPacketCounter[n] + 1
<1> USE NumbersAssumption
<1> DEFINE a == m_dataPacketCounter[n]
           next == (a + 1) % CounterMod
<1>1. /\ m_dataPacketCounter \in [Nodes -> 0..(CounterMod - 1)] /\ wrapped \subseteq Nodes
      /\ \A x \in Nodes : m_dataPacketCounter[x] \in Nat /\ m_dataPacketCounter[x] < CounterMod
  BY DEF TypeOK
<1>2. next \in 0..(CounterMod - 1) /\ (next = a + 1 \/ next = 0)
  BY <1>1, NextCount
<1>3. \/ /\ m_dataPacketCounter' = m_dataPacketCounter /\ wrapped' = wrapped
         /\ ~ (a < MaxCount /\ Len(packets) < MaxPackets)
      \/ /\ m_dataPacketCounter' = [m_dataPacketCounter EXCEPT ![n] = next]
         /\ wrapped' = IF next = 0 THEN wrapped \cup {n} ELSE wrapped
  <2> HIDE DEF next
  <2>1. CASE a < MaxCount /\ Len(packets) < MaxPackets
    BY <2>1 DEF CountPacket, next
  <2>2. CASE ~ (a < MaxCount /\ Len(packets) < MaxPackets)
    BY <1>1, <2>2 DEF CountPacket
  <2> QED
    BY <2>1, <2>2
<1> HIDE DEF next
<1>4. CASE m_dataPacketCounter' = m_dataPacketCounter /\ wrapped' = wrapped
           /\ ~ (a < MaxCount /\ Len(packets) < MaxPackets)
  BY <1>1, <1>4 DEF CountsGrow
<1>5. CASE m_dataPacketCounter' = [m_dataPacketCounter EXCEPT ![n] = next]
           /\ wrapped' = IF next = 0 THEN wrapped \cup {n} ELSE wrapped
  <2>1. /\ m_dataPacketCounter' \in [Nodes -> 0..(CounterMod - 1)]
        /\ m_dataPacketCounter'[n] = next
        /\ \A x \in Nodes : x # n => m_dataPacketCounter'[x] = m_dataPacketCounter[x]
    BY <1>1, <1>2, <1>5
  <2>2. wrapped \subseteq wrapped' /\ wrapped' \subseteq Nodes
    BY <1>1, <1>5
  <2>3. n \notin wrapped' => next = a + 1
    BY <1>2, <1>5
  <2> QED
    BY <1>1, <2>1, <2>2, <2>3 DEF CountsGrow
<1> QED
  BY <1>3, <1>4, <1>5

\* Counters that stay.
LEMMA CountsStay == ASSUME TypeOK, UNCHANGED counters PROVE CountsGrow
<1>1. \A x \in Nodes : m_dataPacketCounter[x] \in Nat
  BY NumbersAssumption DEF TypeOK
<1> QED
  BY <1>1 DEF TypeOK, CountsGrow, counters

\* What a message of data carries is a copy.
LEMMA DataEntry ==
  ASSUME TypeOK, NEW m \in radio, m.type = "DATA"
  PROVE  m.entry \in Entry /\ m.entry \in Copies /\ m.from \in Nodes /\ m.to \in Nodes
<1>1. m \in Message
  BY DEF TypeOK
<1>2. m \in [type : {"DATA"}, from : Nodes, to : Nodes, entry : Entry]
  BY <1>1 DEF Message
<1> QED
  BY <1>2 DEF Copies, DataMessages

\* Copies are entries.
LEMMA CopiesAreEntries == TypeOK => Copies \subseteq Entry
<1> SUFFICES ASSUME TypeOK, NEW e \in Copies PROVE e \in Entry
  OBVIOUS
<1>1. CASE e \in UNION {m_queue[n] : n \in Nodes}
  BY <1>1 DEF TypeOK
<1>2. CASE e \in {s.entry : s \in scheduled}
  BY <1>2 DEF TypeOK, Send
<1>3. CASE e \in {m.entry : m \in DataMessages}
  BY <1>3, DataEntry DEF DataMessages
<1> QED
  BY <1>1, <1>2, <1>3 DEF Copies

\* A packet has a source and a destination among the nodes.
LEMMA PacketEnds ==
  ASSUME TypeOK, NEW p \in Made
  PROVE  /\ packets[p].source \in Nodes /\ packets[p].dest \in Nodes
         /\ packets[p].uid \in Uids /\ packets[p].id \in Nat
<1>1. packets \in Seq(Packet)
  BY DEF TypeOK
<1>2. p \in 1..Len(packets)
  BY <1>1, LenProperties DEF Made
<1>3. packets[p] \in Packet
  BY <1>1, <1>2, ElementOfSeq
<1> QED
  BY <1>3 DEF Packet

-----------------------------------------------------------------------------
(* The queues. *)

\* What a step that leaves r of q in the queue of n does: the other queues stay,
\* no queue is too long, and what n loses of its own is in dropped.
Kept(n, q) ==
  /\ m_queue' \in [Nodes -> SUBSET Entry]
  /\ \A x \in Nodes : IsFiniteSet(m_queue'[x]) /\ Cardinality(m_queue'[x]) <= QueueLength
  /\ \A x \in Nodes : x # n => m_queue'[x] = m_queue[x]
  /\ m_queue'[n] \subseteq q
  /\ dropped \subseteq dropped'
  /\ \A z \in dropped' : z \in dropped \/ \E e \in m_queue[n] \cup q : z = <<n, e.pkt>>
  /\ \A p \in Pkts(m_queue[n]) : n \in Ends(p) => p \in Pkts(m_queue'[n]) \/ <<n, p>> \in dropped'

\* Purge cuts a queue that is one entry too long.
LEMMA PurgeCuts ==
  ASSUME NEW q, IsFiniteSet(q), Cardinality(q) <= QueueLength + 1,
         NEW r \in SUBSET q, Purge(q, r)
  PROVE  IsFiniteSet(r) /\ Cardinality(r) <= QueueLength
<1>1. IsFiniteSet(r) /\ Cardinality(r) <= Cardinality(q) /\ Cardinality(r) \in Nat
      /\ Cardinality(q) \in Nat
  BY FS_Subset, FS_CardinalityType
<1>2. CASE Cardinality(q) > QueueLength
  <2>1. PICK e \in q : r = q \ {e}
    BY <1>2 DEF Purge
  <2>2. Cardinality(r) = Cardinality(q) - 1
    BY <2>1, FS_RemoveElement
  <2> QED
    BY <1>1, <2>2, NumbersAssumption
<1>3. CASE ~ (Cardinality(q) > QueueLength)
  BY <1>1, <1>3, NumbersAssumption
<1> QED
  BY <1>2, <1>3

\* KeepPurged, for a queue that differs from the one before by one entry at most.
LEMMA KeepPurgedKeeps ==
  ASSUME TypeOK, Finite, NEW n \in Nodes, NEW q \in SUBSET Entry,
         IsFiniteSet(q), Cardinality(q) <= QueueLength + 1, KeepPurged(n, q)
  PROVE  /\ Kept(n, q)
         /\ \A p \in Pkts(q) : n \in Ends(p) => p \in Pkts(m_queue'[n]) \/ <<n, p>> \in dropped'
<1>1. PICK r \in SUBSET q :
        /\ Purge(q, r)
        /\ m_queue' = [m_queue EXCEPT ![n] = r]
        /\ dropped' = dropped \cup
             {<<n, p>> : p \in {p \in Pkts(m_queue[n] \cup q) \ Pkts(r) : n \in Ends(p)}}
  BY DEF KeepPurged
<1>2. IsFiniteSet(r) /\ Cardinality(r) <= QueueLength
  BY <1>1, PurgeCuts
<1>3. m_queue \in [Nodes -> SUBSET Entry]
      /\ \A x \in Nodes : IsFiniteSet(m_queue[x]) /\ Cardinality(m_queue[x]) <= QueueLength
  BY DEF TypeOK, Finite
<1>4. m_queue' \in [Nodes -> SUBSET Entry] /\ m_queue'[n] = r
      /\ \A x \in Nodes : x # n => m_queue'[x] = m_queue[x]
  BY <1>1, <1>3
<1>5. \A p \in Pkts(m_queue[n] \cup q) :
        n \in Ends(p) => p \in Pkts(m_queue'[n]) \/ <<n, p>> \in dropped'
  BY <1>1, <1>4
<1>6. \A z \in dropped' : z \in dropped \/ \E e \in m_queue[n] \cup q : z = <<n, e.pkt>>
  BY <1>1 DEF Pkts
<1>7. Pkts(m_queue[n]) \subseteq Pkts(m_queue[n] \cup q) /\ Pkts(q) \subseteq Pkts(m_queue[n] \cup q)
  BY DEF Pkts
<1>8. \A x \in Nodes : IsFiniteSet(m_queue'[x]) /\ Cardinality(m_queue'[x]) <= QueueLength
  BY <1>2, <1>3, <1>4
<1>9. dropped \subseteq dropped' /\ m_queue'[n] \subseteq q
  BY <1>1, <1>4
<1> QED
  BY <1>4, <1>5, <1>6, <1>7, <1>8, <1>9 DEF Kept

\* A purge of what the queue holds, or of what an earlier purge left of it.
LEMMA PurgeKeeps ==
  ASSUME TypeOK, Finite, NEW n \in Nodes, NEW q \in SUBSET m_queue[n], KeepPurged(n, q)
  PROVE  Kept(n, m_queue[n])
<1>1. q \in SUBSET Entry
  BY DEF TypeOK
<1>2. IsFiniteSet(q) /\ Cardinality(q) <= QueueLength + 1
  <2>1. IsFiniteSet(m_queue[n]) /\ Cardinality(m_queue[n]) <= QueueLength
    BY DEF TypeOK, Finite
  <2>2. IsFiniteSet(q) /\ Cardinality(q) <= Cardinality(m_queue[n])
    BY <2>1, FS_Subset
  <2>3. Cardinality(q) \in Nat /\ Cardinality(m_queue[n]) \in Nat
    BY <2>1, <2>2, FS_CardinalityType
  <2> QED
    BY <2>1, <2>2, <2>3, NumbersAssumption
<1>3. Kept(n, q)
  BY <1>1, <1>2, KeepPurgedKeeps
<1>4. m_queue[n] \cup q = m_queue[n]
  OBVIOUS
<1> QED
  BY <1>3, <1>4 DEF Kept

\* Storing an entry: it is in the queue afterwards, or n has had it before, or it
\* is dropped at once.
LEMMA StoreKeeps ==
  ASSUME TypeOK, Finite, NEW n \in Nodes, NEW entry \in Entry, NEW u, Store(n, entry, u)
  PROVE  /\ Kept(n, m_queue[n] \cup {entry})
         /\ \/ Large /\ u \in queuelist[n] /\ m_queue' = m_queue
            \/ entry.pkt \in Pkts(m_queue'[n])
            \/ n \in Ends(entry.pkt) => <<n, entry.pkt>> \in dropped'
<1> DEFINE q == {e \in m_queue[n] : e.id # entry.id} \cup {entry}
<1>1. CASE Large /\ u \in queuelist[n]
  <2>1. m_queue' = m_queue /\ dropped' = dropped
    BY <1>1 DEF Store
  <2> QED
    BY <1>1, <2>1 DEF Kept, TypeOK, Finite
<1>2. CASE ~ (Large /\ u \in queuelist[n])
  <2>1. KeepPurged(n, q)
    BY <1>2 DEF Store, Enqueue
  <2>2. q \in SUBSET Entry
    BY DEF TypeOK
  <2>3. IsFiniteSet(q) /\ Cardinality(q) <= QueueLength + 1
    <3> DEFINE p == {e \in m_queue[n] : e.id # entry.id}
    <3>1. IsFiniteSet(m_queue[n]) /\ Cardinality(m_queue[n]) <= QueueLength
      BY DEF TypeOK, Finite
    <3>2. IsFiniteSet(p) /\ Cardinality(p) <= Cardinality(m_queue[n])
      BY <3>1, FS_Subset
    <3>3. Cardinality(p) \in Nat /\ Cardinality(m_queue[n]) \in Nat
      BY <3>1, <3>2, FS_CardinalityType
    <3>4. IsFiniteSet(q) /\ (Cardinality(q) = Cardinality(p) \/ Cardinality(q) = Cardinality(p) + 1)
      BY <3>2, FS_AddElement
    <3> QED
      BY <3>1, <3>2, <3>3, <3>4, NumbersAssumption
  <2> HIDE DEF q
  <2>4. Kept(n, q) /\ \A p \in Pkts(q) : n \in Ends(p) => p \in Pkts(m_queue'[n]) \/ <<n, p>> \in dropped'
    BY <2>1, <2>2, <2>3, KeepPurgedKeeps
  <2>5. q \subseteq m_queue[n] \cup {entry} /\ entry.pkt \in Pkts(q)
    BY DEF q, Pkts
  <2>6. Kept(n, m_queue[n] \cup {entry})
    BY <2>4, <2>5 DEF Kept
  <2> QED
    BY <2>4, <2>5, <2>6
<1> QED
  BY <1>1, <1>2

-----------------------------------------------------------------------------
(* Steps in which no packet is made. *)

Known(e) == \E f \in Copies : e.id = f.id /\ e.pkt = f.pkt

\* What the places of copies may hold after a step, in terms of the state before.
HeldSound(n, e) == e \in Entry /\ Known(e) /\ (n # Dest(e) => Within(e))
SendSound(s) == s \in Send /\ HeldSound(s.at, s.entry)
MessageSound(m) ==
  /\ m \in Message
  /\ m.type = "DATA" => /\ Known(m.entry)
                        /\ m.entry.hopCount >= 1
                        /\ m.entry.hops + m.entry.hopCount <= HopCount + 1

\* What they hold before it is sound.
LEMMA OldAreSound ==
  IInv => /\ \A n \in Nodes : \A e \in m_queue[n] : HeldSound(n, e)
          /\ \A s \in scheduled : SendSound(s)
          /\ \A m \in radio : MessageSound(m)
<1> SUFFICES ASSUME IInv
             PROVE  /\ \A n \in Nodes : \A e \in m_queue[n] : HeldSound(n, e)
                    /\ \A s \in scheduled : SendSound(s)
                    /\ \A m \in radio : MessageSound(m)
  OBVIOUS
<1>1. ASSUME NEW n \in Nodes, NEW e \in m_queue[n] PROVE HeldSound(n, e)
  BY DEF IInv, TypeOK, HopsLeft, HeldSound, Known, Copies
<1>2. ASSUME NEW s \in scheduled PROVE SendSound(s)
  <2>1. s \in Send /\ s.entry \in Entry /\ s.entry \in Copies
    BY DEF IInv, TypeOK, Send, Copies
  <2> QED
    BY <2>1 DEF IInv, HopsLeft, SendSound, HeldSound, Known
<1>3. ASSUME NEW m \in radio PROVE MessageSound(m)
  <2>1. m \in Message
    BY DEF IInv, TypeOK
  <2>2. CASE m.type = "DATA"
    BY <2>1, <2>2, DataEntry DEF IInv, HopsLeft, DataMessages, MessageSound, Known
  <2>3. CASE m.type # "DATA"
    BY <2>1, <2>3 DEF MessageSound
  <2> QED
    BY <2>2, <2>3
<1> QED
  BY <1>1, <1>2, <1>3

\* Copies that carry known names leave the naming as it is; counts only grow.
LEMMA NamedKept ==
  ASSUME TypeOK, CopiesMade, Named, packets' = packets, \A e \in Copies' : Known(e), CountsGrow
  PROVE  CopiesMade' /\ Named'
<1>1. CopiesMade' /\ Made' = Made
  BY DEF CopiesMade, Known, Made
<1>2. \A e \in Copies' : e.id = packets[e.pkt].id
  BY DEF Named, Known
<1>3. ASSUME NEW p \in Made
      PROVE  \E c \in 0..(CounterMod - 1) :
               /\ packets[p].id = GlobalPacketID(packets[p].source, c)
               /\ packets[p].source \notin wrapped' =>
                    c <= m_dataPacketCounter'[packets[p].source]
  <2>1. PICK c \in 0..(CounterMod - 1) : CountOf(p, c)
    BY DEF Named
  <2>2. packets[p].source \in Nodes
    BY PacketEnds
  <2>3. m_dataPacketCounter[packets[p].source] \in Nat
        /\ m_dataPacketCounter'[packets[p].source] \in Nat /\ c \in Nat
    BY <2>2, NumbersAssumption DEF TypeOK, CountsGrow
  <2> QED
    BY <2>1, <2>2, <2>3 DEF CountOf, CountsGrow
<1>4. \A p, q \in Made : p # q /\ packets[p].id = packets[q].id =>
        /\ packets[p].source % HostMod = packets[q].source % HostMod
        /\ packets[p].source = packets[q].source => packets[p].source \in wrapped'
  BY DEF Named, MayClash, CountsGrow
<1> QED
  BY <1>1, <1>2, <1>3, <1>4 DEF Named, CountOf, MayClash, GlobalPacketID

\* A queue that is only purged or added to keeps what was delivered in mind.
LEMMA RememberedKept ==
  ASSUME TypeOK, Remembered, packets' = packets, delivered' = delivered,
         NEW n \in Nodes, NEW q, Kept(n, q)
  PROVE  Remembered'
<1>1. Made' = Made /\ dropped \subseteq dropped'
  BY DEF Made, Kept
<1>2. \A p \in Made : Gone(p) => Gone(p)'
  BY <1>1 DEF Gone, AnotherOfItsUid
<1> SUFFICES ASSUME NEW p \in Made
             PROVE  /\ delivered[p] > 0 => p \in Pkts(m_queue'[packets[p].dest]) \/ Gone(p)'
                    /\ delivered[p] > 1 => Gone(p)' \/ packets[p].id = 0
  BY <1>1 DEF Remembered, Pkts
<1>3. /\ delivered[p] > 0 => p \in Pkts(m_queue[packets[p].dest]) \/ Gone(p)
      /\ delivered[p] > 1 => Gone(p) \/ packets[p].id = 0
  BY DEF Remembered
<1>4. packets[p].dest \in Nodes /\ packets[p].dest \in Ends(p)
  BY PacketEnds DEF Ends
<1>5. p \in Pkts(m_queue[packets[p].dest]) => p \in Pkts(m_queue'[packets[p].dest]) \/ Gone(p)'
  BY <1>1, <1>4 DEF Kept, Gone
<1> QED
  BY <1>2, <1>3, <1>5

\* The step as a whole.
LEMMA SoundStep ==
  ASSUME IInv, packets' = packets, expired' \in 0..Len(packets),
         CountsGrow, m_hostContactTime' \in [Nodes -> SUBSET Nodes],
         queuelist' \in [Nodes -> SUBSET Uids], Listed',
         outOfRange' \in BOOLEAN, delivered' \in [Made -> 0..2], Remembered',
         NEW n \in Nodes, NEW q, Kept(n, q), \A e \in q : HeldSound(n, e),
         \A e \in m_queue[n] \cup q : e.pkt \in Made,
         \A s \in scheduled' : SendSound(s), \A m \in radio' : MessageSound(m)
  PROVE  IInv'
<1>1. Made' = Made
  BY DEF Made
<1>2. \A x \in Nodes : \A e \in m_queue'[x] : HeldSound(x, e)
  BY OldAreSound DEF Kept
<1>3. \A e \in Copies' : Known(e)
  <2> SUFFICES ASSUME NEW e \in Copies' PROVE Known(e)
    OBVIOUS
  <2>1. CASE \E x \in Nodes : e \in m_queue'[x]
    BY <1>2, <2>1 DEF HeldSound
  <2>2. CASE \E s \in scheduled' : e = s.entry
    BY <2>2 DEF SendSound, HeldSound
  <2>3. CASE \E m \in radio' : m.type = "DATA" /\ e = m.entry
    BY <2>3 DEF MessageSound
  <2> QED
    BY <2>1, <2>2, <2>3 DEF Copies, DataMessages
<1>4. CopiesMade' /\ Named'
  BY <1>3, NamedKept DEF IInv
<1>5. HopsLeft'
  <2>1. \A x \in Nodes : \A e \in m_queue'[x] : x # packets[e.pkt].dest => Within(e)
    BY <1>2 DEF HeldSound, Dest
  <2>2. \A s \in scheduled' : s.at # packets[s.entry.pkt].dest => Within(s.entry)
    BY DEF SendSound, HeldSound, Dest
  <2>3. \A m \in radio' : m.type = "DATA" =>
          m.entry.hopCount >= 1 /\ m.entry.hops + m.entry.hopCount <= HopCount + 1
    BY DEF MessageSound
  <2> QED
    BY <2>1, <2>2, <2>3 DEF HopsLeft, DataMessages, Dest, Within
<1>6. TypeOK'
  <2>1. scheduled' \subseteq Send /\ radio' \subseteq Message
    BY DEF SendSound, MessageSound
  <2>2. dropped' \subseteq Nodes \X Made
    <3> SUFFICES ASSUME NEW z \in dropped' PROVE z \in Nodes \X Made
      OBVIOUS
    <3>1. z \in dropped \/ \E e \in m_queue[n] \cup q : z = <<n, e.pkt>>
      BY DEF Kept
    <3>2. dropped \subseteq Nodes \X Made
      BY DEF IInv, TypeOK
    <3> QED
      BY <3>1, <3>2
  <2>3. /\ m_queue' \in [Nodes -> SUBSET Entry]
        /\ \A x \in Nodes : Cardinality(m_queue'[x]) <= QueueLength
    BY DEF Kept
  <2>4. packets \in Seq(Packet) /\ Len(packets) <= MaxPackets
    BY DEF IInv, TypeOK
  <2> QED
    BY <1>1, <2>1, <2>2, <2>3, <2>4 DEF TypeOK, CountsGrow
<1>7. Finite' /\ FromFlows'
  BY <1>1 DEF Kept, Finite, IInv, FromFlows
<1> QED
  BY <1>4, <1>5, <1>6, <1>7 DEF IInv

-----------------------------------------------------------------------------
(* The steps, one by one. *)

\* Queues that are left alone are kept.
LEMMA Untouched ==
  ASSUME IInv, NEW n \in Nodes, UNCHANGED <<m_queue, dropped>> PROVE Kept(n, m_queue[n])
BY DEF IInv, TypeOK, Finite, Kept

\* The pieces of the state that a step may leave as they are.
LEMMA OldTypes ==
  IInv => /\ expired \in 0..Len(packets)
          /\ m_hostContactTime \in [Nodes -> SUBSET Nodes]
          /\ queuelist \in [Nodes -> SUBSET Uids]
          /\ outOfRange \in BOOLEAN /\ delivered \in [Made -> 0..2]
          /\ \A n \in Nodes : \A e \in m_queue[n] : e.pkt \in Made
<1> SUFFICES ASSUME IInv PROVE \A n \in Nodes : \A e \in m_queue[n] : e.pkt \in Made
  BY DEF IInv, TypeOK
<1> QED
  BY DEF IInv, CopiesMade, Copies

\* The program's list is as it was.
LEMMA ListedKept == ASSUME Listed, UNCHANGED <<packets, queuelist, delivered>> PROVE Listed'
BY DEF Listed, Made

\* Steps of a node that purges its queue, and then sends a summary vector or
\* schedules sends of what it has left, or does neither.
LEMMA PurgingStep ==
  ASSUME IInv, NEW n \in Nodes, Kept(n, m_queue[n]),
         UNCHANGED <<packets, expired, counters, queuelist, outOfRange, delivered>>,
         m_hostContactTime' \in [Nodes -> SUBSET Nodes],
         \A s \in scheduled' : SendSound(s), \A m \in radio' : MessageSound(m)
  PROVE  IInv'
<1>1. \A e \in m_queue[n] : HeldSound(n, e)
  BY OldAreSound
<1>2. CountsGrow
  BY CountsStay DEF IInv
<1>3. Remembered'
  BY RememberedKept DEF IInv
<1>4. Listed'
  BY ListedKept DEF IInv
<1>5. \A e \in m_queue[n] \cup m_queue[n] : e.pkt \in Made
  BY OldTypes
<1> QED
  BY <1>1, <1>2, <1>3, <1>4, <1>5, OldTypes, SoundStep

\* Sends of entries that are in the queue.
LEMMA DisjointSound ==
  ASSUME IInv, NEW n \in Nodes, NEW s \in Nodes, NEW q \in SUBSET m_queue[n], NEW list
  PROVE  \A x \in Disjoint(n, s, q, list) : SendSound(x)
<1> SUFFICES ASSUME NEW e \in q PROVE SendSound([at |-> n, to |-> s, entry |-> e])
  BY DEF Disjoint
<1>1. HeldSound(n, e)
  BY OldAreSound
<1> QED
  BY <1>1 DEF SendSound, Send, HeldSound

\* A summary vector.
LEMMA SummarySound ==
  ASSUME NEW n \in Nodes, NEW s \in Nodes, NEW q \in SUBSET Entry,
         NEW type \in {"REPLY", "REPLY_BACK"}
  PROVE  MessageSound(Summary(type, n, s, q))
<1>1. Ids(q) \in SUBSET Nat
  BY DEF Ids, Entry
<1>2. Summary(type, n, s, q) \in Message
  BY <1>1 DEF Summary, Message
<1>3. Summary(type, n, s, q).type # "DATA"
  BY DEF Summary
<1> QED
  BY <1>2, <1>3 DEF MessageSound

\* A beacon: a purge and, if a session starts, a summary vector.
LEMMA RecvBeaconStep ==
  ASSUME IInv, NEW n \in Nodes, NEW s \in Nodes, RecvBeacon(n, s) PROVE IInv'
<1>1. \E q \in SUBSET m_queue[n] : KeepPurged(n, q)
  BY DEF RecvBeacon
<1>2. Kept(n, m_queue[n])
  BY <1>1, PurgeKeeps DEF IInv
<1>3. m_hostContactTime' \in [Nodes -> SUBSET Nodes]
  BY OldTypes DEF RecvBeacon
<1>4. \A m \in radio' : MessageSound(m)
  <2>1. m_queue'[n] \in SUBSET Entry
    BY <1>2 DEF Kept
  <2>2. radio' \subseteq radio \cup {Summary("REPLY", n, s, m_queue'[n])}
    BY DEF RecvBeacon
  <2> QED
    BY <2>1, <2>2, OldAreSound, SummarySound
<1>5. \A x \in scheduled' : SendSound(x)
  BY OldAreSound DEF RecvBeacon
<1>6. UNCHANGED <<packets, expired, counters, queuelist, outOfRange, delivered>>
  BY DEF RecvBeacon
<1> QED
  BY <1>2, <1>3, <1>4, <1>5, <1>6, PurgingStep

\* REPLY: sends are scheduled and the summary vector goes back.
LEMMA RecvReplyStep ==
  ASSUME IInv, NEW m \in radio, RecvReply(m) PROVE IInv'
<1>1. m.to \in Nodes /\ m.from \in Nodes
  BY DEF IInv, TypeOK, Message
<1>2. PICK q \in SUBSET m_queue[m.to] :
        scheduled' = scheduled \cup Disjoint(m.to, m.from, q, m.list) /\ KeepPurged(m.to, q)
  BY DEF RecvReply
<1>3. Kept(m.to, m_queue[m.to])
  BY <1>1, <1>2, PurgeKeeps DEF IInv
<1>4. \A x \in scheduled' : SendSound(x)
  BY <1>1, <1>2, DisjointSound, OldAreSound
<1>5. \A x \in radio' : MessageSound(x)
  <2>1. m_queue'[m.to] \in SUBSET Entry
    BY <1>1, <1>3 DEF Kept
  <2>2. radio' = (radio \ {m}) \cup {Summary("REPLY_BACK", m.to, m.from, m_queue'[m.to])}
    BY DEF RecvReply
  <2> QED
    BY <1>1, <2>1, <2>2, OldAreSound, SummarySound
<1>6. UNCHANGED <<packets, expired, counters, m_hostContactTime, queuelist,
                  outOfRange, delivered>>
  BY DEF RecvReply
<1> QED
  BY <1>1, <1>3, <1>4, <1>5, <1>6, OldTypes, PurgingStep

\* REPLY_BACK: sends are scheduled.
LEMMA RecvReplyBackStep ==
  ASSUME IInv, NEW m \in radio, RecvReplyBack(m) PROVE IInv'
<1>1. m.to \in Nodes /\ m.from \in Nodes
  BY DEF IInv, TypeOK, Message
<1>2. Kept(m.to, m_queue[m.to])
  BY <1>1, PurgeKeeps DEF IInv, RecvReplyBack
<1>3. \A x \in scheduled' : SendSound(x)
  <2>1. m_queue'[m.to] \in SUBSET m_queue[m.to]
    BY <1>2 DEF Kept
  <2>2. scheduled' = scheduled \cup Disjoint(m.to, m.from, m_queue'[m.to], m.list)
    BY DEF RecvReplyBack
  <2> QED
    BY <1>1, <2>1, <2>2, DisjointSound, OldAreSound
<1>4. \A x \in radio' : MessageSound(x)
  BY OldAreSound DEF RecvReplyBack
<1>5. UNCHANGED <<packets, expired, counters, m_hostContactTime, queuelist,
                  outOfRange, delivered>>
  BY DEF RecvReplyBack
<1> QED
  BY <1>1, <1>2, <1>3, <1>4, <1>5, OldTypes, PurgingStep

\* A scheduled send: the message is the entry with one hop more.
LEMMA SendStep ==
  ASSUME IInv, NEW s \in scheduled, SendPacketFromQueue(s) PROVE IInv'
<1> DEFINE sent == [type |-> "DATA", from |-> s.at, to |-> s.to,
                    entry |-> [s.entry EXCEPT !.hops = @ + 1]]
<1>1. \/ radio' = radio
      \/ radio' = radio \cup {sent} /\ s.at # Dest(s.entry)
  BY DEF SendPacketFromQueue
<1>2. SendSound(s)
  BY OldAreSound
<1>3. ASSUME s.at # Dest(s.entry) PROVE MessageSound(sent)
  <2>1. s \in Send /\ s.entry \in Entry /\ Known(s.entry) /\ Within(s.entry)
    BY <1>2, <1>3 DEF SendSound, HeldSound
  <2>2. /\ sent.entry \in Entry /\ sent.entry.id = s.entry.id /\ sent.entry.pkt = s.entry.pkt
        /\ sent.entry.hopCount = s.entry.hopCount /\ sent.entry.hops = s.entry.hops + 1
    BY <2>1 DEF Entry
  <2>3. sent \in Message
    BY <2>1, <2>2 DEF Message, Send
  <2>4. Known(sent.entry)
    BY <2>1, <2>2 DEF Known
  <2>5. sent.entry.hopCount >= 1 /\ sent.entry.hops + sent.entry.hopCount <= HopCount + 1
    BY <2>1, <2>2, NumbersAssumption DEF Within, Entry
  <2> QED
    BY <2>3, <2>4, <2>5 DEF MessageSound
<1> HIDE DEF sent
<1>4. \A m \in radio' : MessageSound(m)
  BY <1>1, <1>3, OldAreSound
<1>5. \A x \in scheduled' : SendSound(x)
  BY OldAreSound DEF SendPacketFromQueue
<1>6. UNCHANGED <<packets, expired, nodeVars, outOfRange, history>>
  BY DEF SendPacketFromQueue
<1>7. s.at \in Nodes
  BY <1>2 DEF SendSound, Send
<1>8. Kept(s.at, m_queue[s.at])
  BY <1>6, <1>7, Untouched DEF nodeVars, history
<1> QED
  BY <1>4, <1>5, <1>6, <1>7, <1>8, OldTypes, PurgingStep DEF nodeVars, history

\* Steps of time, of the radio and of no one.
LEMMA OtherSteps ==
  ASSUME IInv,
         \/ \E n, s \in Nodes : PeriodEnds(n, s)
         \/ Expire \/ StayInRange \/ \E m \in radio : Lose(m)
         \/ UNCHANGED vars
  PROVE  IInv'
<1>0. m_hostContactTime' \in [Nodes -> SUBSET Nodes]
  <2>1. CASE \E n, s \in Nodes : PeriodEnds(n, s)
    BY <2>1, OldTypes DEF PeriodEnds
  <2>2. CASE UNCHANGED m_hostContactTime
    BY <2>2, OldTypes
  <2> QED
    BY <2>1, <2>2 DEF Expire, StayInRange, Lose, vars, nodeVars
<1>1. /\ UNCHANGED <<packets, m_queue, dropped, counters, queuelist,
                     scheduled, delivered>>
      /\ expired' = expired \/ (expired' = expired + 1 /\ expired < Len(packets))
      /\ outOfRange' \in {outOfRange, FALSE} /\ radio' \subseteq radio
  BY DEF PeriodEnds, Expire, StayInRange, Lose, vars, nodeVars, airVars, history
<1>2. Kept(Sink, m_queue[Sink]) /\ Sink \in Nodes
  BY <1>1, Untouched, NodesAssumption
<1>3. \A e \in m_queue[Sink] : HeldSound(Sink, e)
  BY <1>2, OldAreSound
<1>4. Listed'
  BY <1>1, ListedKept DEF IInv
<1>5. Remembered'
  BY <1>1, <1>2, RememberedKept DEF IInv
<1>6. CountsGrow
  BY <1>1, CountsStay DEF IInv
<1>7. \A s \in scheduled' : SendSound(s)
  BY <1>1, OldAreSound
<1>8. \A m \in radio' : MessageSound(m)
  BY <1>1, OldAreSound
<1>9. expired' \in 0..Len(packets)
  <2>1. Len(packets) \in Nat
    BY LenProperties DEF IInv, TypeOK
  <2> QED
    BY <1>1, <2>1, OldTypes
<1>10. \A e \in m_queue[Sink] \cup m_queue[Sink] : e.pkt \in Made
  BY <1>2, OldTypes
<1>11. outOfRange' \in BOOLEAN
  BY <1>1, OldTypes
<1> QED
  BY <1>0, <1>1, <1>2, <1>3, <1>4, <1>5, <1>6, <1>7, <1>8, <1>9, <1>10, <1>11, OldTypes, SoundStep

\* The program's list after a packet was stored.
LEMMA StoreList ==
  ASSUME TypeOK, NEW n \in Nodes, NEW entry, NEW u \in Uids, Store(n, entry, u)
  PROVE  /\ queuelist'[n] \subseteq queuelist[n] \cup {u}
         /\ \A x \in Nodes : x # n => queuelist'[x] = queuelist[x]
         /\ queuelist' \in [Nodes -> SUBSET Uids]
BY DEF TypeOK, Store

\* A relay takes a hop off what the copy has left, as the send took one on.
LEMMA RelayStep ==
  ASSUME IInv, NEW m \in radio, Relay(m) PROVE IInv'
<1> DEFINE n == m.to
           new == [m.entry EXCEPT !.hopCount = @ - 1]
<1>1. m.type = "DATA" /\ Dest(m.entry) # n /\ CountPacket(n) /\ radio' = radio \ {m}
      /\ UNCHANGED <<packets, expired, m_hostContactTime, scheduled, outOfRange, delivered>>
      /\ \/ UNCHANGED <<m_queue, queuelist, dropped>>
         \/ m.entry.hopCount > 1 /\ Store(n, new, Uid(m.entry))
  <2>1. m.entry.hopCount \in Nat
    BY DataEntry DEF IInv, Relay, Entry
  <2> QED
    BY <2>1 DEF Relay
<1>2. n \in Nodes /\ m.entry \in Entry /\ m.entry \in Copies /\ m.entry.pkt \in Made
  BY <1>1, DataEntry DEF IInv, CopiesMade
<1>3. CountsGrow
  BY <1>1, <1>2, CountStep DEF IInv
<1>4. \A s \in scheduled' : SendSound(s)
  BY <1>1, OldAreSound
<1>5. \A x \in radio' : MessageSound(x)
  BY <1>1, OldAreSound
<1>6. CASE UNCHANGED <<m_queue, queuelist, dropped>>
  <2>1. Kept(n, m_queue[n])
    BY <1>2, <1>6, Untouched
  <2>2. \A e \in m_queue[n] : HeldSound(n, e)
    BY <1>2, OldAreSound
  <2>3. Remembered' /\ Listed'
    BY <1>1, <1>2, <1>6, <2>1, RememberedKept, ListedKept DEF IInv
  <2>4. \A e \in m_queue[n] \cup m_queue[n] : e.pkt \in Made
    BY <1>2, OldTypes
  <2> QED
    BY <1>1, <1>2, <1>3, <1>4, <1>5, <1>6, <2>1, <2>2, <2>3, <2>4, OldTypes, SoundStep
<1>7. CASE m.entry.hopCount > 1 /\ Store(n, new, Uid(m.entry))
  <2>1. /\ new \in Entry /\ new.id = m.entry.id /\ new.pkt = m.entry.pkt
        /\ new.hops = m.entry.hops /\ new.hopCount = m.entry.hopCount - 1
    BY <1>2, <1>7 DEF Entry
  <2>2. HeldSound(n, new)
    <3>1. MessageSound(m)
      BY OldAreSound
    <3>2. Within(new)
      BY <1>1, <1>2, <1>7, <2>1, <3>1, NumbersAssumption DEF MessageSound, Within, Entry
    <3>3. Known(new)
      BY <1>2, <2>1 DEF Known
    <3> QED
      BY <2>1, <3>2, <3>3 DEF HeldSound
  <2> DEFINE q == m_queue[n] \cup {new}
  <2> HIDE DEF new
  <2>3. Kept(n, q)
    BY <1>2, <1>7, <2>1, StoreKeeps DEF IInv
  <2>4. \A e \in q : HeldSound(n, e)
    BY <1>2, <2>2, OldAreSound
  <2>5. \A e \in m_queue[n] \cup q : e.pkt \in Made
    BY <1>2, <2>1, OldTypes
  <2>6. Uid(m.entry) \in Uids
    BY <1>2, PacketEnds DEF IInv, Uid
  <2>7. /\ queuelist'[n] \subseteq queuelist[n] \cup {Uid(m.entry)}
        /\ \A x \in Nodes : x # n => queuelist'[x] = queuelist[x]
        /\ queuelist' \in [Nodes -> SUBSET Uids]
    BY <1>2, <1>7, <2>6, StoreList DEF IInv
  \* The packet that is added to the list is for another node.
  <2>8. Listed'
    <3>1. Made' = Made /\ packets' = packets /\ delivered' = delivered
      BY <1>1 DEF Made
    <3> SUFFICES ASSUME NEW x \in Nodes, NEW u \in queuelist'[x]
                 PROVE  \E p \in Made : /\ packets[p].uid = u
                                        /\ packets[p].dest # x \/ delivered[p] > 0
      BY <3>1 DEF Listed
    <3>2. CASE u \in queuelist[x]
      BY <3>2 DEF IInv, Listed
    <3>3. CASE u \notin queuelist[x]
      BY <1>1, <1>2, <2>7, <3>3 DEF Uid, Dest
    <3> QED
      BY <3>2, <3>3
  <2> HIDE DEF q
  <2>9. Remembered'
    BY <1>1, <1>2, <2>3, RememberedKept DEF IInv
  <2> QED
    BY <1>1, <1>2, <1>3, <1>4, <1>5, <2>3, <2>4, <2>5, <2>7, <2>8, <2>9, OldTypes, SoundStep
<1> QED
  BY <1>1, <1>6, <1>7

\* The first delivery is remembered; a second one finds that the queue forgot.
LEMMA DeliverStep ==
  ASSUME IInv, NEW m \in radio, Deliver(m) PROVE IInv'
<1> DEFINE n == m.to
           p0 == m.entry.pkt
           u == Uid(m.entry)
<1>1. m.type = "DATA" /\ Dest(m.entry) = n /\ radio' = radio \ {m}
      /\ UNCHANGED <<packets, expired, counters, m_hostContactTime, scheduled, outOfRange>>
  BY DEF Deliver
<1>2. n \in Nodes /\ m.entry \in Entry /\ m.entry \in Copies /\ p0 \in Made
  BY <1>1, DataEntry DEF IInv, CopiesMade
<1>3. \A s \in scheduled' : SendSound(s)
  BY <1>1, OldAreSound
<1>4. \A x \in radio' : MessageSound(x)
  BY <1>1, OldAreSound
<1>5. CountsGrow
  BY <1>1, CountsStay DEF IInv
<1>6. CASE m.entry.id \in Ids(m_queue[n]) \ {0}
  <2>1. UNCHANGED <<m_queue, queuelist, delivered, dropped>>
    BY <1>6 DEF Deliver, history
  <2>2. Kept(n, m_queue[n])
    BY <1>2, <2>1, Untouched
  <2> QED
    BY <1>1, <1>2, <1>3, <1>4, <2>1, <2>2, OldTypes, PurgingStep
<1>7. CASE m.entry.id \notin Ids(m_queue[n]) \ {0}
  <2> DEFINE q == m_queue[n] \cup {m.entry}
  <2>1. Store(n, m.entry, u)
        /\ delivered' = [delivered EXCEPT ![p0] = IF @ < 2 THEN @ + 1 ELSE @]
    BY <1>7 DEF Deliver
  <2>2. Kept(n, q)
        /\ \/ Large /\ u \in queuelist[n] /\ m_queue' = m_queue
           \/ p0 \in Pkts(m_queue'[n])
           \/ n \in Ends(p0) => <<n, p0>> \in dropped'
    BY <1>2, <2>1, StoreKeeps DEF IInv
  <2>3. \A e \in q : HeldSound(n, e)
    <3>1. HeldSound(n, m.entry)
      BY <1>1, <1>2 DEF HeldSound, Known
    <3> QED
      BY <1>2, <3>1, OldAreSound
  <2>4. \A e \in m_queue[n] \cup q : e.pkt \in Made
    BY <1>2, OldTypes
  <2>5. u \in Uids /\ u = packets[p0].uid
    BY <1>2, PacketEnds DEF IInv, Uid
  <2>6. /\ queuelist'[n] \subseteq queuelist[n] \cup {u}
        /\ \A x \in Nodes : x # n => queuelist'[x] = queuelist[x]
        /\ queuelist' \in [Nodes -> SUBSET Uids]
    BY <1>2, <2>1, <2>5, StoreList DEF IInv
  <2>7. /\ delivered \in [Made -> 0..2] /\ delivered' \in [Made -> 0..2]
        /\ delivered'[p0] > 0
        /\ delivered'[p0] > 1 => delivered[p0] > 0
        /\ \A p \in Made : p # p0 => delivered'[p] = delivered[p]
    BY <1>2, <2>1, OldTypes
  \* The queue holds the packet only if Find does not see it.
  <2>8. p0 \in Pkts(m_queue[n]) => packets[p0].id = 0
    <3>1. m.entry.id = packets[p0].id
      BY <1>2 DEF IInv, Named
    <3>2. SUFFICES ASSUME NEW e \in m_queue[n], e.pkt = p0 PROVE packets[p0].id = 0
      BY DEF Pkts
    <3>3. e \in Copies
      BY <1>2 DEF Copies
    <3>4. e.id = packets[p0].id
      BY <3>2, <3>3 DEF IInv, Named
    <3> QED
      BY <1>7, <3>1, <3>4 DEF Ids
  <2>9. packets[p0].dest = n /\ n \in Ends(p0)
    BY <1>1 DEF Dest, Ends
  <2>10. delivered[p0] > 0 => p0 \in Pkts(m_queue[n]) \/ Gone(p0)
    BY <1>2, <2>9 DEF IInv, Remembered
  <2>11. Made' = Made /\ packets' = packets /\ dropped \subseteq dropped'
    BY <1>1, <2>2 DEF Made, Kept
  <2>12. \A p \in Made : delivered[p] > 0 => delivered'[p] > 0
    BY <2>7
  <2>13. \A p \in Made : Gone(p) => Gone(p)'
    BY <2>11, <2>12 DEF Gone, AnotherOfItsUid
  \* A list that has the uid tells of the delivery of a packet of it to n.
  <2>14. ASSUME Large, u \in queuelist[n], ~ Gone(p0)' PROVE delivered[p0] > 0
    <3>1. PICK r \in Made : packets[r].uid = u /\ (packets[r].dest # n \/ delivered[r] > 0)
      BY <1>2, <2>14 DEF IInv, Listed
    <3>2. packets[r].dest = packets[p0].dest
      <4>1. /\ <<packets[r].source, packets[r].dest, packets[r].uid>> \in Flows
            /\ <<packets[p0].source, packets[p0].dest, packets[p0].uid>> \in Flows
        BY <1>2 DEF IInv, FromFlows
      <4> DEFINE f == <<packets[r].source, packets[r].dest, packets[r].uid>>
                 g == <<packets[p0].source, packets[p0].dest, packets[p0].uid>>
      <4>2. f[3] = g[3] /\ f[2] = packets[r].dest /\ g[2] = packets[p0].dest
        BY <2>5, <3>1
      <4> HIDE DEF f, g
      <4>3. f \in Flows /\ g \in Flows
        BY <4>1 DEF f, g
      <4> QED
        BY <4>2, <4>3, FlowsAssumption
    <3>3. delivered[r] > 0
      BY <2>9, <3>1, <3>2
    <3>4. CASE r # p0
      BY <2>5, <2>11, <2>12, <2>14, <3>1, <3>3, <3>4 DEF Gone, AnotherOfItsUid
    <3> QED
      BY <3>3, <3>4
  <2> HIDE DEF q, p0, n, u
  <2>15. Remembered'
    <3> SUFFICES ASSUME NEW p \in Made, NEW d, d = packets[p].dest
                 PROVE  /\ delivered'[p] > 0 => p \in Pkts(m_queue'[d]) \/ Gone(p)'
                        /\ delivered'[p] > 1 => Gone(p)' \/ packets[p].id = 0
      BY <2>11 DEF Remembered, Pkts
    <3>1. CASE p = p0
      <4>1. p0 \in Pkts(m_queue'[n]) \/ Gone(p0)'
        <5>1. CASE Large /\ u \in queuelist[n] /\ m_queue' = m_queue
          BY <1>2, <2>10, <2>13, <2>14, <5>1
        <5>2. CASE n \in Ends(p0) => <<n, p0>> \in dropped'
          BY <2>9, <2>11, <5>2 DEF Gone
        <5> QED
          BY <2>2, <5>1, <5>2
      <4>2. delivered'[p0] > 1 => Gone(p0)' \/ packets[p0].id = 0
        BY <1>2, <2>7, <2>8, <2>10, <2>13
      <4> QED
        BY <2>9, <3>1, <4>1, <4>2
    <3>2. CASE p # p0
      <4>1. d \in Nodes /\ d \in Ends(p)
        BY PacketEnds DEF IInv, Ends
      <4>2. /\ delivered[p] > 0 => p \in Pkts(m_queue[d]) \/ Gone(p)
            /\ delivered[p] > 1 => Gone(p) \/ packets[p].id = 0
        BY DEF IInv, Remembered
      <4>3. p \in Pkts(m_queue[d]) => p \in Pkts(m_queue'[d]) \/ Gone(p)'
        BY <2>2, <2>11, <4>1 DEF Kept, Gone
      <4> QED
        BY <2>7, <2>13, <3>2, <4>2, <4>3
    <3> QED
      BY <3>1, <3>2
  <2>16. Listed'
    <3> SUFFICES ASSUME NEW x \in Nodes, NEW v \in queuelist'[x]
                 PROVE  \E p \in Made : /\ packets[p].uid = v
                                        /\ packets[p].dest # x \/ delivered'[p] > 0
      BY <2>11 DEF Listed
    <3>1. CASE v \in queuelist[x]
      BY <2>12, <3>1 DEF IInv, Listed
    <3>2. CASE v \notin queuelist[x]
      <4>1. v = u
        BY <2>6, <3>2
      <4> QED
        BY <1>2, <2>5, <2>7, <4>1
    <3> QED
      BY <3>1, <3>2
  <2> QED
    BY <1>1, <1>2, <1>3, <1>4, <1>5, <2>2, <2>3, <2>4, <2>6, <2>7, <2>15, <2>16, OldTypes,
       SoundStep
<1> QED
  BY <1>6, <1>7

\* A new packet gets an id that no packet has but those that may clash with it.
LEMMA OriginateStep ==
  ASSUME IInv, NEW n, NEW d, NEW u, <<n, d, u>> \in Flows, Originate(n, d, u) PROVE IInv'
<1> DEFINE L == Len(packets)
           count == m_dataPacketCounter'[n]
           id == GlobalPacketID(n, count)
           made == [source |-> n, dest |-> d, uid |-> u, id |-> id]
           new == [id |-> id, pkt |-> L + 1, hopCount |-> HopCount, hops |-> 0]
           q == m_queue[n] \cup {new}
<1> USE NumbersAssumption
<1>1. n \in Nodes /\ d \in Nodes /\ u \in Uids
  <2> DEFINE f == <<n, d, u>>
  <2>1. f[1] = n /\ f[2] = d /\ f[3] = u /\ f \in Flows
    OBVIOUS
  <2> HIDE DEF f
  <2> QED
    BY <2>1, FlowsAssumption DEF Uids
<1>2. /\ d # n /\ L < MaxPackets /\ m_dataPacketCounter[n] < MaxCount /\ CountPacket(n)
      /\ packets' = Append(packets, made)
      /\ delivered' = Append(delivered, 0) /\ Store(n, new, u)
      /\ UNCHANGED <<expired, m_hostContactTime, scheduled, radio, outOfRange>>
  BY DEF Originate, DoProposal, airVars
<1>3. CountsGrow /\ (n \notin wrapped' => count = m_dataPacketCounter[n] + 1)
  BY <1>1, <1>2, CountStep DEF IInv
<1>4. n \in Nat /\ count \in 0..(CounterMod - 1) /\ id \in Nat /\ made \in Packet
  <2>1. n \in Nat /\ count \in 0..(CounterMod - 1)
    BY <1>1, <1>3, NodesAssumption DEF CountsGrow
  <2>2. n % HostMod \in Nat
    BY <2>1
  <2>3. (n % HostMod) * CounterMod \in Nat
    BY <2>2
  <2>4. id \in Nat
    BY <2>1, <2>3 DEF GlobalPacketID
  <2> HIDE DEF id
  <2> QED
    BY <1>1, <2>1, <2>4 DEF Packet
<1>5. packets \in Seq(Packet) /\ L \in Nat /\ Made = 1..L
  BY LenProperties DEF IInv, TypeOK, Made
<1> HIDE DEF id
<1>6. /\ packets' \in Seq(Packet) /\ Len(packets') = L + 1
      /\ Made' = 1..(L + 1) /\ Made' = Made \cup {L + 1} /\ L + 1 \notin Made
      /\ packets'[L + 1] = made
      /\ \A p \in Made : packets'[p] = packets[p]
  <2>1. made \in Packet
    BY <1>4
  <2> HIDE DEF made
  <2>2. /\ packets' \in Seq(Packet) /\ Len(packets') = L + 1
        /\ packets'[L + 1] = made
        /\ \A p \in 1..L : packets'[p] = packets[p]
    BY <1>2, <1>5, <2>1, AppendProperties
  <2>3. Made' = 1..(L + 1)
    BY <2>2, LenProperties DEF Made
  <2> QED
    BY <1>5, <2>2, <2>3
<1>7. /\ delivered' \in [Made' -> 0..2] /\ delivered'[L + 1] = 0
      /\ \A p \in Made : delivered'[p] = delivered[p]
  <2>1. delivered \in [1..L -> 0..2]
    BY <1>5, OldTypes
  <2>2. delivered \in Seq(0..2) /\ Len(delivered) = L
    BY <1>5, <2>1, LenProperties
  <2>3. /\ delivered' \in Seq(0..2) /\ Len(delivered') = L + 1
        /\ \A i \in 1..L : delivered'[i] = delivered[i]
        /\ delivered'[L + 1] = 0
    BY <1>2, <1>5, <2>2, AppendProperties
  <2>4. delivered' \in [1..(L + 1) -> 0..2]
    BY <2>3, LenProperties
  <2> QED
    BY <1>5, <1>6, <2>3, <2>4
<1>8. new \in Entry /\ new.id = id /\ new.pkt = L + 1 /\ Within(new)
  <2>1. L + 1 \in 1..MaxPackets
    BY <1>2, <1>5
  <2> QED
    BY <1>4, <2>1 DEF Entry, Within
<1>9. Kept(n, q)
  BY <1>1, <1>2, <1>8, StoreKeeps DEF IInv
<1>10. /\ queuelist'[n] \subseteq queuelist[n] \cup {u}
       /\ \A x \in Nodes : x # n => queuelist'[x] = queuelist[x]
       /\ queuelist' \in [Nodes -> SUBSET Uids]
  BY <1>1, <1>2, StoreList DEF IInv
<1>11. \A e \in Copies' : e \in Copies \/ e = new
  <2>1. \A x \in Nodes : \A e \in m_queue'[x] : e \in m_queue[x] \/ e = new
    BY <1>9 DEF Kept
  <2> QED
    BY <1>2, <2>1 DEF Copies, DataMessages
<1>12. /\ packets'[L + 1].source = n /\ packets'[L + 1].dest = d
       /\ packets'[L + 1].uid = u /\ packets'[L + 1].id = id
  BY <1>6
<1> HIDE DEF count, new, made, q
<1>13. CopiesMade'
  BY <1>6, <1>8, <1>11 DEF IInv, CopiesMade
<1>14. Named'
  <2>1. \A e \in Copies' : e.id = packets'[e.pkt].id
    BY <1>6, <1>8, <1>11, <1>12 DEF IInv, CopiesMade, Named
  <2>2. ASSUME NEW p \in Made
        PROVE  \E c \in 0..(CounterMod - 1) :
                 /\ packets[p].id = GlobalPacketID(packets[p].source, c)
                 /\ packets[p].source \notin wrapped' =>
                      c <= m_dataPacketCounter'[packets[p].source]
    <3>1. PICK c \in 0..(CounterMod - 1) : CountOf(p, c)
      BY DEF IInv, Named
    <3>2. packets[p].source \in Nodes
      BY PacketEnds DEF IInv
    <3>3. m_dataPacketCounter[packets[p].source] \in Nat
          /\ m_dataPacketCounter'[packets[p].source] \in Nat /\ c \in Nat
      BY <1>3, <3>2 DEF IInv, TypeOK, CountsGrow
    <3> QED
      BY <1>3, <3>1, <3>2, <3>3 DEF CountOf, CountsGrow
  <2>3. id = GlobalPacketID(n, count) /\ count <= m_dataPacketCounter'[n]
    BY <1>4 DEF id, count
  <2>4. \A p \in Made' : \E c \in 0..(CounterMod - 1) :
          /\ packets'[p].id = GlobalPacketID(packets'[p].source, c)
          /\ packets'[p].source \notin wrapped' => c <= m_dataPacketCounter'[packets'[p].source]
    BY <1>4, <1>6, <1>12, <2>2, <2>3
  \* One id: one remainder of the host and one count, which for n is a new one.
  <2>5. ASSUME NEW p \in Made, packets[p].id = id
        PROVE  /\ packets[p].source % HostMod = n % HostMod
               /\ packets[p].source = n => n \in wrapped'
    <3> DEFINE src == packets[p].source
    <3>1. PICK c \in 0..(CounterMod - 1) : CountOf(p, c)
      BY DEF IInv, Named
    <3>2. src \in Nodes /\ src \in Nat
      BY PacketEnds, NodesAssumption DEF IInv
    <3>3. src % HostMod \in Nat /\ n % HostMod \in Nat
      BY <1>4, <3>2
    <3>4. (src % HostMod) * CounterMod + c = (n % HostMod) * CounterMod + count
      BY <2>3, <2>5, <3>1 DEF CountOf, GlobalPacketID
    <3>5. c \in Nat /\ c < CounterMod /\ count \in Nat /\ count < CounterMod
          /\ CounterMod \in Nat \ {0}
      BY <1>4
    <3> HIDE DEF src
    <3>6. src % HostMod = n % HostMod /\ c = count
      BY ONLY <3>3, <3>4, <3>5, IdsDiffer
    <3>7. ASSUME src = n, n \notin wrapped' PROVE FALSE
      <4>1. c <= m_dataPacketCounter[n]
        BY <1>3, <3>1, <3>7 DEF CountOf, CountsGrow, src
      <4>2. m_dataPacketCounter[n] \in Nat
        BY <1>1 DEF IInv, TypeOK
      <4> QED
        BY <1>3, <3>5, <3>6, <3>7, <4>1, <4>2
    <3> QED
      BY <3>6, <3>7 DEF src
  <2>6. \A p, r \in Made' : p # r /\ packets'[p].id = packets'[r].id =>
          /\ packets'[p].source % HostMod = packets'[r].source % HostMod
          /\ packets'[p].source = packets'[r].source => packets'[p].source \in wrapped'
    <3>1. \A p, r \in Made : p # r /\ packets[p].id = packets[r].id =>
            /\ packets[p].source % HostMod = packets[r].source % HostMod
            /\ packets[p].source = packets[r].source => packets[p].source \in wrapped'
      BY <1>3 DEF IInv, Named, MayClash, CountsGrow
    <3> SUFFICES ASSUME NEW p \in Made', NEW r \in Made', p # r,
                        packets'[p].id = packets'[r].id
                 PROVE  /\ packets'[p].source % HostMod = packets'[r].source % HostMod
                        /\ packets'[p].source = packets'[r].source =>
                             packets'[p].source \in wrapped'
      OBVIOUS
    <3>2. CASE p \in Made /\ r \in Made
      BY <1>6, <3>1, <3>2
    <3>3. CASE p = L + 1 /\ r \in Made
      BY <1>6, <1>12, <2>5, <3>3
    <3>4. CASE p \in Made /\ r = L + 1
      BY <1>6, <1>12, <2>5, <3>4
    <3> QED
      BY <1>6, <3>2, <3>3, <3>4
  <2> QED
    BY <2>1, <2>4, <2>6 DEF Named, CountOf, MayClash, GlobalPacketID
<1>15. FromFlows'
  BY <1>6, <1>12 DEF IInv, FromFlows
<1>16. HopsLeft'
  <2>1. \A e \in Copies : packets'[e.pkt].dest = packets[e.pkt].dest
    BY <1>6 DEF IInv, CopiesMade
  <2>2. ASSUME NEW x \in Nodes, NEW e \in m_queue'[x], x # packets'[e.pkt].dest PROVE Within(e)
    <3>1. CASE e = new
      BY <1>8, <3>1
    <3>2. CASE e \in m_queue[x]
      BY <2>1, <2>2, <3>2 DEF IInv, HopsLeft, Dest, Copies
    <3> QED
      BY <1>9, <3>1, <3>2 DEF Kept, q
  <2>3. \A s \in scheduled' : s.at # packets'[s.entry.pkt].dest => Within(s.entry)
    BY <1>2, <2>1 DEF IInv, HopsLeft, Dest, Copies
  <2>4. \A m \in DataMessages' :
          m.entry.hopCount >= 1 /\ m.entry.hops + m.entry.hopCount <= HopCount + 1
    BY <1>2 DEF IInv, HopsLeft, DataMessages
  <2> QED
    BY <2>2, <2>3, <2>4 DEF HopsLeft, Dest, Within
<1>17. dropped \subseteq dropped'
  BY <1>9 DEF Kept
<1>18. Remembered'
  <2>1. ASSUME NEW p \in Made, Gone(p) PROVE Gone(p)'
    BY <1>6, <1>7, <1>17, <2>1 DEF Gone, AnotherOfItsUid
  <2> SUFFICES ASSUME NEW p \in Made', NEW t, t = packets'[p].dest
               PROVE  /\ delivered'[p] > 0 => p \in Pkts(m_queue'[t]) \/ Gone(p)'
                      /\ delivered'[p] > 1 => Gone(p)' \/ packets'[p].id = 0
    BY DEF Remembered, Pkts
  <2>2. CASE p = L + 1
    BY <1>7, <2>2
  <2>3. CASE p \in Made
    <3>1. t = packets[p].dest /\ packets'[p].id = packets[p].id
      BY <1>6, <2>3
    <3>2. t \in Nodes /\ t \in Ends(p)
      BY <2>3, <3>1, PacketEnds DEF IInv, Ends
    <3>3. /\ delivered[p] > 0 => p \in Pkts(m_queue[t]) \/ Gone(p)
          /\ delivered[p] > 1 => Gone(p) \/ packets[p].id = 0
      BY <2>3, <3>1 DEF IInv, Remembered
    <3>4. p \in Pkts(m_queue[t]) => p \in Pkts(m_queue'[t]) \/ <<t, p>> \in dropped'
      BY <1>9, <3>2 DEF Kept
    <3>5. <<t, p>> \in dropped' => Gone(p)'
      BY DEF Gone
    <3> QED
      BY <1>7, <2>1, <2>3, <3>1, <3>3, <3>4, <3>5
  <2> QED
    BY <1>6, <2>2, <2>3
<1>19. Listed'
  <2> SUFFICES ASSUME NEW x \in Nodes, NEW v \in queuelist'[x]
               PROVE  \E p \in Made' : /\ packets'[p].uid = v
                                       /\ packets'[p].dest # x \/ delivered'[p] > 0
    BY DEF Listed
  <2>1. CASE v \in queuelist[x]
    <3>1. PICK p \in Made : packets[p].uid = v /\ (packets[p].dest # x \/ delivered[p] > 0)
      BY <2>1 DEF IInv, Listed
    <3> QED
      BY <1>6, <1>7, <3>1
  <2>2. CASE v \notin queuelist[x]
    BY <1>2, <1>6, <1>10, <1>12, <2>2
  <2> QED
    BY <2>1, <2>2
<1>20. TypeOK'
  <2>1. dropped' \subseteq Nodes \X Made'
    <3> SUFFICES ASSUME NEW z \in dropped' PROVE z \in Nodes \X Made'
      OBVIOUS
    <3>1. z \in dropped \/ \E e \in m_queue[n] \cup q : z = <<n, e.pkt>>
      BY <1>9 DEF Kept
    <3>2. dropped \subseteq Nodes \X Made
      BY DEF IInv, TypeOK
    <3>3. \A e \in m_queue[n] \cup q : e.pkt \in Made'
      BY <1>1, <1>6, <1>8, OldTypes DEF q
    <3> QED
      BY <1>1, <1>6, <3>1, <3>2, <3>3
  <2>2. expired' \in 0..Len(packets') /\ Len(packets') <= MaxPackets
    <3>1. expired' = expired /\ expired \in 0..L /\ L < MaxPackets
      BY <1>2, OldTypes
    <3> QED
      BY <1>5, <1>6, <3>1
  <2>3. /\ m_queue' \in [Nodes -> SUBSET Entry]
        /\ \A x \in Nodes : Cardinality(m_queue'[x]) <= QueueLength
    BY <1>9 DEF Kept
  <2>4. /\ m_hostContactTime' \in [Nodes -> SUBSET Nodes] /\ outOfRange' \in BOOLEAN
        /\ scheduled' \subseteq Send /\ radio' \subseteq Message
    BY <1>2 DEF IInv, TypeOK
  <2>5. m_dataPacketCounter' \in [Nodes -> 0..(CounterMod - 1)] /\ wrapped' \subseteq Nodes
    BY <1>3 DEF CountsGrow
  <2> QED
    BY <1>6, <1>7, <1>10, <2>1, <2>2, <2>3, <2>4, <2>5 DEF TypeOK
<1>21. Finite'
  BY <1>9 DEF Kept, Finite
<1> QED
  BY <1>13, <1>14, <1>15, <1>16, <1>18, <1>19, <1>20, <1>21 DEF IInv

\* In the initial states there are no packets.
LEMMA InitIInv == Init => IInv
<1> SUFFICES ASSUME Init PROVE IInv
  OBVIOUS
<1> USE NumbersAssumption, NodesAssumption DEF Init
<1>1. /\ packets \in Seq(Packet) /\ Len(packets) = 0 /\ Made = {}
  BY EmptySeq DEF Made
<1>2. IsFiniteSet({}) /\ Cardinality({}) = 0
  BY FS_EmptySet
<1>3. delivered \in [Made -> 0..2]
  BY <1>1
<1>4. TypeOK
  BY <1>1, <1>2, <1>3 DEF TypeOK
<1>5. Copies = {}
  BY DEF Copies, DataMessages
<1>6. Named /\ FromFlows
  BY <1>1, <1>5 DEF Named, FromFlows
<1>7. CopiesMade /\ Finite /\ HopsLeft /\ Remembered /\ Listed
  BY <1>1, <1>2, <1>5 DEF CopiesMade, Finite, HopsLeft, DataMessages, Remembered, Listed
<1> QED
  BY <1>4, <1>6, <1>7 DEF IInv

\* Every step keeps the invariant, that in which the nodes come to stay in range too.
LEMMA StepIInv == IInv /\ [Next \/ StayInRange]_vars => IInv'
<1> SUFFICES ASSUME IInv, [Next \/ StayInRange]_vars PROVE IInv'
  OBVIOUS
<1>1. CASE \E f \in Flows : Originate(f[1], f[2], f[3])
  <2>1. PICK f \in Flows : Originate(f[1], f[2], f[3])
    BY <1>1
  <2>2. f = <<f[1], f[2], f[3]>>
    BY FlowsAssumption
  <2> QED
    BY <2>1, <2>2, OriginateStep
<1>2. CASE \E n, d \in Nodes : RecvBeacon(n, d)
  BY <1>2, RecvBeaconStep
<1>3. CASE \E s \in scheduled : SendPacketFromQueue(s)
  BY <1>3, SendStep
<1>4. CASE \E m \in radio : Receive(m)
  BY <1>4, DeliverStep, RelayStep, RecvReplyStep, RecvReplyBackStep DEF Receive
<1>5. CASE \/ \E n, s \in Nodes : PeriodEnds(n, s)
           \/ Expire \/ StayInRange \/ \E m \in radio : Lose(m)
           \/ UNCHANGED vars
  BY <1>5, OtherSteps
<1> QED
  BY <1>1, <1>2, <1>3, <1>4, <1>5 DEF Next

-----------------------------------------------------------------------------
(* The theorems. *)

\* The invariant holds throughout.
LEMMA Invariance == Spec => []IInv
<1>1. Init => IInv
  BY InitIInv
<1>2. IInv /\ [Next]_vars => IInv'
  BY StepIInv
<1> QED
  BY <1>1, <1>2, PTL DEF Spec

\* The types, and no queue longer than its limit.
THEOREM TypeCorrect == Spec => []TypeOK
<1>1. IInv => TypeOK
  BY DEF IInv
<1> QED
  BY <1>1, Invariance, PTL

\* Wherever copies are, an id stands for one packet, save for the clashes that the
\* width of its two parts makes possible.
THEOREM UniqueIds == Spec => []OneIdOnePacket
<1>1. IInv => OneIdOnePacket
  BY DEF IInv, CopiesMade, Named, OneIdOnePacket
<1> QED
  BY <1>1, Invariance, PTL

\* No copy on the air has made more hops than the limit.
THEOREM Flood == Spec => []FloodLimit
<1>1. IInv => FloodLimit
  <2> SUFFICES ASSUME IInv, NEW m \in DataMessages PROVE m.entry.hops <= HopCount
    BY DEF FloodLimit
  <2>1. m.entry \in Entry
    BY DataEntry DEF IInv, DataMessages
  <2> QED
    BY <2>1, NumbersAssumption DEF IInv, HopsLeft, Entry
<1> QED
  BY <1>1, Invariance, PTL

\* A second delivery comes only after the destination dropped the packet or did not
\* store it as it knew its uid, or if Find does not see its id.
THEOREM NoDuplicates == Spec => []DuplicateOnlyAfterDrop
<1>1. IInv => DuplicateOnlyAfterDrop
  BY DEF IInv, Remembered, Gone, DuplicateOnlyAfterDrop
<1> QED
  BY <1>1, Invariance, PTL
=============================================================================
