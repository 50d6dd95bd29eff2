--------------------------- MODULE TestRunnerProofs ---------------------------
(***************************************************************************)
(* Proofs about TestRunner, for any number of workers and of tests, of     *)
(* which any may be skipped, any exit codes and an interrupt at any time.  *)
(***************************************************************************)
EXTENDS TestRunner, SequenceTheorems, FiniteSetTheorems, TLAPS

(***************************************************************************)
(* The queues.                                                             *)
(***************************************************************************)

\* Behind a break job there are only break jobs.
BreaksLast(q) == \A k, l \in DOMAIN q : k < l /\ q[k] = Break => q[l] = Break

LEMMA AppendIsQueue ==
  ASSUME NEW S, NEW q \in Seq(S), NEW x \in S
  PROVE  /\ Append(q, x) \in Seq(S)
         /\ Len(q) \in Nat /\ DOMAIN q = 1..Len(q) /\ DOMAIN Append(q, x) = 1..(Len(q) + 1)
         /\ \A k \in 1..Len(q) : Append(q, x)[k] = q[k]
         /\ Append(q, x)[Len(q) + 1] = x
BY AppendProperties, LenProperties

LEMMA AppendElements ==
  ASSUME NEW S, NEW q \in Seq(S), NEW x \in S
  PROVE  Elements(Append(q, x)) = Elements(q) \cup {x}
<1>1. ASSUME NEW k \in 1..(Len(q) + 1) PROVE Append(q, x)[k] \in Elements(q) \cup {x}
  <2>1. k = Len(q) + 1 \/ k \in 1..Len(q)
    BY AppendIsQueue
  <2> QED
    BY <2>1, AppendIsQueue DEF Elements
<1>2. ASSUME NEW k \in 1..Len(q) PROVE q[k] \in Elements(Append(q, x))
  <2>1. k \in 1..(Len(q) + 1)
    BY AppendIsQueue
  <2> QED
    BY <2>1, AppendIsQueue DEF Elements
<1>3. x \in Elements(Append(q, x))
  <2>1. Len(q) + 1 \in 1..(Len(q) + 1)
    BY AppendIsQueue
  <2> QED
    BY <2>1, AppendIsQueue DEF Elements
<1> QED
  BY <1>1, <1>2, <1>3, AppendIsQueue DEF Elements

LEMMA AppendDistinct ==
  ASSUME NEW S, NEW q \in Seq(S), NEW x \in S, Distinct(q), x \notin Elements(q) \/ x = Break
  PROVE  Distinct(Append(q, x))
<1> DEFINE a == Append(q, x)
<1> SUFFICES ASSUME NEW k \in 1..(Len(q) + 1), NEW l \in 1..(Len(q) + 1), k # l
             PROVE  a[k] # a[l] \/ a[k] = Break
  BY AppendIsQueue DEF Distinct
<1>1. /\ Len(q) \in Nat /\ DOMAIN q = 1..Len(q) /\ a[Len(q) + 1] = x
      /\ \A i \in 1..Len(q) : a[i] = q[i]
  BY AppendIsQueue
<1> HIDE DEF a
<1>2. CASE k \in 1..Len(q) /\ l \in 1..Len(q)
  BY <1>1, <1>2 DEF Distinct
<1>3. CASE k = Len(q) + 1
  <2>1. l \in 1..Len(q)
    BY <1>1, <1>3
  <2> QED
    BY <1>1, <1>3, <2>1 DEF Elements
<1>4. CASE l = Len(q) + 1
  <2>1. k \in 1..Len(q)
    BY <1>1, <1>4
  <2> QED
    BY <1>1, <1>4, <2>1 DEF Elements
<1> QED
  BY <1>1, <1>2, <1>3, <1>4

LEMMA AppendBreaksLast ==
  ASSUME NEW S, NEW q \in Seq(S), NEW x \in S, BreaksLast(q), Break \notin Elements(q) \/ x = Break
  PROVE  BreaksLast(Append(q, x))
<1> DEFINE a == Append(q, x)
<1> SUFFICES ASSUME NEW k \in 1..(Len(q) + 1), NEW l \in 1..(Len(q) + 1), k < l, a[k] = Break
             PROVE  a[l] = Break
  BY AppendIsQueue DEF BreaksLast
<1>1. /\ Len(q) \in Nat /\ DOMAIN q = 1..Len(q) /\ a[Len(q) + 1] = x
      /\ \A i \in 1..Len(q) : a[i] = q[i]
  BY AppendIsQueue
<1> HIDE DEF a
<1>2. k \in 1..Len(q) /\ a[k] = q[k]
  BY <1>1
<1>3. CASE l \in 1..Len(q)
  BY <1>1, <1>2, <1>3 DEF BreaksLast
<1>4. CASE l = Len(q) + 1
  BY <1>1, <1>2, <1>4 DEF Elements
<1> QED
  BY <1>1, <1>3, <1>4

LEMMA TailIsQueue ==
  ASSUME NEW S, NEW q \in Seq(S), q # <<>>
  PROVE  /\ Tail(q) \in Seq(S) /\ Head(q) \in S /\ Head(q) = q[1]
         /\ Len(q) \in Nat \ {0} /\ DOMAIN q = 1..Len(q) /\ DOMAIN Tail(q) = 1..(Len(q) - 1)
         /\ \A k \in 1..(Len(q) - 1) : k + 1 \in 1..Len(q) /\ Tail(q)[k] = q[k + 1]
BY HeadTailProperties, LenProperties, ElementOfSeq, EmptySeq

LEMMA TailElements ==
  ASSUME NEW S, NEW q \in Seq(S), q # <<>>
  PROVE  Elements(q) = Elements(Tail(q)) \cup {Head(q)}
<1>1. ASSUME NEW k \in 1..Len(q) PROVE q[k] \in Elements(Tail(q)) \cup {Head(q)}
  <2>1. CASE k = 1
    BY <2>1, TailIsQueue
  <2>2. CASE k # 1
    <3>1. k - 1 \in 1..(Len(q) - 1) /\ (k - 1) + 1 = k
      BY <2>2, TailIsQueue
    <3>2. Tail(q)[k - 1] = q[k]
      BY <3>1, TailIsQueue
    <3> QED
      BY <3>1, <3>2, TailIsQueue DEF Elements
  <2> QED
    BY <2>1, <2>2
<1>2. ASSUME NEW k \in 1..(Len(q) - 1) PROVE Tail(q)[k] \in Elements(q)
  BY TailIsQueue DEF Elements
<1>3. Head(q) \in Elements(q)
  <2>1. 1 \in 1..Len(q)
    BY TailIsQueue
  <2> QED
    BY <2>1, TailIsQueue DEF Elements
<1> QED
  BY <1>1, <1>2, <1>3, TailIsQueue DEF Elements

LEMMA TailDistinct ==
  ASSUME NEW S, NEW q \in Seq(S), q # <<>>, Distinct(q)
  PROVE  Distinct(Tail(q)) /\ (Head(q) = Break \/ Head(q) \notin Elements(Tail(q)))
<1>1. ASSUME NEW k \in 1..(Len(q) - 1), NEW l \in 1..(Len(q) - 1), k # l
      PROVE  Tail(q)[k] # Tail(q)[l] \/ Tail(q)[k] = Break
  <2>1. k + 1 \in 1..Len(q) /\ l + 1 \in 1..Len(q) /\ k + 1 # l + 1
    BY <1>1, TailIsQueue
  <2> QED
    BY <2>1, TailIsQueue DEF Distinct
<1>2. ASSUME NEW k \in 1..(Len(q) - 1) PROVE Head(q) # Tail(q)[k] \/ Head(q) = Break
  <2>1. 1 \in 1..Len(q) /\ k + 1 \in 1..Len(q) /\ 1 # k + 1
    BY TailIsQueue
  <2> QED
    BY <2>1, TailIsQueue DEF Distinct
<1> QED
  BY <1>1, <1>2, TailIsQueue DEF Distinct, Elements

LEMMA TailBreaksLast ==
  ASSUME NEW S, NEW q \in Seq(S), q # <<>>, BreaksLast(q)
  PROVE  BreaksLast(Tail(q)) /\ (Head(q) = Break => Elements(Tail(q)) \subseteq {Break})
<1>1. ASSUME NEW k \in 1..(Len(q) - 1), NEW l \in 1..(Len(q) - 1), k < l, Tail(q)[k] = Break
      PROVE  Tail(q)[l] = Break
  <2>1. k + 1 \in 1..Len(q) /\ l + 1 \in 1..Len(q) /\ k + 1 < l + 1
    BY <1>1, TailIsQueue
  <2> QED
    BY <1>1, <2>1, TailIsQueue DEF BreaksLast
<1>2. ASSUME NEW k \in 1..(Len(q) - 1), Head(q) = Break PROVE Tail(q)[k] = Break
  <2>1. 1 \in 1..Len(q) /\ k + 1 \in 1..Len(q) /\ 1 < k + 1
    BY TailIsQueue
  <2> QED
    BY <1>2, <2>1, TailIsQueue DEF BreaksLast
<1> QED
  BY <1>1, <1>2, TailIsQueue DEF BreaksLast, Elements

(***************************************************************************)
(* Types.                                                                  *)
(***************************************************************************)

\* How far main has come.
Phase ==
  /\ pc = "dispatch" => dispatched < NJobs + Cardinality(Worker)
  /\ pc = "returned" => \A w \in Worker : Ended(w)

LEMMA Constants ==
  /\ Cardinality(Worker) \in Nat \ {0} /\ NJobs \in Nat /\ Break \notin Job
  /\ IsFiniteSet(Job) /\ Cardinality(Job) = NJobs
<1>1. Cardinality(Worker) \in Nat /\ Cardinality(Worker) # 0
  BY WorkerAssumption, FS_CardinalityType, FS_EmptySet
<1>2. NJobs \in Nat /\ 1 \in Int /\ NJobs \in Int
  BY JobAssumption
<1>3. IsFiniteSet(1..NJobs) /\ Cardinality(1..NJobs) = IF 1 > NJobs THEN 0 ELSE NJobs - 1 + 1
  BY <1>2, FS_Interval
<1> QED
  BY <1>1, <1>2, <1>3 DEF Job, Break

LEMMA ElementsType ==
  ASSUME TypeOK
  PROVE  Elements(input_queue) \subseteq Job \cup {Break} /\ Elements(output_queue) \subseteq Job
<1>1. input_queue \in Seq(Job \cup {Break}) /\ output_queue \in Seq(Job)
  BY DEF TypeOK
<1> QED
  BY <1>1, ElementOfSeq, LenProperties DEF Elements

LEMMA ReturnCodeType ==
  ASSUME NEW o \in Outcome
  PROVE  ReturnCode(o) \in Int
<1> DEFINE c == o.code
<1>1. c \in ExitCodes \cup {-s : s \in Signals}
  BY DEF Outcome
<1>2. ExitCodes \subseteq Nat /\ \A s \in Signals : s \in Nat
  BY CodeAssumption
<1> HIDE DEF c
<1>3. c \in Int
  <2>1. CASE c \in ExitCodes
    BY <1>2, <2>1
  <2>2. CASE c \in {-s : s \in Signals}
    <3>1. PICK s \in Signals : c = -s
      BY <2>2
    <3> QED
      BY <1>2, <3>1
  <2> QED
    BY <1>1, <2>1, <2>2
<1>4. ReturnCode(o) = c \/ ReturnCode(o) = 1
  BY DEF ReturnCode, c
<1> QED
  BY <1>3, <1>4

LEMMA StatusType ==
  ASSUME NEW j
  PROVE  Status(j) \in {"PASS", "FAIL", "VALGR", "CRASH", "SKIP"}
BY DEF Status

LEMMA InitTypes == Init => TypeOK /\ Phase
<1> SUFFICES ASSUME Init PROVE TypeOK /\ Phase
  OBVIOUS
<1>1. <<>> \in Seq(Job \cup {Break}) /\ <<>> \in Seq(Job)
  OBVIOUS
<1>2. outcome \in [Job -> Outcome \cup {NotRun}] /\ returncode \in [Job -> Int]
  BY DEF Init
<1>3. tally \in [{"PASS", "FAIL", "VALGR", "CRASH", "SKIP"} -> Nat]
  BY DEF Init
<1>4. /\ worker \in [Worker -> {"get", "got", "launched", "exited", "died"}]
      /\ job \in [Worker -> Job \cup {Break}]
      /\ \A w \in Worker : ~ Holds(w)
  BY DEF Init, Holds
<1>5. dispatched \in 0 .. (NJobs + Cardinality(Worker)) /\ Phase
  BY Constants DEF Init, Phase
<1> QED
  BY <1>1, <1>2, <1>3, <1>4, <1>5 DEF Init, TypeOK

\* A worker that puts its job into the output queue.
Puts(w) == Holds(w) /\ worker' = [worker EXCEPT ![w] = "get"] /\ Put(w)

LEMMA PutTypes ==
  ASSUME TypeOK, NEW w \in Worker, Puts(w)
  PROVE  /\ output_queue' \in Seq(Job) /\ job[w] \in Job
         /\ worker' \in [Worker -> {"get", "got", "launched", "exited", "died"}]
         /\ \A v \in Worker : Holds(v)' => Holds(v) /\ v # w
         /\ Elements(output_queue') = Elements(output_queue) \cup {job[w]}
<1>1. job[w] \in Job /\ output_queue \in Seq(Job)
  BY DEF TypeOK, Puts
<1>2. output_queue' = Append(output_queue, job[w])
  BY DEF Puts, Put
<1>3. output_queue' \in Seq(Job) /\ Elements(output_queue') = Elements(output_queue) \cup {job[w]}
  BY <1>1, <1>2, AppendIsQueue, AppendElements
<1> QED
  BY <1>1, <1>3 DEF TypeOK, Puts, Holds

LEMMA WorkPuts ==
  ASSUME TypeOK, NEW w \in Worker, Abandon(w) \/ Skip(w) \/ Report(w)
  PROVE  Puts(w)
BY DEF TypeOK, Abandon, Skip, Report, Puts, Put, Goto, Holds

LEMMA GetTypes ==
  ASSUME TypeOK, NEW w \in Worker, Get(w)
  PROVE  LET h == Head(input_queue) IN
         /\ h \in Job \cup {Break} /\ input_queue' \in Seq(Job \cup {Break})
         /\ Elements(input_queue) = Elements(input_queue') \cup {h}
         /\ job' = [job EXCEPT ![w] = h] /\ worker[w] = "get"
         /\ h = Break => worker' = [worker EXCEPT ![w] = "exited"]
         /\ h \in Job => worker' = [worker EXCEPT ![w] = "got"]
<1>1. input_queue \in Seq(Job \cup {Break}) /\ input_queue # <<>> /\ input_queue' = Tail(input_queue)
  BY DEF TypeOK, Get
<1>2. Head(input_queue) \in Job \cup {Break} /\ Tail(input_queue) \in Seq(Job \cup {Break})
  BY <1>1, TailIsQueue
<1>3. Elements(input_queue) = Elements(Tail(input_queue)) \cup {Head(input_queue)}
  BY <1>1, TailElements
<1> QED
  BY <1>1, <1>2, <1>3, Constants DEF Get, Goto

LEMMA CollectTypes ==
  ASSUME TypeOK, Collect
  PROVE  LET j == Head(output_queue) IN
         /\ j \in Job /\ output_queue' \in Seq(Job)
         /\ Elements(output_queue) = Elements(output_queue') \cup {j}
<1>1. output_queue \in Seq(Job) /\ output_queue # <<>> /\ output_queue' = Tail(output_queue)
  BY DEF TypeOK, Collect
<1> QED
  BY <1>1, TailIsQueue, TailElements

\* What Dispatch puts in.
NextJob == IF dispatched < NJobs THEN dispatched + 1 ELSE Break

LEMMA DispatchTypes ==
  ASSUME TypeOK, Phase, Dispatch
  PROVE  /\ NextJob \in Job \cup {Break} /\ input_queue' \in Seq(Job \cup {Break})
         /\ Elements(input_queue') = Elements(input_queue) \cup {NextJob}
         /\ dispatched \in Nat /\ dispatched' = dispatched + 1
         /\ dispatched' \in 0 .. (NJobs + Cardinality(Worker))
         /\ pc' = "dispatch" => dispatched' < NJobs + Cardinality(Worker)
<1>1. /\ dispatched \in Nat /\ dispatched < NJobs + Cardinality(Worker)
      /\ input_queue \in Seq(Job \cup {Break})
  BY Constants DEF TypeOK, Phase, Dispatch
<1>2. input_queue' = Append(input_queue, NextJob) /\ dispatched' = dispatched + 1
  BY DEF Dispatch, NextJob
<1>3. NextJob \in Job \cup {Break}
  BY <1>1, Constants DEF NextJob, Job
<1>4. pc' = "dispatch" => dispatched' # NJobs + Cardinality(Worker)
  BY DEF Dispatch
<1> QED
  BY <1>1, <1>2, <1>3, <1>4, Constants, AppendIsQueue, AppendElements

LEMMA NextTypes ==
  ASSUME TypeOK, Phase, [Next]_vars
  PROVE  TypeOK' /\ Phase'
<1>1. ASSUME NEW w \in Worker, Get(w) PROVE TypeOK' /\ Phase'
  <2>1. \A v \in Worker : Holds(v)' => job'[v] \in Job
    BY <1>1, GetTypes, Constants DEF TypeOK, Holds
  <2>2. ~ Ended(w)
    BY <1>1 DEF Get, Goto, Ended
  <2> QED
    BY <1>1, <2>1, <2>2, GetTypes, Constants DEF TypeOK, Phase, Get, Goto, mainVars, Ended
<1>2. ASSUME NEW w \in Worker, Abandon(w) PROVE TypeOK' /\ Phase'
  <2>1. Puts(w)
    BY <1>2, WorkPuts
  <2>2. ~ Ended(w)
    BY <1>2 DEF Abandon, Goto, Ended
  <2> QED
    BY <1>2, <2>1, <2>2, PutTypes DEF TypeOK, Phase, Abandon, mainVars, Ended
<1>3. ASSUME NEW w \in Worker, Skip(w) PROVE TypeOK' /\ Phase'
  <2>1. Puts(w)
    BY <1>3, WorkPuts
  <2>2. ~ Ended(w)
    BY <1>3 DEF Skip, Goto, Ended
  <2> QED
    BY <1>3, <2>1, <2>2, PutTypes DEF TypeOK, Phase, Skip, mainVars, Ended
<1>4. ASSUME NEW w \in Worker, Launch(w) PROVE TypeOK' /\ Phase'
  BY <1>4 DEF TypeOK, Phase, Launch, Goto, Holds, mainVars, Ended
<1>5. ASSUME NEW w \in Worker, Report(w) PROVE TypeOK' /\ Phase'
  <2>1. Puts(w)
    BY <1>5, WorkPuts
  <2>2. ~ Ended(w)
    BY <1>5 DEF Report, Goto, Ended
  <2>3. PICK o \in Outcome : /\ outcome' = [outcome EXCEPT ![job[w]] = o]
                             /\ returncode' = [returncode EXCEPT ![job[w]] = ReturnCode(o)]
    BY <1>5 DEF Report
  <2>4. ReturnCode(o) \in Int
    BY ReturnCodeType
  <2>5. outcome' \in [Job -> Outcome \cup {NotRun}] /\ returncode' \in [Job -> Int]
    BY <2>3, <2>4 DEF TypeOK
  <2> QED
    BY <1>5, <2>1, <2>2, <2>5, PutTypes DEF TypeOK, Phase, Report, mainVars, Ended
<1>6. ASSUME NEW w \in Worker, Raise(w) PROVE TypeOK' /\ Phase'
  BY <1>6 DEF TypeOK, Phase, Raise, Goto, Holds, mainVars, Ended
<1>7. CASE Dispatch
  <2>1. pc' \in {"dispatch", "collect"}
    BY <1>7 DEF Dispatch
  <2> QED
    BY <1>7, <2>1, DispatchTypes DEF TypeOK, Phase, Dispatch, workerVars, Holds
<1>8. CASE Collect
  <2> DEFINE j == Head(output_queue)
  <2>1. j \in Job /\ output_queue' \in Seq(Job)
    BY <1>8, CollectTypes
  <2>2. tally' \in [{"PASS", "FAIL", "VALGR", "CRASH", "SKIP"} -> Nat]
    BY <1>8, StatusType DEF TypeOK, Collect
  <2>4. results' \subseteq
          [job : Job, entry : {"file", "PASS", "FAIL", "VALGR", "CRASH", "SKIP"}]
    <3>1. CASE results' = results
      BY <3>1 DEF TypeOK
    <3>2. CASE results' # results
      <4>1. results' = results \cup {Entry(j)}
        BY <1>8, <3>2 DEF Collect
      <4>2. (IF FileIsCopied(j) THEN "file" ELSE Status(j))
              \in {"file", "PASS", "FAIL", "VALGR", "CRASH", "SKIP"}
        BY StatusType
      <4> QED
        BY <2>1, <4>1, <4>2 DEF TypeOK, Entry
    <3> QED
      BY <3>1, <3>2
  <2>5. pc' \in {"raised", "collect"} /\ taken' \subseteq Job
    BY <1>8, <2>1 DEF Collect, TypeOK
  <2> HIDE DEF j
  <2> QED
    BY <1>8, <2>1, <2>2, <2>4, <2>5 DEF TypeOK, Phase, Collect, workerVars, Holds
<1>9. CASE Return
  BY <1>9 DEF TypeOK, Phase, Return, workerVars, Holds, Ended
<1>10. CASE Interrupt
  BY <1>10 DEF TypeOK, Phase, Interrupt, workerVars, mainVars, Holds, Ended
<1>11. CASE UNCHANGED vars
  BY <1>11 DEF TypeOK, Phase, vars, workerVars, mainVars, Holds, Ended
<1> QED
  BY <1>1, <1>2, <1>3, <1>4, <1>5, <1>6, <1>7, <1>8, <1>9, <1>10, <1>11 DEF Next, Main, Work

(***************************************************************************)
(* The places of the jobs.                                                 *)
(***************************************************************************)

\* A job that was not dispatched yet is nowhere.
Placed ==
  \A j \in Job : j > dispatched =>
    /\ j \notin Elements(input_queue) \cup Elements(output_queue) \cup taken
    /\ \A w \in Worker : Holds(w) => job[w] # j

LEMMA EmptyQueue == Elements(<<>>) = {} /\ Distinct(<<>>) /\ BreaksLast(<<>>)
BY DEF Elements, Distinct, BreaksLast

LEMMA InitPlaces == Init => InOnePlace /\ Placed
<1> SUFFICES ASSUME Init PROVE InOnePlace /\ Placed
  OBVIOUS
<1>1. Elements(input_queue) = {} /\ Elements(output_queue) = {} /\ taken = {} /\ dispatched = 0
  BY EmptyQueue DEF Init
<1>2. Distinct(input_queue) /\ Distinct(output_queue) /\ \A w \in Worker : ~ Holds(w)
  BY EmptyQueue DEF Init, Holds
<1>3. \A j \in Job : ~ (j <= 0)
  BY JobAssumption DEF Job
<1> QED
  BY <1>1, <1>2, <1>3 DEF InOnePlace, Placed

LEMMA GetPlaces ==
  ASSUME TypeOK, InOnePlace, Placed, NEW w \in Worker, Get(w)
  PROVE  InOnePlace' /\ Placed'
<1> DEFINE h == Head(input_queue)
           I == Elements(input_queue)
           N == Elements(input_queue')
           O == Elements(output_queue)
<1>1. /\ h \in Job \cup {Break} /\ I = N \cup {h} /\ worker[w] = "get"
      /\ job' = [job EXCEPT ![w] = h]
      /\ h = Break => worker' = [worker EXCEPT ![w] = "exited"]
      /\ h \in Job => worker' = [worker EXCEPT ![w] = "got"]
  BY GetTypes
<1>2. UNCHANGED <<output_queue, taken, dispatched>> /\ output_queue' = output_queue
  BY DEF Get, mainVars
<1>3. input_queue \in Seq(Job \cup {Break}) /\ input_queue # <<>> /\ input_queue' = Tail(input_queue)
  BY DEF TypeOK, Get
<1>4. Distinct(input_queue') /\ (h = Break \/ h \notin N)
  BY <1>3, TailDistinct DEF InOnePlace
<1>5. /\ worker \in [Worker -> {"get", "got", "launched", "exited", "died"}]
      /\ job \in [Worker -> Job \cup {Break}]
  BY DEF TypeOK
<1>6. Distinct(output_queue') /\ Elements(output_queue') = O
  BY <1>2 DEF InOnePlace
<1>7. ~ Holds(w) /\ \A v \in Worker \ {w} : /\ worker'[v] = worker[v] /\ job'[v] = job[v]
                                           /\ Holds(v)' = Holds(v)
  BY <1>1, <1>5, Constants DEF Holds
<1>8. Holds(w)' => h \in Job /\ job'[w] = h
  BY <1>1, <1>5, Constants DEF Holds
<1>9. h \in Job => job'[w] = h /\ worker'[w] = "got"
  BY <1>1, <1>5
<1> HIDE DEF h, I, N, O
<1>10. /\ \A j \in I : j \notin O
       /\ \A j \in I \cup O : j \notin taken
       /\ \A v \in Worker : Holds(v) =>
            /\ job[v] \notin I \cup O \cup taken
            /\ \A u \in Worker \ {v} : Holds(u) => job[u] # job[v]
       /\ \A j \in Job : j <= dispatched =>
            \/ j \in I \cup O \cup taken
            \/ \E v \in Worker : job[v] = j /\ worker[v] \in {"got", "launched", "died"}
       /\ \A j \in Job : j > dispatched =>
            j \notin I \cup O \cup taken /\ \A v \in Worker : Holds(v) => job[v] # j
  BY DEF InOnePlace, Placed, I, O
<1>11. ASSUME NEW v \in Worker, Holds(v)'
       PROVE  /\ job'[v] \notin N \cup O \cup taken
              /\ \A u \in Worker \ {v} : Holds(u)' => job'[u] # job'[v]
  <2>1. CASE v = w
    <3>1. h \in Job /\ job'[v] = h /\ h \in I /\ h \notin N
      BY <1>1, <1>4, <1>8, <1>11, <2>1, Constants
    <3>2. \A u \in Worker \ {w} : Holds(u)' => job'[u] # h
      BY <1>7, <1>10, <3>1
    <3> QED
      BY <1>10, <2>1, <3>1, <3>2
  <2>2. CASE v # w
    <3>1. Holds(v) /\ job'[v] = job[v]
      BY <1>7, <1>11, <2>2
    <3>2. \A u \in Worker \ {v} : Holds(u)' => job'[u] # job[v]
      <4> TAKE u \in Worker \ {v}
      <4>1. CASE u = w
        BY <1>1, <1>8, <1>10, <3>1, <4>1
      <4>2. CASE u # w
        BY <1>7, <1>10, <3>1, <4>2
      <4> QED
        BY <4>1, <4>2
    <3> QED
      BY <1>1, <1>10, <3>1, <3>2
  <2> QED
    BY <2>1, <2>2
<1>12. ASSUME NEW j \in Job, j <= dispatched
       PROVE  \/ j \in N \cup O \cup taken
              \/ \E v \in Worker : job'[v] = j /\ worker'[v] \in {"got", "launched", "died"}
  <2>1. CASE j = h
    BY <1>9, <2>1
  <2>2. CASE j # h
    <3>1. CASE j \in I \cup O \cup taken
      BY <1>1, <2>2, <3>1
    <3>2. CASE j \notin I \cup O \cup taken
      <4>1. PICK v \in Worker : job[v] = j /\ worker[v] \in {"got", "launched", "died"}
        BY <1>10, <1>12, <3>2
      <4>2. v # w
        BY <1>1, <4>1
      <4> QED
        BY <1>7, <4>1, <4>2
    <3> QED
      BY <3>1, <3>2
  <2> QED
    BY <2>1, <2>2
<1>13. ASSUME NEW j \in Job, j > dispatched
       PROVE  j \notin N \cup O \cup taken /\ \A v \in Worker : Holds(v)' => job'[v] # j
  <2>1. j \notin I /\ j # h
    BY <1>1, <1>10, <1>13
  <2> QED
    BY <1>1, <1>7, <1>8, <1>10, <1>13, <2>1
<1>14. InOnePlace'
  BY <1>1, <1>2, <1>4, <1>6, <1>10, <1>11, <1>12 DEF InOnePlace, N
<1>15. Placed'
  BY <1>2, <1>6, <1>13 DEF Placed, N
<1> QED
  BY <1>14, <1>15

LEMMA PutPlaces ==
  ASSUME TypeOK, InOnePlace, Placed, NEW w \in Worker, Puts(w),
         UNCHANGED <<input_queue, job, taken, dispatched>>
  PROVE  InOnePlace' /\ Placed'
<1> DEFINE I == Elements(input_queue)
           O == Elements(output_queue)
           P == Elements(output_queue')
           x == job[w]
<1>1. x \in Job /\ P = O \cup {x} /\ \A v \in Worker : Holds(v)' => Holds(v) /\ v # w
  BY PutTypes
<1>2. input_queue' = input_queue /\ job' = job /\ taken' = taken /\ dispatched' = dispatched
  OBVIOUS
<1>3. Elements(input_queue') = I /\ Distinct(input_queue')
  BY <1>2 DEF InOnePlace
<1>4. /\ worker \in [Worker -> {"get", "got", "launched", "exited", "died"}] /\ Holds(w)
      /\ worker' = [worker EXCEPT ![w] = "get"]
  BY DEF TypeOK, Puts
<1>5. /\ \A j \in I : j \notin O
      /\ \A j \in I \cup O : j \notin taken
      /\ \A v \in Worker : Holds(v) =>
           /\ job[v] \notin I \cup O \cup taken
           /\ \A u \in Worker \ {v} : Holds(u) => job[u] # job[v]
      /\ \A j \in Job : j <= dispatched =>
           \/ j \in I \cup O \cup taken
           \/ \E v \in Worker : job[v] = j /\ worker[v] \in {"got", "launched", "died"}
      /\ \A j \in Job : j > dispatched =>
           j \notin I \cup O \cup taken /\ \A v \in Worker : Holds(v) => job[v] # j
  BY DEF InOnePlace, Placed
<1>6. Distinct(output_queue')
  <2>1. output_queue \in Seq(Job) /\ output_queue' = Append(output_queue, x) /\ x \notin O
    BY <1>4, <1>5 DEF TypeOK, Puts, Put
  <2> QED
    BY <1>1, <2>1, AppendDistinct DEF InOnePlace
<1> HIDE DEF I, O, P, x
<1>7. ASSUME NEW j \in Job, j <= dispatched
      PROVE  \/ j \in I \cup P \cup taken
             \/ \E v \in Worker : job[v] = j /\ worker'[v] \in {"got", "launched", "died"}
  <2>1. CASE j \in I \cup O \cup taken
    BY <1>1, <2>1
  <2>2. CASE j \notin I \cup O \cup taken
    <3>1. PICK v \in Worker : job[v] = j /\ worker[v] \in {"got", "launched", "died"}
      BY <1>5, <1>7, <2>2
    <3>2. CASE v = w
      BY <1>1, <3>1, <3>2 DEF x
    <3>3. CASE v # w
      BY <1>4, <3>1, <3>3
    <3> QED
      BY <3>2, <3>3
  <2> QED
    BY <2>1, <2>2
<1>8. \A v \in Worker : Holds(v)' =>
        /\ job[v] \notin I \cup P \cup taken
        /\ \A u \in Worker \ {v} : Holds(u)' => job[u] # job[v]
  BY <1>1, <1>4, <1>5 DEF x
<1>9. x \notin I /\ x \notin taken
  BY <1>4, <1>5 DEF x
<1>10. InOnePlace'
  BY <1>1, <1>2, <1>3, <1>5, <1>6, <1>7, <1>8, <1>9 DEF InOnePlace, P
<1>11. \A j \in Job : j > dispatched =>
         j \notin I \cup P \cup taken /\ \A v \in Worker : Holds(v)' => job[v] # j
  BY <1>1, <1>4, <1>5 DEF x
<1>12. Placed'
  BY <1>2, <1>3, <1>11 DEF Placed, P
<1> QED
  BY <1>10, <1>12

LEMMA DispatchPlaces ==
  ASSUME TypeOK, Phase, InOnePlace, Placed, Dispatch
  PROVE  InOnePlace' /\ Placed'
<1> DEFINE x == NextJob
           I == Elements(input_queue)
           N == Elements(input_queue')
           O == Elements(output_queue)
<1>1. /\ x \in Job \cup {Break} /\ N = I \cup {x}
      /\ dispatched \in Nat /\ dispatched' = dispatched + 1
  BY DispatchTypes
<1>2. UNCHANGED <<output_queue, taken, worker, job>>
  BY DEF Dispatch, workerVars
<1>3. x = Break \/ (x \in Job /\ x = dispatched + 1)
  <2>1. x = Break \/ x = dispatched + 1
    BY DEF NextJob
  <2> QED
    BY <1>1, <2>1
<1>4. x = Break \/ (x \in Job /\ x > dispatched)
  BY <1>1, <1>3
<1>5. \A j \in Job : j <= dispatched + 1 => j <= dispatched \/ j = x
  <2> TAKE j \in Job
  <2>1. j \in Int /\ j <= NJobs
    BY Constants DEF Job
  <2>2. CASE dispatched < NJobs
    BY <1>1, <2>1, <2>2 DEF NextJob
  <2>3. CASE ~ (dispatched < NJobs)
    BY <1>1, <2>1, <2>3, Constants
  <2> QED
    BY <2>2, <2>3
<1>6. /\ \A j \in I : j \notin O
      /\ \A j \in I \cup O : j \notin taken
      /\ \A v \in Worker : Holds(v) =>
           /\ job[v] \notin I \cup O \cup taken
           /\ \A u \in Worker \ {v} : Holds(u) => job[u] # job[v]
      /\ \A j \in Job : j <= dispatched =>
           \/ j \in I \cup O \cup taken
           \/ \E v \in Worker : job[v] = j /\ worker[v] \in {"got", "launched", "died"}
      /\ \A j \in Job : j > dispatched =>
           j \notin I \cup O \cup taken /\ \A v \in Worker : Holds(v) => job[v] # j
  BY DEF InOnePlace, Placed
<1>7. Distinct(input_queue')
  <2>1. /\ input_queue \in Seq(Job \cup {Break}) /\ input_queue' = Append(input_queue, x)
        /\ Distinct(input_queue)
    BY DEF TypeOK, Dispatch, NextJob, InOnePlace
  <2>2. x \notin I \/ x = Break
    BY <1>4, <1>6
  <2> QED
    BY <1>1, <2>1, <2>2, AppendDistinct
<1>8. Distinct(output_queue') /\ Elements(output_queue') = O
  BY <1>2 DEF InOnePlace
<1>9. O \subseteq Job /\ taken \subseteq Job /\ \A v \in Worker : Holds(v) => job[v] \in Job
  BY ElementsType DEF TypeOK
<1> HIDE DEF x, I, N, O
<1>10. x \notin O /\ x \notin taken /\ \A v \in Worker : Holds(v) => job[v] # x
  BY <1>4, <1>6, <1>9, Constants
<1>11. \A v \in Worker : Holds(v)' = Holds(v)
  BY <1>2 DEF Holds
<1>12. ASSUME NEW j \in Job, j <= dispatched'
       PROVE  \/ j \in N \cup O \cup taken
              \/ \E v \in Worker : job[v] = j /\ worker[v] \in {"got", "launched", "died"}
  <2>1. j <= dispatched \/ j = x
    BY <1>1, <1>5, <1>12
  <2> QED
    BY <1>1, <1>6, <2>1
<1>13. ASSUME NEW j \in Job, j > dispatched'
       PROVE  j \notin N \cup O \cup taken /\ \A v \in Worker : Holds(v) => job[v] # j
  <2>1. j \in Int
    BY Constants DEF Job
  <2>2. j > dispatched
    BY <1>1, <1>13, <2>1
  <2>3. j # x
    BY <1>1, <1>3, <1>13, <2>1, Constants
  <2> QED
    BY <1>1, <1>6, <2>2, <2>3
<1>14. InOnePlace'
  BY <1>1, <1>2, <1>6, <1>7, <1>8, <1>10, <1>11, <1>12 DEF InOnePlace, N
<1>15. Placed'
  BY <1>2, <1>8, <1>11, <1>13 DEF Placed, N
<1> QED
  BY <1>14, <1>15

LEMMA CollectPlaces ==
  ASSUME TypeOK, InOnePlace, Placed, Collect
  PROVE  InOnePlace' /\ Placed'
<1> DEFINE x == Head(output_queue)
           I == Elements(input_queue)
           O == Elements(output_queue)
           P == Elements(output_queue')
<1>1. x \in Job /\ O = P \cup {x} /\ taken' = taken \cup {x}
  BY CollectTypes DEF Collect
<1>2. UNCHANGED <<input_queue, worker, job, dispatched>>
  BY DEF Collect, workerVars
<1>3. Distinct(output_queue') /\ x \notin P
  <2>1. /\ output_queue \in Seq(Job) /\ output_queue # <<>> /\ output_queue' = Tail(output_queue)
        /\ Distinct(output_queue)
    BY DEF TypeOK, Collect, InOnePlace
  <2> QED
    BY <1>1, <2>1, TailDistinct, Constants
<1>4. /\ \A j \in I : j \notin O
      /\ \A j \in I \cup O : j \notin taken
      /\ \A v \in Worker : Holds(v) =>
           /\ job[v] \notin I \cup O \cup taken
           /\ \A u \in Worker \ {v} : Holds(u) => job[u] # job[v]
      /\ \A j \in Job : j <= dispatched =>
           \/ j \in I \cup O \cup taken
           \/ \E v \in Worker : job[v] = j /\ worker[v] \in {"got", "launched", "died"}
      /\ \A j \in Job : j > dispatched =>
           j \notin I \cup O \cup taken /\ \A v \in Worker : Holds(v) => job[v] # j
  BY DEF InOnePlace, Placed
<1>5. Distinct(input_queue') /\ Elements(input_queue') = I
  BY <1>2 DEF InOnePlace
<1>6. \A v \in Worker : Holds(v)' = Holds(v)
  BY <1>2 DEF Holds
<1> HIDE DEF x, I, O, P
<1>7. I \cup P \cup taken' = I \cup O \cup taken
  BY <1>1
<1>8. \A j \in I \cup P : j \notin taken'
  BY <1>1, <1>3, <1>4
<1>9. InOnePlace'
  BY <1>1, <1>2, <1>3, <1>4, <1>5, <1>6, <1>7, <1>8 DEF InOnePlace, P
<1>10. Placed'
  BY <1>2, <1>4, <1>5, <1>6, <1>7 DEF Placed, P
<1> QED
  BY <1>9, <1>10

\* A step that moves no job: a worker that holds one may die, but keeps it.
LEMMA StillPlaces ==
  ASSUME InOnePlace, Placed, UNCHANGED <<input_queue, output_queue, job, taken, dispatched>>,
         \A v \in Worker : Holds(v)' => Holds(v),
         \A v \in Worker : worker[v] \in {"got", "launched", "died"}
                             => worker'[v] \in {"got", "launched", "died"}
  PROVE  InOnePlace' /\ Placed'
<1>1. /\ Elements(input_queue') = Elements(input_queue) /\ Distinct(input_queue')
      /\ Elements(output_queue') = Elements(output_queue) /\ Distinct(output_queue')
  BY DEF InOnePlace
<1> QED
  BY <1>1 DEF InOnePlace, Placed

LEMMA NextPlaces ==
  ASSUME TypeOK, Phase, InOnePlace, Placed, [Next]_vars
  PROVE  InOnePlace' /\ Placed'
<1>1. ASSUME NEW w \in Worker, Get(w) PROVE InOnePlace' /\ Placed'
  BY <1>1, GetPlaces
<1>2. ASSUME NEW w \in Worker, Abandon(w) \/ Skip(w) \/ Report(w) PROVE InOnePlace' /\ Placed'
  <2>1. Puts(w) /\ UNCHANGED <<input_queue, job, taken, dispatched>>
    BY <1>2, WorkPuts DEF Abandon, Skip, Report, mainVars
  <2> QED
    BY <2>1, PutPlaces
<1>3. ASSUME NEW w \in Worker, Launch(w) \/ Raise(w) PROVE InOnePlace' /\ Placed'
  <2>1. UNCHANGED <<input_queue, output_queue, job, taken, dispatched>>
    BY <1>3 DEF Launch, Raise, mainVars
  <2>2. \A v \in Worker : Holds(v)' => Holds(v)
    BY <1>3 DEF TypeOK, Launch, Raise, Goto, Holds
  <2>3. \A v \in Worker : worker[v] \in {"got", "launched", "died"}
                            => worker'[v] \in {"got", "launched", "died"}
    BY <1>3 DEF TypeOK, Launch, Raise, Goto
  <2> QED
    BY <2>1, <2>2, <2>3, StillPlaces
<1>4. CASE Dispatch
  BY <1>4, DispatchPlaces
<1>5. CASE Collect
  BY <1>5, CollectPlaces
<1>6. CASE Return \/ Interrupt \/ UNCHANGED vars
  <2>1. UNCHANGED <<input_queue, output_queue, job, taken, dispatched, worker>>
    BY <1>6 DEF Return, Interrupt, vars, workerVars, mainVars
  <2> QED
    BY <2>1, StillPlaces DEF Holds
<1> QED
  BY <1>1, <1>2, <1>3, <1>4, <1>5, <1>6 DEF Next, Main, Work

(***************************************************************************)
(* The order of input_queue.                                               *)
(***************************************************************************)
TestsFirst ==
  /\ BreaksLast(input_queue)
  /\ dispatched < NJobs => Break \notin Elements(input_queue)

LEMMA InitOrder == Init => TestsFirst /\ NoTestLeft
BY EmptyQueue DEF Init, TestsFirst, NoTestLeft

LEMMA StillOrder ==
  ASSUME TestsFirst, NoTestLeft, UNCHANGED <<input_queue, dispatched>>,
         \A v \in Worker : worker'[v] = "exited" => worker[v] = "exited"
  PROVE  TestsFirst' /\ NoTestLeft'
BY DEF TestsFirst, NoTestLeft, BreaksLast, Elements

LEMMA NextOrder ==
  ASSUME TypeOK, Phase, TestsFirst, NoTestLeft, [Next]_vars
  PROVE  TestsFirst' /\ NoTestLeft'
<1>1. ASSUME NEW w \in Worker, Get(w) PROVE TestsFirst' /\ NoTestLeft'
  <2> DEFINE h == Head(input_queue)
             I == Elements(input_queue)
             N == Elements(input_queue')
  <2>1. h \in Job \cup {Break} /\ I = N \cup {h} /\ dispatched' = dispatched
    BY <1>1, GetTypes DEF Get, mainVars
  <2>2. input_queue \in Seq(Job \cup {Break}) /\ input_queue # <<>> /\ input_queue' = Tail(input_queue)
    BY <1>1 DEF TypeOK, Get
  <2>3. BreaksLast(input_queue') /\ (h = Break => N \subseteq {Break})
    BY <2>2, TailBreaksLast DEF TestsFirst
  <2>4. h = Break \/ \A v \in Worker : worker'[v] = "exited" => worker[v] = "exited"
    BY <1>1, GetTypes, Constants DEF TypeOK
  <2>5. (dispatched < NJobs => Break \notin I) /\ dispatched \in Nat
    BY Constants DEF TestsFirst, TypeOK
  <2>6. (\E v \in Worker : worker[v] = "exited") => dispatched >= NJobs /\ I \subseteq {Break}
    BY DEF NoTestLeft
  <2> HIDE DEF h, I, N
  <2>7. h = Break => dispatched >= NJobs
    BY <2>1, <2>5, Constants
  <2>8. (\E v \in Worker : worker'[v] = "exited") => dispatched' >= NJobs /\ N \subseteq {Break}
    BY <2>1, <2>3, <2>4, <2>6, <2>7
  <2> QED
    BY <2>1, <2>3, <2>5, <2>8 DEF TestsFirst, NoTestLeft, N
<1>2. ASSUME NEW w \in Worker, Abandon(w) \/ Skip(w) \/ Report(w) \/ Launch(w) \/ Raise(w)
      PROVE  TestsFirst' /\ NoTestLeft'
  <2>1. UNCHANGED <<input_queue, dispatched>>
    BY <1>2 DEF Abandon, Skip, Report, Launch, Raise, mainVars
  <2>2. \A v \in Worker : worker'[v] = "exited" => worker[v] = "exited"
    BY <1>2 DEF TypeOK, Abandon, Skip, Report, Launch, Raise, Goto
  <2> QED
    BY <2>1, <2>2, StillOrder
<1>3. CASE Dispatch
  <2> DEFINE x == NextJob
             I == Elements(input_queue)
             N == Elements(input_queue')
  <2>1. /\ x \in Job \cup {Break} /\ N = I \cup {x}
        /\ dispatched \in Nat /\ dispatched' = dispatched + 1
    BY <1>3, DispatchTypes
  <2>2. worker' = worker /\ input_queue' = Append(input_queue, x)
    BY <1>3 DEF Dispatch, workerVars, NextJob
  <2>3. Break \notin I \/ x = Break
    BY <2>1, Constants DEF TestsFirst, NextJob
  <2>4. BreaksLast(input_queue')
    BY <2>1, <2>2, <2>3, AppendBreaksLast DEF TypeOK, TestsFirst
  <2>5. dispatched' < NJobs => Break \notin N
    <3>1. dispatched' < NJobs => dispatched < NJobs /\ Break \notin I
      BY <2>1, Constants DEF TestsFirst
    <3>2. dispatched < NJobs => x = dispatched + 1
      BY DEF NextJob
    <3>3. dispatched + 1 # Break
      BY <2>1 DEF Break
    <3> QED
      BY <2>1, <3>1, <3>2, <3>3
  <2>6. (\E v \in Worker : worker[v] = "exited") => dispatched' >= NJobs /\ N \subseteq {Break}
    <3>1. (\E v \in Worker : worker[v] = "exited") => dispatched >= NJobs /\ I \subseteq {Break}
      BY DEF NoTestLeft
    <3>2. dispatched >= NJobs => x = Break /\ dispatched' >= NJobs
      BY <2>1, Constants DEF NextJob
    <3> QED
      BY <2>1, <3>1, <3>2
  <2> QED
    BY <2>2, <2>4, <2>5, <2>6 DEF TestsFirst, NoTestLeft
<1>4. CASE Collect \/ Return \/ Interrupt \/ UNCHANGED vars
  <2>1. UNCHANGED <<input_queue, dispatched, worker>>
    BY <1>4 DEF Collect, Return, Interrupt, vars, workerVars, mainVars
  <2> QED
    BY <2>1, StillOrder
<1> QED
  BY <1>1, <1>2, <1>3, <1>4 DEF Next, Main, Work

(***************************************************************************)
(* Who waits for whom.                                                     *)
(***************************************************************************)

\* The jobs leave input_queue as they went in: first all tests, then the break jobs,
\* and each of those that left it has sent a worker home.
Left == dispatched - Len(input_queue)
JobAt(i) == IF i <= NJobs THEN i ELSE Break
Exited == {w \in Worker : worker[w] = "exited"}

Handed ==
  /\ Left >= 0
  /\ \A k \in 1 .. Len(input_queue) : input_queue[k] = JobAt(Left + k)
  /\ Cardinality(Exited) = IF Left <= NJobs THEN 0 ELSE Left - NJobs
  /\ pc # "dispatch" => dispatched = NJobs + Cardinality(Worker)

LEMMA ExitedFinite == IsFiniteSet(Exited) /\ Cardinality(Exited) \in Nat
BY WorkerAssumption, FS_Subset, FS_CardinalityType DEF Exited

LEMMA LeftType ==
  ASSUME TypeOK
  PROVE  dispatched \in Nat /\ Len(input_queue) \in Nat /\ Left \in Int /\ NJobs \in Nat
<1>1. input_queue \in Seq(Job \cup {Break}) /\ dispatched \in Nat
  BY Constants DEF TypeOK
<1> QED
  BY <1>1, LenProperties, Constants DEF Left

LEMMA InitHanded == Init => Handed
<1> SUFFICES ASSUME Init PROVE Handed
  OBVIOUS
<1>1. dispatched = 0 /\ Len(input_queue) = 0 /\ pc = "dispatch"
  BY EmptySeq DEF Init
<1>2. Exited = {}
  BY DEF Init, Exited
<1>3. Left = 0
  BY <1>1 DEF Left
<1> QED
  BY <1>1, <1>2, <1>3, FS_EmptySet, Constants DEF Handed

\* A step that leaves the queue and those who went home alone.
LEMMA StillHanded ==
  ASSUME Handed, UNCHANGED <<input_queue, dispatched>>, Exited' = Exited,
         pc' # "dispatch" => pc # "dispatch"
  PROVE  Handed'
BY DEF Handed, Left, JobAt

LEMMA GetHanded ==
  ASSUME TypeOK, Handed, NEW w \in Worker, Get(w)
  PROVE  Handed'
<1> DEFINE h == Head(input_queue)
           n == Len(input_queue)
<1>1. /\ input_queue \in Seq(Job \cup {Break}) /\ input_queue # <<>>
      /\ input_queue' = Tail(input_queue)
      /\ worker[w] = "get" /\ UNCHANGED <<dispatched, pc>>
  BY DEF TypeOK, Get, Goto, mainVars
<1>2. /\ h \in Job \cup {Break}
      /\ h = Break => worker' = [worker EXCEPT ![w] = "exited"]
      /\ h \in Job => worker' = [worker EXCEPT ![w] = "got"]
  BY GetTypes
<1>3. /\ n \in Nat \ {0} /\ h = input_queue[1] /\ Len(input_queue') = n - 1
      /\ \A k \in 1 .. (n - 1) : k + 1 \in 1 .. n /\ input_queue'[k] = input_queue[k + 1]
  BY <1>1, TailIsQueue, HeadTailProperties
<1>4. Left' = Left + 1 /\ Left \in Nat
  BY <1>1, <1>3, LeftType DEF Left, Handed
<1>5. h = JobAt(Left + 1)
  BY <1>3 DEF Handed
<1>6. \A k \in 1 .. Len(input_queue') : input_queue'[k] = JobAt(Left' + k)
  <2> SUFFICES ASSUME NEW k \in 1 .. (n - 1) PROVE input_queue'[k] = JobAt(Left' + k)
    BY <1>3
  <2>1. input_queue'[k] = JobAt(Left + (k + 1))
    BY <1>3 DEF Handed
  <2>2. Left + (k + 1) = Left' + k
    BY <1>3, <1>4
  <2> QED
    BY <2>1, <2>2
<1>7. Cardinality(Exited)' = IF Left' <= NJobs THEN 0 ELSE Left' - NJobs
  <2>1. CASE Left + 1 <= NJobs
    <3>1. h \in Job
      BY <1>4, <1>5, <2>1, Constants DEF JobAt, Job
    <3>2. Exited' = Exited
      BY <1>1, <1>2, <3>1 DEF Exited, TypeOK
    <3> QED
      BY <1>4, <2>1, <3>2, Constants DEF Handed
  <2>2. CASE ~ (Left + 1 <= NJobs)
    <3>1. h = Break
      BY <1>5, <2>2 DEF JobAt
    <3>2. Exited' = Exited \cup {w} /\ w \notin Exited
      BY <1>1, <1>2, <3>1 DEF Exited, TypeOK
    <3>3. Cardinality(Exited)' = Cardinality(Exited) + 1
      BY <3>2, ExitedFinite, FS_AddElement
    <3> QED
      BY <1>4, <2>2, <3>3, Constants DEF Handed
  <2> QED
    BY <2>1, <2>2
<1> QED
  BY <1>1, <1>4, <1>6, <1>7 DEF Handed

LEMMA DispatchHanded ==
  ASSUME TypeOK, Phase, Handed, Dispatch
  PROVE  Handed'
<1> DEFINE n == Len(input_queue)
<1>1. /\ NextJob \in Job \cup {Break} /\ dispatched' = dispatched + 1
      /\ input_queue \in Seq(Job \cup {Break}) /\ input_queue' = Append(input_queue, NextJob)
      /\ UNCHANGED worker
      /\ pc' # "dispatch" => dispatched' = NJobs + Cardinality(Worker)
  BY DispatchTypes DEF TypeOK, Dispatch, NextJob, workerVars
<1>2. /\ n \in Nat /\ Len(input_queue') = n + 1
      /\ \A k \in 1 .. n : input_queue'[k] = input_queue[k]
      /\ input_queue'[n + 1] = NextJob
  BY <1>1, AppendIsQueue, AppendProperties
<1>3. Left' = Left /\ Left + n = dispatched /\ Left \in Int
  <2>1. dispatched \in Nat /\ Left = dispatched - n /\ Left' = dispatched' - Len(input_queue')
    BY LeftType DEF Left
  <2>2. Left' = (dispatched + 1) - (n + 1)
    BY <1>1, <1>2, <2>1
  <2> HIDE DEF n
  <2> QED
    BY <1>2, <2>1, <2>2
<1>4. NextJob = JobAt(Left + (n + 1))
  <2>1. Left + (n + 1) = dispatched + 1
    BY <1>2, <1>3
  <2> QED
    BY <2>1, LeftType DEF NextJob, JobAt
<1>5. \A k \in 1 .. Len(input_queue') : input_queue'[k] = JobAt(Left' + k)
  <2> SUFFICES ASSUME NEW k \in 1 .. (n + 1) PROVE input_queue'[k] = JobAt(Left + k)
    BY <1>2, <1>3
  <2>1. CASE k = n + 1
    BY <1>2, <1>4, <2>1
  <2>2. CASE k # n + 1
    <3>1. k \in 1 .. n
      BY <1>2, <2>2
    <3> QED
      BY <1>2, <3>1 DEF Handed
  <2> QED
    BY <2>1, <2>2
<1>6. Exited' = Exited
  BY <1>1 DEF Exited
<1> QED
  BY <1>1, <1>3, <1>5, <1>6 DEF Handed

LEMMA NextHanded ==
  ASSUME TypeOK, Phase, Handed, [Next]_vars
  PROVE  Handed'
<1>1. ASSUME NEW w \in Worker, Abandon(w) \/ Skip(w) \/ Report(w) \/ Launch(w) \/ Raise(w)
      PROVE  Handed'
  <2>1. UNCHANGED <<input_queue, dispatched, pc>>
    BY <1>1 DEF Abandon, Skip, Report, Launch, Raise, mainVars
  <2>2. Exited' = Exited
    BY <1>1 DEF TypeOK, Exited, Abandon, Skip, Report, Launch, Raise, Goto
  <2> QED
    BY <2>1, <2>2, StillHanded
<1>2. CASE Collect \/ Return \/ Interrupt \/ UNCHANGED vars
  <2>1. UNCHANGED <<input_queue, dispatched, worker>> /\ (pc' # "dispatch" => pc # "dispatch")
    BY <1>2 DEF Collect, Return, Interrupt, vars, workerVars, mainVars
  <2>2. Exited' = Exited
    BY <2>1 DEF Exited
  <2> QED
    BY <2>1, <2>2, StillHanded
<1> QED
  BY <1>1, <1>2, GetHanded, DispatchHanded DEF Next, Main, Work

\* A worker that waits while all jobs were put in and taken out has missed no break job;
\* and a result main waits for is with a worker, or will be.
LEMMA WaitsForSome ==
  ASSUME TypeOK, InOnePlace, NoTestLeft, Handed
  PROVE  NoOneWaitsInVain
<1>1. ASSUME NEW w \in Worker, worker[w] = "get", input_queue = <<>>, pc # "dispatch" PROVE FALSE
  <2>1. dispatched = NJobs + Cardinality(Worker) /\ Len(input_queue) = 0
    BY <1>1, EmptySeq DEF Handed
  <2>2. Left = NJobs + Cardinality(Worker)
    BY <2>1, Constants DEF Left
  <2>3. Cardinality(Exited) = Cardinality(Worker)
    BY <2>2, Constants DEF Handed
  <2>4. Exited \subseteq Worker /\ w \notin Exited
    BY <1>1 DEF Exited
  <2>5. Cardinality(Exited) < Cardinality(Worker)
    <3>1. Exited # Worker
      BY <2>4
    <3> QED
      BY <2>4, <3>1, Constants, ExitedFinite, WorkerAssumption, FS_Subset
  <2> QED
    BY <2>3, <2>5, ExitedFinite
<1>2. ASSUME Cardinality(taken) < NJobs, output_queue = <<>>,
             \A w \in Worker : worker[w] = "exited"
      PROVE  FALSE
  <2>1. PICK j \in Job : j \notin taken
    <3>1. taken # Job
      BY <1>2, Constants
    <3> QED
      BY <3>1 DEF TypeOK
  <2>2. dispatched >= NJobs /\ Elements(input_queue) \subseteq {Break}
    BY <1>2, WorkerAssumption DEF NoTestLeft
  <2>3. j <= dispatched /\ j # Break
    BY <2>2, Constants, LeftType DEF Job
  <2>4. j \in Elements(input_queue) \cup Elements(output_queue)
    BY <1>2, <2>1, <2>3 DEF InOnePlace
  <2> QED
    BY <1>2, <2>2, <2>3, <2>4, EmptyQueue
<1> QED
  BY <1>1, <1>2 DEF NoOneWaitsInVain

(***************************************************************************)
(* The results.                                                            *)
(***************************************************************************)

\* A job that comes back was run, skipped or marked; a returncode is that of the
\* process that was run.
Reported ==
  /\ \A j \in Elements(output_queue) \cup taken : j \in is_break \cup Skipped \cup ran
  /\ \A j \in ran : outcome[j] \in Outcome /\ returncode[j] = ReturnCode(outcome[j])

\* The jobs that count as a success.
Good == {j \in taken \ is_break : Status(j) \in {"PASS", "SKIP"}}

\* The tally counts them, and what was taken is in the results.
Counted ==
  /\ tally["PASS"] + tally["SKIP"] = Cardinality(Good)
  /\ pc # "raised" => \A j \in taken \ is_break : Entry(j) \in results

LEMMA InitResults == Init => Reported /\ Counted /\ StatusIsTrue
<1> SUFFICES ASSUME Init PROVE Reported /\ Counted /\ StatusIsTrue
  OBVIOUS
<1>1. Elements(output_queue) = {} /\ taken = {} /\ results = {} /\ Good = {}
  BY EmptyQueue DEF Init, Good
<1>2. tally["PASS"] = 0 /\ tally["SKIP"] = 0
  BY DEF Init
<1> QED
  BY <1>1, <1>2, FS_EmptySet DEF Init, Reported, Counted, StatusIsTrue

\* What no step changes: the results of the jobs that were taken.
LEMMA TakenStays ==
  ASSUME TypeOK, InOnePlace, Counted, NEW w \in Worker, Holds(w),
         UNCHANGED <<pc, taken, tally, results>>,
         is_break' = is_break \/ is_break' = is_break \cup {job[w]},
         \A j \in Job : j # job[w] => returncode'[j] = returncode[j] /\ outcome'[j] = outcome[j]
  PROVE  Counted'
<1>1. job[w] \notin taken /\ taken \subseteq Job
  BY DEF InOnePlace, TypeOK
<1>2. \A j \in taken : Status(j)' = Status(j) /\ Entry(j)' = Entry(j)
  BY <1>1 DEF Status, Entry, FileIsCopied
<1>3. Good' = Good
  BY <1>1, <1>2 DEF Good
<1> QED
  BY <1>2, <1>3 DEF Counted

LEMMA StillResults ==
  ASSUME Reported, Counted,
         UNCHANGED <<output_queue, is_break, taken, ran, outcome, returncode, tally, results>>,
         pc = "raised" => pc' = "raised"
  PROVE  Reported' /\ Counted'
<1>1. Good' = Good /\ Elements(output_queue') = Elements(output_queue)
  BY DEF Good, Status
<1>2. \A j \in ran : ReturnCode(outcome'[j]) = ReturnCode(outcome[j])
  OBVIOUS
<1>3. \A j : Entry(j)' = Entry(j)
  BY DEF Entry, Status, FileIsCopied
<1> QED
  BY <1>1, <1>2, <1>3 DEF Reported, Counted

LEMMA PutResults ==
  ASSUME TypeOK, InOnePlace, Reported, Counted,
         NEW w \in Worker, Abandon(w) \/ Skip(w) \/ Report(w)
  PROVE  Reported' /\ Counted'
<1> DEFINE x == job[w]
           O == Elements(output_queue)
<1>1. Puts(w) /\ x \in Job /\ Elements(output_queue') = O \cup {x}
  BY WorkPuts, PutTypes
<1>2. UNCHANGED <<pc, taken, tally, results>> /\ ran \subseteq Job
  BY DEF Abandon, Skip, Report, mainVars, TypeOK
<1>3. CASE Abandon(w)
  <2>1. UNCHANGED <<ran, outcome, returncode>> /\ is_break' = is_break \cup {x}
    BY <1>3 DEF Abandon
  <2>2. Counted'
    BY <1>1, <1>2, <2>1, TakenStays DEF Puts
  <2> QED
    BY <1>1, <1>2, <2>1, <2>2 DEF Reported
<1>4. CASE Skip(w)
  <2>1. UNCHANGED <<ran, outcome, returncode, is_break>> /\ x \in Skipped
    BY <1>4 DEF Skip
  <2>2. Counted'
    BY <1>1, <1>2, <2>1, TakenStays DEF Puts
  <2> QED
    BY <1>1, <1>2, <2>1, <2>2 DEF Reported
<1>5. CASE Report(w)
  <2>1. PICK o \in Outcome : /\ outcome' = [outcome EXCEPT ![x] = o]
                             /\ returncode' = [returncode EXCEPT ![x] = ReturnCode(o)]
    BY <1>5 DEF Report
  <2>2. is_break' = is_break /\ ran' = ran \cup {x}
    BY <1>5 DEF Report
  <2>3. /\ outcome'[x] = o /\ returncode'[x] = ReturnCode(o)
        /\ \A j \in Job : j # x => returncode'[j] = returncode[j] /\ outcome'[j] = outcome[j]
    BY <1>1, <2>1 DEF TypeOK
  <2>4. Counted'
    BY <1>1, <1>2, <2>2, <2>3, TakenStays DEF Puts
  <2>5. \A j \in ran' : outcome'[j] \in Outcome /\ returncode'[j] = ReturnCode(outcome'[j])
    <3> TAKE j \in ran'
    <3>1. CASE j = x
      BY <2>3, <3>1
    <3>2. CASE j # x
      <4>1. j \in ran /\ outcome'[j] = outcome[j] /\ returncode'[j] = returncode[j]
        BY <1>2, <2>2, <2>3, <3>2
      <4> QED
        BY <4>1 DEF Reported
    <3> QED
      BY <3>1, <3>2
  <2>6. \A j \in (O \cup {x}) \cup taken : j \in (is_break \cup Skipped) \cup ran'
    BY <2>2 DEF Reported
  <2> QED
    BY <1>1, <1>2, <2>2, <2>4, <2>5, <2>6 DEF Reported
<1> QED
  BY <1>3, <1>4, <1>5

LEMMA CollectResults ==
  ASSUME TypeOK, InOnePlace, Reported, Counted, Collect
  PROVE  Reported' /\ Counted'
<1> DEFINE j == Head(output_queue)
           O == Elements(output_queue)
           P == Elements(output_queue')
<1>1. j \in Job /\ O = P \cup {j} /\ taken' = taken \cup {j} /\ j \in O
  BY CollectTypes DEF Collect
<1>2. UNCHANGED <<is_break, ran, outcome, returncode, thread_exit>>
  BY DEF Collect, workerVars
<1>3. j \notin taken /\ j \in (is_break \cup Skipped) \cup ran
  BY <1>1 DEF InOnePlace, Reported
<1>4. tally' = IF j \in is_break THEN tally ELSE [tally EXCEPT ![Status(j)] = @ + 1]
  BY DEF Collect
<1>5. \/ pc' = "raised"
      \/ /\ pc' = pc
         /\ results' = IF j \in is_break THEN results ELSE results \cup {Entry(j)}
  BY DEF Collect
<1> HIDE DEF j, O, P
<1>6. Reported'
  <2>1. O \cup taken = P \cup taken'
    BY <1>1
  <2>2. \A i \in ran : ReturnCode(outcome'[i]) = ReturnCode(outcome[i])
    BY <1>2
  <2>3. \A i \in P \cup taken' : i \in (is_break \cup Skipped) \cup ran
    BY <2>1 DEF Reported, O
  <2> QED
    BY <1>2, <2>2, <2>3 DEF Reported, P
<1>7. \A i : Status(i)' = Status(i)
  BY <1>2 DEF Status
<1>8. tally'["PASS"] + tally'["SKIP"] = Cardinality(Good')
  <2> DEFINE p == tally["PASS"]
             k == tally["SKIP"]
  <2>1. p \in Nat /\ k \in Nat /\ p + k = Cardinality(Good)
    BY DEF TypeOK, Counted
  <2>2. tally \in [{"PASS", "FAIL", "VALGR", "CRASH", "SKIP"} -> Nat]
    BY DEF TypeOK
  <2>3. IsFiniteSet(Good) /\ j \notin Good
    <3>1. Good \subseteq Job
      BY DEF Good, TypeOK
    <3> QED
      BY <1>3, <3>1, Constants, FS_Subset DEF Good
  <2>4. CASE j \notin is_break /\ Status(j) \in {"PASS", "SKIP"}
    <3>1. Good' = Good \cup {j}
      BY <1>1, <1>2, <1>7, <2>4 DEF Good
    <3>2. Cardinality(Good') = p + k + 1
      BY <2>1, <2>3, <3>1, FS_AddElement
    <3>3. CASE Status(j) = "PASS"
      <4>1. tally'["PASS"] = p + 1 /\ tally'["SKIP"] = k
        BY <1>4, <2>2, <2>4, <3>3
      <4> QED
        BY <2>1, <3>2, <4>1
    <3>4. CASE Status(j) = "SKIP"
      <4>1. tally'["PASS"] = p /\ tally'["SKIP"] = k + 1
        BY <1>4, <2>2, <2>4, <3>4
      <4> QED
        BY <2>1, <3>2, <4>1
    <3> QED
      BY <2>4, <3>3, <3>4
  <2>5. CASE ~ (j \notin is_break /\ Status(j) \in {"PASS", "SKIP"})
    <3>1. Good' = Good
      BY <1>1, <1>2, <1>7, <2>5 DEF Good
    <3>2. tally'["PASS"] = p /\ tally'["SKIP"] = k
      BY <1>4, <2>2, <2>5, StatusType
    <3> QED
      BY <2>1, <3>1, <3>2
  <2> QED
    BY <2>4, <2>5
<1>9. Counted'
  <2>1. pc # "raised" /\ \A i : Entry(i)' = Entry(i)
    BY <1>2 DEF Collect, Entry, Status, FileIsCopied
  <2>2. ASSUME pc' # "raised", NEW i \in taken' \ is_break' PROVE Entry(i) \in results'
    <3>1. CASE i = j
      BY <1>2, <1>5, <2>2, <3>1
    <3>2. CASE i # j
      BY <1>1, <1>2, <1>5, <2>1, <2>2, <3>2 DEF Counted
    <3> QED
      BY <3>1, <3>2
  <2> QED
    BY <1>8, <2>1, <2>2 DEF Counted
<1> QED
  BY <1>6, <1>9

LEMMA NextResults ==
  ASSUME TypeOK, InOnePlace, Reported, Counted, [Next]_vars
  PROVE  Reported' /\ Counted'
<1>1. ASSUME NEW w \in Worker, Abandon(w) \/ Skip(w) \/ Report(w)
      PROVE  Reported' /\ Counted'
  BY <1>1, PutResults
<1>2. CASE Collect
  BY <1>2, CollectResults
<1>3. ASSUME NEW w \in Worker, Get(w) \/ Launch(w) \/ Raise(w)
      PROVE  Reported' /\ Counted'
  BY <1>3, StillResults DEF Get, Launch, Raise, mainVars
<1>4. CASE Dispatch \/ Return \/ Interrupt \/ UNCHANGED vars
  BY <1>4, StillResults DEF Dispatch, Return, Interrupt, vars, workerVars, mainVars
<1> QED
  BY <1>1, <1>2, <1>3, <1>4 DEF Next, Main, Work

\* When main returns, all jobs were taken; they are as many as the tally says only if
\* each of them passed or was skipped.
LEMMA ReturnIsTrue ==
  ASSUME TypeOK, Reported, Counted, Return
  PROVE  StatusIsTrue'
<1>1. UNCHANGED <<taken, is_break, ran, outcome, results>> /\ pc = "collect"
  BY DEF Return, workerVars
<1>2. taken = Job
  <2>1. taken \subseteq Job /\ Cardinality(taken) = Cardinality(Job)
    BY Constants DEF TypeOK, Return
  <2> QED
    BY <2>1, Constants, FS_Subset
<1>3. \A j \in Job : j \in (is_break \cup Skipped) \cup ran
  BY <1>2 DEF Reported
<1>4. \A j \in Job \ Skipped : Status(j) \in {"PASS", "SKIP"} <=> returncode[j] = 0
  BY DEF Status
<1>5. \A o \in Outcome : ReturnCode(o) = 0 <=> (o.text /\ o.code = 0)
  <2> TAKE o \in Outcome
  <2>1. o.text \in BOOLEAN
    BY DEF Outcome
  <2> QED
    BY <2>1 DEF ReturnCode
<1>6. \A j \in Job \ Skipped : j \notin is_break =>
        j \in ran /\ (returncode[j] = 0 <=> (outcome[j].text /\ outcome[j].code = 0))
  BY <1>3, <1>5 DEF Reported
<1>7. ASSUME status' = 0
      PROVE  /\ \A j \in Job \ Skipped : j \in ran /\ outcome[j].code = 0
             /\ \A j \in Job :
                  \E x \in results : x.job = j /\ x.entry \in {"file", "PASS", "SKIP"}
  <2>1. Cardinality(Good) = Cardinality(Job)
    BY <1>7, Constants DEF Return, Counted
  <2>2. Good = Job
    BY <2>1, Constants, FS_Subset DEF Good, TypeOK
  <2>3. \A j \in Job : j \in taken \ is_break /\ Status(j) \in {"PASS", "SKIP"}
    BY <2>2 DEF Good
  <2>4. \A j \in Job : Entry(j) \in results
    BY <1>1, <2>3 DEF Counted
  <2>5. \A j \in Job : Entry(j).job = j /\ Entry(j).entry \in {"file", "PASS", "SKIP"}
    BY <2>3 DEF Entry
  <2> QED
    BY <1>4, <1>6, <2>3, <2>4, <2>5
<1>8. ASSUME status' = 1, is_break = {}
      PROVE  \E j \in ran : outcome[j].code # 0 \/ ~ outcome[j].text
  <2>1. Cardinality(Good) # NJobs
    BY <1>8 DEF Return, Counted
  <2>2. Good # Job
    BY <2>1, Constants
  <2>3. PICK j \in Job : Status(j) \notin {"PASS", "SKIP"}
    BY <1>2, <1>8, <2>2 DEF Good
  <2>4. j \notin Skipped
    BY <2>3 DEF Status
  <2> QED
    BY <1>4, <1>6, <1>8, <2>3, <2>4
<1> QED
  BY <1>1, <1>7, <1>8 DEF StatusIsTrue

LEMMA NextStatus ==
  ASSUME TypeOK, Phase, Reported, Counted, StatusIsTrue, [Next]_vars
  PROVE  StatusIsTrue'
<1>1. ASSUME NEW w \in Worker, Work(w) \/ Raise(w) PROVE StatusIsTrue'
  <2>1. pc' = pc /\ ~ Ended(w)
    BY <1>1 DEF Work, Raise, Get, Abandon, Skip, Launch, Report, Goto, mainVars, Ended
  <2> QED
    BY <2>1 DEF Phase, StatusIsTrue
<1>2. CASE Dispatch \/ Collect
  BY <1>2 DEF Dispatch, Collect, StatusIsTrue
<1>3. CASE Return
  BY <1>3, ReturnIsTrue
<1>4. CASE Interrupt
  BY <1>4 DEF Interrupt, mainVars, workerVars, StatusIsTrue
<1>5. CASE UNCHANGED vars
  BY <1>5 DEF vars, mainVars, workerVars, StatusIsTrue
<1> QED
  BY <1>1, <1>2, <1>3, <1>4, <1>5 DEF Next, Main

(***************************************************************************)
(* The theorems.                                                           *)
(***************************************************************************)
IInv ==
  /\ TypeOK /\ Phase
  /\ InOnePlace /\ Placed
  /\ TestsFirst /\ NoTestLeft /\ Handed
  /\ Reported /\ Counted /\ StatusIsTrue

LEMMA Invariance == Spec => []IInv
<1>1. Init => IInv
  BY InitTypes, InitPlaces, InitOrder, InitHanded, InitResults DEF IInv
<1>2. IInv /\ [Next]_vars => IInv'
  BY NextTypes, NextPlaces, NextOrder, NextHanded, NextResults, NextStatus DEF IInv
<1> QED
  BY <1>1, <1>2, PTL DEF Spec

\* The type invariant of the test runner.
THEOREM TypeCorrect == Spec => []TypeOK
<1> IInv => TypeOK
  BY DEF IInv
<1> QED
  BY Invariance, PTL

\* No job is lost, run twice or counted twice: worker_thread.run and the loop of
\* run_tests that collects the results.
THEOREM EachJobOnce == Spec => []InOnePlace
<1> IInv => InOnePlace
  BY DEF IInv
<1> QED
  BY Invariance, PTL

\* No worker goes home while there is a test to take: run_tests puts the break jobs in
\* after all tests.
THEOREM LastOut == Spec => []NoTestLeft
<1> IInv => NoTestLeft
  BY DEF IInv
<1> QED
  BY Invariance, PTL

\* The threads of run_tests do not wait for each other for ever: for each worker there is
\* a break job, and for each result main waits for there is a worker, unless that died.
THEOREM SomeoneGoesOn == Spec => []NoOneWaitsInVain
<1> IInv => NoOneWaitsInVain
  BY WaitsForSome DEF IInv
<1> QED
  BY Invariance, PTL

\* The value run_tests returns tells whether all tests were run and passed, also after
\* an interrupt.
THEOREM TrueStatus == Spec => []StatusIsTrue
<1> IInv => StatusIsTrue
  BY DEF IInv
<1> QED
  BY Invariance, PTL

=============================================================================
