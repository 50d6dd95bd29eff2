------------------------------ MODULE TestRunner ------------------------------
(***************************************************************************)
(* test.py: run_tests dispatches a job for each test to worker threads     *)
(* (worker_thread.run) through input_queue, and takes their results from   *)
(* output_queue; an interrupt makes the workers hand their jobs back.      *)
(*                                                                         *)
(* The model begins where the list of tests is known and the threads are   *)
(* started.  Jobs are numbered in the order in which they are dispatched.  *)
(***************************************************************************)
EXTENDS Integers, Sequences, FiniteSets

CONSTANTS
  Worker,      \* the worker threads, one per processor
  NJobs,       \* jobs, total_tests: how many tests are dispatched
  Skipped,     \* the tests with is_skip
  Examples,    \* the tests with is_example or is_pyexample
  ExitCodes,   \* with which a test process exits
  Signals      \* by which it may be killed

Job == 1 .. NJobs
Break == 0     \* the special job that tells a worker to exit

ASSUME WorkerAssumption == IsFiniteSet(Worker) /\ Worker # {}
ASSUME JobAssumption ==
  NJobs \in Nat /\ Skipped \subseteq Job /\ Examples \subseteq Job
ASSUME CodeAssumption == ExitCodes \subseteq Nat /\ Signals \subseteq Nat \ {0}

\* What a test process does: its exit code, whether its output can be decoded, and
\* whether it leaves a results file; whether that file is complete is left out.
Outcome == [code : ExitCodes \cup {-s : s \in Signals}, text : BOOLEAN, file : BOOLEAN]
NotRun == [code |-> 0, text |-> TRUE, file |-> FALSE]

VARIABLES
  pc,            \* main: dispatching, collecting, or at an end
  dispatched,    \* the jobs main has put in input_queue, those to break included
  input_queue, output_queue,
  worker, job,   \* where each worker is, and the job it took
  thread_exit,
  is_break,      \* the jobs marked by a worker that saw thread_exit
  returncode,
  taken,         \* the jobs main has taken from output_queue
  tally,         \* passed_tests, failed_tests, valgrind_errors, crashed_tests, skipped_tests
  results,       \* what main has written to xml_results_file
  status,        \* what run_tests returned
  ran, outcome   \* the tests whose process ended, and what it did

workerVars == <<worker, job, is_break, returncode, ran, outcome>>
mainVars == <<pc, dispatched, taken, tally, results, status>>
vars == <<mainVars, workerVars, input_queue, output_queue, thread_exit>>

Init ==
  /\ pc = "dispatch" /\ dispatched = 0
  /\ input_queue = <<>> /\ output_queue = <<>>
  /\ worker = [w \in Worker |-> "get"] /\ job = [w \in Worker |-> Break]
  /\ thread_exit = FALSE /\ is_break = {}
  /\ returncode = [j \in Job |-> 0]        \* FALSE, which equals 0
  /\ taken = {}
  /\ tally = [s \in {"PASS", "FAIL", "VALGR", "CRASH", "SKIP"} |-> 0]
  /\ results = {} /\ status = 1
  /\ ran = {} /\ outcome = [j \in Job |-> NotRun]

(***************************************************************************)
(* The worker threads.                                                     *)
(***************************************************************************)
Goto(w, from, to) == worker[w] = from /\ worker' = [worker EXCEPT ![w] = to]
Put(w) == output_queue' = Append(output_queue, job[w])

\* Mutant: a break job is not told from the others.
Get_NoBreak(w) ==
  /\ input_queue # <<>>
  /\ Goto(w, "get", "got")
  /\ job' = [job EXCEPT ![w] = Head(input_queue)]
  /\ input_queue' = Tail(input_queue)
  /\ UNCHANGED <<mainVars, is_break, returncode, ran, outcome, output_queue, thread_exit>>

\* A break job ends the thread.
Get(w) ==
  /\ input_queue # <<>>
  /\ Goto(w, "get", IF Head(input_queue) = Break THEN "exited" ELSE "got")
  /\ job' = [job EXCEPT ![w] = Head(input_queue)]
  /\ input_queue' = Tail(input_queue)
  /\ UNCHANGED <<mainVars, is_break, returncode, ran, outcome, output_queue, thread_exit>>

\* Mutant: the job is not marked.
Abandon_Unmarked(w) ==
  /\ thread_exit /\ Goto(w, "got", "get")
  /\ Put(w)
  /\ UNCHANGED <<mainVars, job, is_break, returncode, ran, outcome, input_queue, thread_exit>>

\* Mutant: the job is dropped.
Abandon_Dropped(w) ==
  /\ thread_exit /\ Goto(w, "got", "get")
  /\ is_break' = is_break \cup {job[w]}
  /\ UNCHANGED <<mainVars, job, returncode, ran, outcome, input_queue, output_queue, thread_exit>>

\* After an interrupt the job goes back, marked.
Abandon(w) ==
  /\ thread_exit /\ Goto(w, "got", "get")
  /\ is_break' = is_break \cup {job[w]}
  /\ Put(w)
  /\ UNCHANGED <<mainVars, job, returncode, ran, outcome, input_queue, thread_exit>>

Skip(w) ==
  /\ ~ thread_exit /\ job[w] \in Skipped /\ Goto(w, "got", "get")
  /\ Put(w)
  /\ UNCHANGED <<mainVars, job, is_break, returncode, ran, outcome, input_queue, thread_exit>>

Launch(w) ==
  /\ ~ thread_exit /\ job[w] \notin Skipped /\ Goto(w, "got", "launched")
  /\ UNCHANGED <<mainVars, job, is_break, returncode, ran, outcome, input_queue, output_queue,
                 thread_exit>>

\* run_job_synchronously returns 1 when the output cannot be decoded.
ReturnCode(o) == IF o.text THEN o.code ELSE 1

Report(w) ==
  /\ Goto(w, "launched", "get")
  /\ \E o \in Outcome :
       /\ outcome' = [outcome EXCEPT ![job[w]] = o]
       /\ returncode' = [returncode EXCEPT ![job[w]] = ReturnCode(o)]
  /\ ran' = ran \cup {job[w]}
  /\ Put(w)
  /\ UNCHANGED <<mainVars, job, is_break, input_queue, thread_exit>>

\* Popen raises (no more processes, no directory cwd), or a print of the output does:
\* the thread is gone, and the job with it.
Raise(w) ==
  /\ Goto(w, "launched", "died")
  /\ UNCHANGED <<mainVars, job, is_break, returncode, ran, outcome, input_queue, output_queue,
                 thread_exit>>

(***************************************************************************)
(* The main thread.                                                        *)
(***************************************************************************)

\* Mutant: the workers are told first.
Dispatch_BreakFirst ==
  /\ pc = "dispatch"
  /\ input_queue' = Append(input_queue,
       IF dispatched < Cardinality(Worker) THEN Break ELSE dispatched + 1 - Cardinality(Worker))
  /\ dispatched' = dispatched + 1
  /\ pc' = IF dispatched' = NJobs + Cardinality(Worker) THEN "collect" ELSE "dispatch"
  /\ UNCHANGED <<taken, tally, results, status, workerVars, output_queue, thread_exit>>

\* The tests, then a break job for each worker.
Dispatch ==
  /\ pc = "dispatch"
  /\ input_queue' = Append(input_queue, IF dispatched < NJobs THEN dispatched + 1 ELSE Break)
  /\ dispatched' = dispatched + 1
  /\ pc' = IF dispatched' = NJobs + Cardinality(Worker) THEN "collect" ELSE "dispatch"
  /\ UNCHANGED <<taken, tally, results, status, workerVars, output_queue, thread_exit>>

Status(j) ==
  CASE j \in Skipped      -> "SKIP"
    [] j \notin Skipped /\ returncode[j] = 0 -> "PASS"
    [] j \notin Skipped /\ returncode[j] = 1 -> "FAIL"
    [] j \notin Skipped /\ returncode[j] = 2 -> "VALGR"
    [] OTHER              -> "CRASH"

\* Only the results file of a suite that did not crash is copied.
FileIsCopied(j) == j \notin Examples \cup Skipped /\ returncode[j] \in {0, 1, 2}

\* What main writes of a job.
Entry(j) == [job |-> j, entry |-> IF FileIsCopied(j) THEN "file" ELSE Status(j)]

\* One round of the loop that collects the jobs.
Collect ==
  LET j == Head(output_queue) IN
  /\ pc = "collect" /\ Cardinality(taken) < NJobs /\ output_queue # <<>>
  /\ output_queue' = Tail(output_queue)
  /\ taken' = taken \cup {j}
  /\ tally' = IF j \in is_break THEN tally ELSE [tally EXCEPT ![Status(j)] = @ + 1]
  /\ IF j \notin is_break /\ FileIsCopied(j) /\ ~ outcome[j].file
     THEN pc' = "raised" /\ UNCHANGED results
     ELSE /\ UNCHANGED pc
          /\ results' = IF j \in is_break THEN results ELSE results \cup {Entry(j)}
  /\ UNCHANGED <<dispatched, status, workerVars, input_queue, thread_exit>>

\* All jobs are collected: main joins the threads, and returns.
Return ==
  /\ pc = "collect" /\ Cardinality(taken) = NJobs
  /\ \A w \in Worker : worker[w] \in {"exited", "died"}
  /\ pc' = "returned"
  /\ status' = IF tally["PASS"] + tally["SKIP"] = NJobs THEN 0 ELSE 1
  /\ UNCHANGED <<dispatched, taken, tally, results, workerVars, input_queue, output_queue, thread_exit>>

\* Control-C: sigint_hook.
Interrupt ==
  /\ pc \in {"dispatch", "collect"}
  /\ thread_exit' = TRUE
  /\ UNCHANGED <<mainVars, workerVars, input_queue, output_queue>>

(***************************************************************************)
(* The specification.  Fairness: a thread that can go on does, and tests   *)
(* end.  There is no limit on the time of a test.                          *)
(***************************************************************************)
Main == Dispatch \/ Collect \/ Return
Work(w) == Get(w) \/ Abandon(w) \/ Skip(w) \/ Launch(w) \/ Report(w)

Next == Main \/ Interrupt \/ \E w \in Worker : Work(w) \/ Raise(w)

Spec == Init /\ [][Next]_vars
FairSpec == Spec /\ WF_vars(Main) /\ \A w \in Worker : WF_vars(Work(w))

(***************************************************************************)
(* Properties.                                                             *)
(***************************************************************************)
Elements(q) == {q[k] : k \in DOMAIN q}
Distinct(q) == \A k, l \in DOMAIN q : k # l => q[k] # q[l] \/ q[k] = Break
Ended(w) == worker[w] \in {"exited", "died"}
Holds(w) == worker[w] \in {"got", "launched"}

\* The variables have these types.
TypeOK ==
  /\ pc \in {"dispatch", "collect", "raised", "returned"}
  /\ dispatched \in 0 .. (NJobs + Cardinality(Worker))
  /\ input_queue \in Seq(Job \cup {Break}) /\ output_queue \in Seq(Job)
  /\ worker \in [Worker -> {"get", "got", "launched", "exited", "died"}]
  /\ job \in [Worker -> Job \cup {Break}]
  /\ \A w \in Worker : Holds(w) => job[w] \in Job
  /\ thread_exit \in BOOLEAN /\ is_break \subseteq Job /\ taken \subseteq Job /\ ran \subseteq Job
  /\ returncode \in [Job -> Int] /\ outcome \in [Job -> Outcome \cup {NotRun}]
  /\ tally \in [{"PASS", "FAIL", "VALGR", "CRASH", "SKIP"} -> Nat]
  /\ results \subseteq
       [job : Job, entry : {"file", "PASS", "FAIL", "VALGR", "CRASH", "SKIP"}]
  /\ status \in {0, 1}

\* No job is lost, run twice or counted twice by threads that share the queues: once
\* dispatched it is in one place, in a queue, with a worker or taken.
InOnePlace ==
  /\ Distinct(input_queue) /\ Distinct(output_queue)
  /\ \A j \in Elements(input_queue) : j \notin Elements(output_queue)
  /\ \A j \in Elements(input_queue) \cup Elements(output_queue) : j \notin taken
  /\ \A w \in Worker : Holds(w) =>
       /\ job[w] \notin Elements(input_queue) \cup Elements(output_queue) \cup taken
       /\ \A v \in Worker \ {w} : Holds(v) => job[v] # job[w]
  /\ \A j \in Job : j <= dispatched =>
       \/ j \in Elements(input_queue) \cup Elements(output_queue) \cup taken
       \/ \E w \in Worker : job[w] = j /\ worker[w] \in {"got", "launched", "died"}

\* A worker goes home only when the other workers have no test left to take.
NoTestLeft ==
  (\E w \in Worker : worker[w] = "exited") =>
    dispatched >= NJobs /\ Elements(input_queue) \subseteq {Break}

\* run_tests returns 0 only if every test that is not to be skipped was run and
\* ended with code 0, and the results file has an entry for every test: an interrupted
\* run is no success, although the returncode of a job that was not run equals 0.  It
\* returns 1 only if a worker handed back a job after an interrupt, or a test ended with
\* another code or with output that cannot be decoded.
StatusIsTrue ==
  pc = "returned" =>
    /\ status = 0 =>
         /\ \A j \in Job \ Skipped : j \in ran /\ outcome[j].code = 0
         /\ \A j \in Job : \E x \in results : x.job = j /\ x.entry \in {"file", "PASS", "SKIP"}
    /\ status = 1 => is_break # {} \/ \E j \in ran : outcome[j].code # 0 \/ ~ outcome[j].text

\* Neither side waits for the other in vain: a worker waits for a job only while main is
\* still to put one in, for each has a break job of its own; and while main waits for a
\* result, not all workers have gone home.  One that died with its job has not: for that
\* job main does wait in vain.
NoOneWaitsInVain ==
  /\ \A w \in Worker : worker[w] = "get" /\ input_queue = <<>> => pc = "dispatch"
  /\ pc = "collect" /\ Cardinality(taken) < NJobs /\ output_queue = <<>> =>
       \E w \in Worker : worker[w] # "exited"

\* Main and the workers all come to an end, unless a worker died with its job.
Ends ==
  \/ <>(pc \in {"returned", "raised"} /\ \A w \in Worker : Ended(w))
  \/ <>(\E w \in Worker : worker[w] = "died")
=============================================================================
