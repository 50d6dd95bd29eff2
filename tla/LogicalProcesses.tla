-------------------------- MODULE LogicalProcesses --------------------------
(***************************************************************************)
(* What a parallel simulation promises, whatever its ranks do to keep in   *)
(* step: each logical process runs its events in the order of their times, *)
(* as if it knew of every packet that the others have already sent it.     *)
(* DistributedSimulatorImpl (module GrantedTimeWindow) and                 *)
(* NullMessageSimulatorImpl (module NullMessage) implement it.             *)
(***************************************************************************)
EXTENDS Naturals

CONSTANT Process

VARIABLES
  now,        \* the simulation time of each process
  agenda,     \* the times of its pending events
  underWay,   \* the receive times of the packets on their way to it
  returned    \* the processes whose Run has returned

lpVars == <<now, agenda, underWay, returned>>

Init ==
  /\ now = [p \in Process |-> 0]
  /\ agenda \in [Process -> SUBSET Nat]
  /\ underWay = [p \in Process |-> {}]
  /\ returned = {}

\* p goes on to its next event: nothing else it has to do comes before, packets
\* that have not reached it included.  Other events may be due at that time too.
Execute(p) ==
  /\ p \notin returned
  /\ \E t \in agenda[p] :
       /\ now[p] <= t
       /\ \A u \in agenda[p] \cup underWay[p] : t <= u
       /\ now' = [now EXCEPT ![p] = t]
       /\ \/ agenda' = agenda
          \/ agenda' = [agenda EXCEPT ![p] = @ \ {t}]
  /\ UNCHANGED <<underWay, returned>>

\* The event of p schedules others, and sends packets: not into the past of the
\* process that gets them.
Handle(p) ==
  /\ p \notin returned
  /\ agenda' = [agenda EXCEPT ![p] = @ \cup agenda'[p]]
  /\ \A t \in agenda'[p] \ agenda[p] : now[p] <= t
  /\ \/ UNCHANGED underWay
     \/ \E q \in Process \ {p} : \E t \in underWay'[q] :
          /\ now[p] <= t /\ now[q] <= t
          /\ underWay' = [underWay EXCEPT ![q] = @ \cup {t}]
  /\ UNCHANGED <<now, returned>>

\* A packet reaches p; others may be on their way for the same time.
Receive(p) ==
  /\ p \notin returned
  /\ \E t \in underWay[p] :
       /\ agenda' = [agenda EXCEPT ![p] = @ \cup {t}]
       /\ \/ underWay' = underWay
          \/ underWay' = [underWay EXCEPT ![p] = @ \ {t}]
  /\ UNCHANGED <<now, returned>>

Return(p) ==
  /\ returned' = returned \cup {p}
  /\ UNCHANGED <<now, agenda, underWay>>

Next == \E p \in Process : Execute(p) \/ Handle(p) \/ Receive(p) \/ Return(p)

Spec == Init /\ [][Next]_lpVars
=============================================================================
