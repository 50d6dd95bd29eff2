----------------------------- MODULE EventKeys -----------------------------
(***************************************************************************)
(* The order of the pending events: Scheduler::EventKey and its operator < *)
(* (core/model/scheduler.h).  The four event lists of the simulator (list, *)
(* map, heap, calendar) all hand out the least event under this order;     *)
(* modules that only need that much keep the pending events as a set of    *)
(* records with the fields ts and uid.                                     *)
(***************************************************************************)
EXTENDS Naturals

\* a < b: by time stamp, and in the order of the unique ids at equal times.
Before(a, b) ==
  \/ a.ts < b.ts
  \/ a.ts = b.ts /\ a.uid < b.uid

\* Mutant: equal times in any order.
IsNext_ByTime(e, S) == e \in S /\ \A f \in S : e.ts <= f.ts

\* e is the event PeekNext and RemoveNext return for the pending events S.
IsNext(e, S) == e \in S /\ \A f \in S \ {e} : Before(e, f)
=============================================================================
