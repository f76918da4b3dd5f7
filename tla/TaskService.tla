---------------------------- MODULE TaskService ----------------------------
(***************************************************************************)
(* What a caller of include/valiant/thread_pool.h may rely on, with the    *)
(* threads, the counters and the condition variable left out: a first-in   *)
(* first-out list of tasks, each run once, that can be closed and that     *)
(* goes away only when it is empty and nothing is running.                 *)
(*                                                                         *)
(* ThreadPool implements this specification (ThreadPool!Refinement).       *)
(***************************************************************************)
EXTENDS Naturals, Sequences

CONSTANT Tasks        \* the arguments callers hand to the service

VARIABLES pending,    \* tasks waiting to be run, oldest first
          running,    \* tasks being run
          finished,   \* tasks that were run to completion
          closed,     \* no further task is accepted
          gone        \* the service no longer exists

serviceVars == <<pending, running, finished, closed, gone>>

InService(k) ==
  \/ k \in running \cup finished
  \/ \E i \in 1..Len(pending) : pending[i] = k

ServiceInit ==
  /\ pending = << >>
  /\ running = {}
  /\ finished = {}
  /\ closed = FALSE
  /\ gone = FALSE

(* An open service takes a task it has not seen before. *)
Accept(k) ==
  /\ ~closed
  /\ ~InService(k)
  /\ pending' = Append(pending, k)
  /\ UNCHANGED <<running, finished, closed, gone>>

(* The oldest task starts; closing the service does not cancel it. *)
Start ==
  /\ ~gone
  /\ pending # << >>
  /\ running' = running \cup {Head(pending)}
  /\ pending' = Tail(pending)
  /\ UNCHANGED <<finished, closed, gone>>

Finish(k) ==
  /\ k \in running
  /\ running' = running \ {k}
  /\ finished' = finished \cup {k}
  /\ UNCHANGED <<pending, closed, gone>>

Close ==
  /\ closed' = TRUE
  /\ UNCHANGED <<pending, running, finished, gone>>

(* A closed service disappears, but never with work left in it. *)
Vanish ==
  /\ pending = << >>
  /\ running = {}
  /\ closed' = TRUE
  /\ gone' = TRUE
  /\ UNCHANGED <<pending, running, finished>>

ServiceNext ==
  \/ \E k \in Tasks : Accept(k) \/ Finish(k)
  \/ Start
  \/ Close
  \/ Vanish

ServiceSpec == ServiceInit /\ [][ServiceNext]_serviceVars
=============================================================================
