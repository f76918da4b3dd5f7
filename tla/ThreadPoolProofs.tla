-------------------------- MODULE ThreadPoolProofs --------------------------
(***************************************************************************)
(* Proofs about ThreadPool, for any threads, callers, tasks and limits.    *)
(*                                                                         *)
(* The argument: the counters equal what they count (CountsExact) because  *)
(* every action that fills or frees a slot, or links or unlinks a task,    *)
(* moves its counter with it; for that a slot must run a task exactly when *)
(* its program counter says so (JobMatchesPc).  A task is nowhere before   *)
(* it is pushed (NewNowhere), so it enters at one place, and every action  *)
(* only moves it on.  A pool that was freed is dead (FreedDead), so nobody *)
(* enters it again.                                                        *)
(***************************************************************************)
EXTENDS ThreadPool, FiniteSetTheorems, TLAPS

JobMatchesPc == \A t \in Threads : job[t] # NoTask <=> pc[t] = "running"

NewNowhere ==
  \A k \in Tasks : outcome[k] = "new" => k \notin Queued \cup Running \cup done

FreedDead == destroyer = "done" => dead

Inv ==
  /\ TypeOK
  /\ CountsExact
  /\ JobMatchesPc
  /\ NewNowhere
  /\ OnePlace
  /\ AcceptedKept
  /\ FreedDead
  /\ FreedQuiet
-----------------------------------------------------------------------------
(* What linking a task to the end of the list and unlinking the first one  *)
(* do to the tasks in it.                                                  *)
LEMMA AppendElements ==
  ASSUME NEW S, NEW q \in Seq(S), NEW k \in S
  PROVE  {Append(q, k)[i] : i \in 1..Len(Append(q, k))}
           = {q[i] : i \in 1..Len(q)} \cup {k}
<1>1. Len(Append(q, k)) = Len(q) + 1 /\ Append(q, k)[Len(q) + 1] = k
  OBVIOUS
<1>2. \A i \in 1..Len(q) : Append(q, k)[i] = q[i]
  OBVIOUS
<1>3. 1..(Len(q) + 1) = (1..Len(q)) \cup {Len(q) + 1}
  OBVIOUS
<1> QED
  BY <1>1, <1>2, <1>3

LEMMA TailElements ==
  ASSUME NEW S, NEW q \in Seq(S), q # << >>,
         \A i, j \in 1..Len(q) : q[i] = q[j] => i = j
  PROVE  /\ {Tail(q)[i] : i \in 1..Len(Tail(q))}
              = {q[i] : i \in 1..Len(q)} \ {Head(q)}
         /\ Head(q) \in {q[i] : i \in 1..Len(q)}
         /\ Tail(q) \in Seq(S)
         /\ Len(Tail(q)) = Len(q) - 1
<1>1. Len(q) > 0 /\ Head(q) = q[1] /\ Len(Tail(q)) = Len(q) - 1
  OBVIOUS
<1>2. \A i \in 1..Len(Tail(q)) : Tail(q)[i] = q[i + 1] /\ i + 1 \in 1..Len(q)
  BY <1>1
<1>3. \A i \in 1..Len(q) : i # 1 => i - 1 \in 1..Len(Tail(q)) /\ Tail(q)[i - 1] = q[i]
  BY <1>1, <1>2
<1>4. {Tail(q)[i] : i \in 1..Len(Tail(q))} \subseteq {q[i] : i \in 1..Len(q)} \ {Head(q)}
  BY <1>1, <1>2
<1>5. {q[i] : i \in 1..Len(q)} \ {Head(q)} \subseteq {Tail(q)[i] : i \in 1..Len(Tail(q))}
  BY <1>1, <1>3
<1> QED
  BY <1>1, <1>4, <1>5
-----------------------------------------------------------------------------
THEOREM InvInit == Init => Inv
<1> SUFFICES ASSUME Init PROVE Inv
  OBVIOUS
<1>1. Live = {} /\ Queued = {} /\ Running = {}
  BY DEF Init, Live, Queued, Running
<1>2. TypeOK
  <2>1. queue \in Seq(Tasks) /\ done \subseteq Tasks
    BY DEF Init
  <2>2. /\ pc \in [Threads -> ThreadStates]
        /\ job \in [Threads -> Tasks \cup {NoTask}]
    BY DEF Init, ThreadStates
  <2>3. /\ pusher \in [Pushers -> {"idle", "signal"}]
        /\ outcome \in [Tasks -> {"new", "accepted", "refused"}]
    BY DEF Init
  <2>4. dead \in BOOLEAN /\ destroyer \in {"idle", "loop", "wait", "done"}
    BY DEF Init
  <2>5. max_threads \in ThreadLimits /\ max_idle_threads \in Nat /\ max_tasks \in Nat
    BY DEF Init, DEFAULT_MAX_IDLE_THREADS, DEFAULT_MAX_TASKS
  <2>6. num_threads \in Nat /\ num_idle_threads \in Int /\ num_tasks \in Nat
    BY DEF Init
  <2> QED
    BY <2>1, <2>2, <2>3, <2>4, <2>5, <2>6 DEF TypeOK
<1>3. CountsExact
  BY <1>1, FS_EmptySet DEF Init, CountsExact
<1>4. JobMatchesPc
  BY DEF Init, JobMatchesPc
<1>5. NewNowhere /\ AcceptedKept
  BY <1>1 DEF Init, NewNowhere, AcceptedKept
<1>6. OnePlace
  BY <1>1 DEF Init, OnePlace
<1>7. FreedDead /\ FreedQuiet
  BY DEF Init, FreedDead, FreedQuiet
<1> QED
  BY <1>2, <1>3, <1>4, <1>5, <1>6, <1>7 DEF Inv
-----------------------------------------------------------------------------
(* What a step can do to the tasks: one is linked, one goes from the list  *)
(* to a thread, one is finished, or they all stay where they are.          *)
Linked(k) ==
  /\ ~dead /\ destroyer = "idle"
  /\ outcome[k] = "new"
  /\ queue' = Append(queue, k)
  /\ num_tasks' = num_tasks + 1
  /\ \E r \in {"accepted", "refused"} : outcome' = [outcome EXCEPT ![k] = r]
  /\ UNCHANGED <<job, done, dead, destroyer>>

StayPut ==
  /\ \/ UNCHANGED outcome
     \/ \E k \in Tasks : outcome[k] = "new" /\ outcome' = [outcome EXCEPT ![k] = "refused"]
  /\ UNCHANGED <<queue, num_tasks, job, done>>
  /\ UNCHANGED dead \/ dead' = TRUE
  /\ DestroyFree \/ (destroyer' = "done" <=> destroyer = "done")

LEMMA TaskCases ==
  ASSUME Inv, [Next]_vars
  PROVE  \/ \E k \in Tasks : Linked(k)
         \/ \E t \in Threads : WorkerTake(t) \/ WorkerFinish(t)
         \/ StayPut
<1>1. CASE Setters
  BY <1>1 DEF Setters, SetMaxThreads, SetMaxIdleThreads, SetMaxQueued, counts, StayPut
<1>2. ASSUME NEW p \in Pushers, NEW k \in Tasks, PushRefused(p, k)
      PROVE  StayPut
  BY <1>2 DEF PushRefused, Calls, counts, StayPut
<1>3. ASSUME NEW p \in Pushers, NEW k \in Tasks,
             PushToIdle(p, k) \/ PushStranded(p, k) \/ \E t \in Threads : PushToNew(p, k, t)
      PROVE  Linked(k)
  BY <1>3 DEF PushToIdle, PushToNew, PushStranded, Enqueue, Calls, Linked
<1>4. ASSUME NEW p \in Pushers, PushSignal(p)
      PROVE  StayPut
  BY <1>4 DEF PushSignal, counts, StayPut
<1>5. ASSUME NEW t \in Threads, Worker(t) \/ SpuriousWakeup(t)
      PROVE  WorkerTake(t) \/ WorkerFinish(t) \/ StayPut
  BY <1>5 DEF Worker, WorkerDie, WorkerWait, WaitExpires, WorkerTimeout, SpuriousWakeup,
              counts, StayPut
<1>6. CASE DestroyCall \/ Destroy
  BY <1>6 DEF DestroyCall, Destroy, DestroyBroadcast, DestroyWait, DestroyWake,
              DestroyFree, counts, StayPut
<1>7. CASE UNCHANGED vars
  BY <1>7 DEF vars, counts, StayPut
<1> QED
  BY <1>1, <1>2, <1>3, <1>4, <1>5, <1>6, <1>7 DEF Next, Push

(* Linking puts the task at the end of the list and nowhere else. *)
LEMMA LinkedEffect ==
  ASSUME Inv, NEW k \in Tasks, Linked(k)
  PROVE  /\ k \notin Queued \cup Running \cup done
         /\ Queued' = Queued \cup {k}
         /\ UNCHANGED <<Running, done>>
         /\ \A i, j \in 1..Len(queue') : queue'[i] = queue'[j] => i = j
<1>1. k \notin Queued \cup Running \cup done
  BY DEF Inv, NewNowhere, Linked
<1>2. queue \in Seq(Tasks)
  BY DEF Inv, TypeOK
<1>3. Queued' = Queued \cup {k}
  BY <1>2, AppendElements DEF Queued, Linked
<1>4. UNCHANGED <<Running, done>>
  BY DEF Running, Linked
<1>5. \A i, j \in 1..Len(queue') : queue'[i] = queue'[j] => i = j
  <2>1. \A i \in 1..Len(queue) : queue[i] # k
    BY <1>1 DEF Queued
  <2>2. /\ Len(queue') = Len(queue) + 1 /\ queue'[Len(queue) + 1] = k
        /\ \A i \in 1..Len(queue) : queue'[i] = queue[i]
    BY <1>2 DEF Linked
  <2>3. \A i \in 1..Len(queue') : i \in 1..Len(queue) \/ i = Len(queue) + 1
    BY <1>2, <2>2
  <2>4. \A i, j \in 1..Len(queue) : queue[i] = queue[j] => i = j
    BY DEF Inv, OnePlace
  <2> QED
    BY <2>1, <2>2, <2>3, <2>4
<1> QED
  BY <1>1, <1>3, <1>4, <1>5

(* Shifting moves the oldest task from the list to the thread. *)
LEMMA TakeEffect ==
  ASSUME Inv, NEW t \in Threads, WorkerTake(t)
  PROVE  /\ Head(queue) \in Tasks /\ Head(queue) \in Queued
         /\ Queued' = Queued \ {Head(queue)}
         /\ Running' = Running \cup {Head(queue)}
         /\ UNCHANGED <<done, outcome>>
         /\ job[t] = NoTask
         /\ \A i, j \in 1..Len(queue') : queue'[i] = queue'[j] => i = j
<1>1. /\ queue \in Seq(Tasks) /\ queue # << >> /\ queue' = Tail(queue)
      /\ job \in [Threads -> Tasks \cup {NoTask}]
      /\ job' = [job EXCEPT ![t] = Head(queue)]
  BY DEF Inv, TypeOK, WorkerTake
<1>2. \A i, j \in 1..Len(queue) : queue[i] = queue[j] => i = j
  BY DEF Inv, OnePlace
<1>3. Head(queue) \in Tasks
  BY <1>1
<1>4. Queued' = Queued \ {Head(queue)} /\ Head(queue) \in Queued
  <2>1. /\ {Tail(queue)[i] : i \in 1..Len(Tail(queue))}
              = {queue[i] : i \in 1..Len(queue)} \ {Head(queue)}
        /\ Head(queue) \in {queue[i] : i \in 1..Len(queue)}
    <3>1. queue \in Seq(Tasks) /\ queue # << >>
      BY <1>1
    <3> QED
      BY <3>1, <1>2, TailElements, Zenon
  <2>2. Queued' = {Tail(queue)[i] : i \in 1..Len(Tail(queue))}
    BY <1>1 DEF Queued
  <2> QED
    BY <2>1, <2>2 DEF Queued
<1>5. job[t] = NoTask
  BY DEF Inv, JobMatchesPc, WorkerTake, LooksAtQueue
<1>6. Running' = Running \cup {Head(queue)}
  BY <1>1, <1>3, <1>5, PoolAssumption DEF Running
<1>7. \A i, j \in 1..Len(queue') : queue'[i] = queue'[j] => i = j
  <2>1. \A i \in 1..Len(Tail(queue)) : Tail(queue)[i] = queue[i + 1] /\ i + 1 \in 1..Len(queue)
    BY <1>1
  <2> QED
    BY <1>1, <1>2, <2>1
<1>8. UNCHANGED <<done, outcome>>
  BY DEF WorkerTake
<1> QED
  BY <1>3, <1>4, <1>5, <1>6, <1>7, <1>8

(* A task function that returns moves its task from the thread to done. *)
LEMMA FinishEffect ==
  ASSUME Inv, NEW t \in Threads, WorkerFinish(t)
  PROVE  /\ job[t] \in Running /\ job[t] \in Tasks
         /\ Running' = Running \ {job[t]}
         /\ done' = done \cup {job[t]}
         /\ UNCHANGED <<Queued, queue, outcome>>
<1>1. /\ job \in [Threads -> Tasks \cup {NoTask}]
      /\ job' = [job EXCEPT ![t] = NoTask]
      /\ job[t] # NoTask
  BY DEF Inv, TypeOK, JobMatchesPc, WorkerFinish
<1>2. \A u \in Threads : job[u] = job[t] => u = t
  BY <1>1 DEF Inv, OnePlace
<1>3. Running' = Running \ {job[t]}
  BY <1>1, <1>2 DEF Running
<1>4. job[t] \in Running /\ job[t] \in Tasks
  BY <1>1 DEF Running
<1>5. UNCHANGED <<Queued, queue, outcome>> /\ done' = done \cup {job[t]}
  BY DEF WorkerFinish, Queued
<1> QED
  BY <1>3, <1>4, <1>5

LEMMA StayPutEffect ==
  ASSUME StayPut PROVE UNCHANGED <<Queued, Running, done, queue, job>>
BY DEF StayPut, Queued, Running
-----------------------------------------------------------------------------
LEMMA TypeStep == ASSUME Inv, [Next]_vars PROVE TypeOK'
<1> USE PoolAssumption
<1>0. TypeOK
  BY DEF Inv
<1>1. CASE Setters
  <2>1. \A n \in IdleLimits \cup TaskLimits : n \in Nat
    OBVIOUS
  <2> QED
    BY <1>0, <1>1, <2>1
    DEF Setters, SetMaxThreads, SetMaxIdleThreads, SetMaxQueued, TypeOK, counts
<1>2. ASSUME NEW p \in Pushers, NEW k \in Tasks, PushRefused(p, k)
      PROVE  TypeOK'
  BY <1>0, <1>2 DEF PushRefused, TypeOK, limits, counts
<1>3. ASSUME NEW p \in Pushers, NEW k \in Tasks, PushToIdle(p, k)
      PROVE  TypeOK'
  BY <1>0, <1>3 DEF PushToIdle, Enqueue, TypeOK, limits
<1>4. ASSUME NEW p \in Pushers, NEW k \in Tasks, NEW t \in Threads, PushToNew(p, k, t)
      PROVE  TypeOK'
  BY <1>0, <1>4 DEF PushToNew, Enqueue, TypeOK, limits, ThreadStates
<1>5. ASSUME NEW p \in Pushers, NEW k \in Tasks, PushStranded(p, k)
      PROVE  TypeOK'
  BY <1>0, <1>5 DEF PushStranded, Enqueue, TypeOK, limits
<1>6. ASSUME NEW p \in Pushers, PushSignal(p)
      PROVE  TypeOK'
  BY <1>0, <1>6 DEF PushSignal, TypeOK, limits, counts, ThreadStates, Waiters
<1>7. ASSUME NEW t \in Threads, WorkerTake(t)
      PROVE  TypeOK'
  <2>1. num_tasks - 1 \in Nat
    BY <1>0, <1>7 DEF WorkerTake, Inv, CountsExact, TypeOK
  <2>2. Head(queue) \in Tasks /\ Tail(queue) \in Seq(Tasks)
    BY <1>0, <1>7 DEF WorkerTake, TypeOK
  <2> QED
    BY <1>0, <1>7, <2>1, <2>2 DEF WorkerTake, TypeOK, limits, ThreadStates
<1>8. ASSUME NEW t \in Threads, WorkerFinish(t)
      PROVE  TypeOK'
  BY <1>0, <1>8, FinishEffect DEF WorkerFinish, TypeOK, limits, counts, ThreadStates
<1>9. ASSUME NEW t \in Threads, WorkerDie(t) \/ WorkerTimeout(t)
      PROVE  TypeOK'
  BY <1>0, <1>9 DEF WorkerDie, WorkerTimeout, TypeOK, limits, ThreadStates
<1>10. ASSUME NEW t \in Threads, WorkerWait(t)
       PROVE  TypeOK'
  <2>1. num_idle_threads' \in Int
    BY <1>0, <1>10 DEF WorkerWait, TypeOK
  <2>2. pc' \in [Threads -> ThreadStates]
    <3>1. \E w \in {"waiting", "timed"} : pc' = [pc EXCEPT ![t] = w]
      BY <1>10 DEF WorkerWait
    <3> QED
      BY <1>0, <3>1 DEF TypeOK, ThreadStates
  <2> QED
    BY <1>0, <1>10, <2>1, <2>2 DEF WorkerWait, TypeOK, limits
<1>11. ASSUME NEW t \in Threads, WaitExpires(t) \/ SpuriousWakeup(t)
       PROVE  TypeOK'
  BY <1>0, <1>11 DEF WaitExpires, SpuriousWakeup, TypeOK, limits, counts, ThreadStates
<1>12. CASE DestroyBroadcast
  BY <1>0, <1>12 DEF DestroyBroadcast, TypeOK, limits, counts, ThreadStates
<1>13. CASE DestroyCall \/ DestroyWait \/ DestroyWake \/ DestroyFree
  BY <1>0, <1>13
  DEF DestroyCall, DestroyWait, DestroyWake, DestroyFree, TypeOK, limits, counts
<1>14. CASE UNCHANGED vars
  BY <1>0, <1>14 DEF TypeOK, vars, limits, counts
<1> QED
  BY <1>1, <1>2, <1>3, <1>4, <1>5, <1>6, <1>7, <1>8, <1>9, <1>10, <1>11, <1>12,
     <1>13, <1>14
  DEF Next, Push, Worker, Destroy

LEMMA PlaceStep ==
  ASSUME Inv, [Next]_vars PROVE OnePlace' /\ NewNowhere' /\ AcceptedKept'
<1>0. /\ job \in [Threads -> Tasks \cup {NoTask}]
      /\ outcome \in [Tasks -> {"new", "accepted", "refused"}]
      /\ OnePlace /\ NewNowhere /\ AcceptedKept
  BY DEF Inv, TypeOK
<1>1. ASSUME NEW k \in Tasks, Linked(k)
      PROVE  OnePlace' /\ NewNowhere' /\ AcceptedKept'
  <2>1. OnePlace'
    <3>1. \A t, u \in Threads : job'[t] = job'[u] /\ job'[t] # NoTask => t = u
      BY <1>0, <1>1 DEF OnePlace, Linked
    <3>2. (Queued \cap Running)' = {} /\ ((Queued \cup Running) \cap done)' = {}
      BY <1>0, <1>1, LinkedEffect DEF OnePlace
    <3> QED
      BY <1>1, <3>1, <3>2, LinkedEffect DEF OnePlace
  <2>2. \A l \in Tasks : l # k => outcome'[l] = outcome[l]
    BY <1>0, <1>1 DEF Linked
  <2>3. outcome'[k] # "new"
    BY <1>0, <1>1 DEF Linked
  <2> QED
    BY <1>0, <1>1, <2>1, <2>2, <2>3, LinkedEffect DEF NewNowhere, AcceptedKept
<1>2. ASSUME NEW t \in Threads, WorkerTake(t)
      PROVE  OnePlace' /\ NewNowhere' /\ AcceptedKept'
  <2>1. \A u, v \in Threads : job'[u] = job'[v] /\ job'[u] # NoTask => u = v
    <3>1. \A u \in Threads : job[u] # Head(queue)
      BY <1>0, <1>2, TakeEffect, PoolAssumption DEF OnePlace, Running
    <3>2. job' = [job EXCEPT ![t] = Head(queue)]
      BY <1>2 DEF WorkerTake
    <3> QED
      BY <1>0, <3>1, <3>2 DEF OnePlace
  <2>2. OnePlace'
    BY <1>0, <1>2, <2>1, TakeEffect DEF OnePlace
  <2> QED
    BY <1>0, <1>2, <2>2, TakeEffect DEF NewNowhere, AcceptedKept
<1>3. ASSUME NEW t \in Threads, WorkerFinish(t)
      PROVE  OnePlace' /\ NewNowhere' /\ AcceptedKept'
  <2>1. \A u, v \in Threads : job'[u] = job'[v] /\ job'[u] # NoTask => u = v
    BY <1>0, <1>3 DEF OnePlace, WorkerFinish
  <2>2. OnePlace'
    BY <1>0, <1>3, <2>1, FinishEffect DEF OnePlace
  <2> QED
    BY <1>0, <1>3, <2>2, FinishEffect DEF NewNowhere, AcceptedKept
<1>4. CASE StayPut
  <2>1. OnePlace'
    BY <1>0, <1>4, StayPutEffect DEF OnePlace
  <2>2. \A l \in Tasks :
          /\ outcome'[l] = "new" => outcome[l] = "new"
          /\ outcome'[l] = "accepted" => outcome[l] = "accepted"
    BY <1>0, <1>4 DEF StayPut
  <2> QED
    BY <1>0, <1>4, <2>1, <2>2, StayPutEffect DEF NewNowhere, AcceptedKept
<1> QED
  BY <1>1, <1>2, <1>3, <1>4, TaskCases

LEMMA JobStep == ASSUME Inv, [Next]_vars PROVE JobMatchesPc'
<1>0. /\ job \in [Threads -> Tasks \cup {NoTask}]
      /\ pc \in [Threads -> ThreadStates]
      /\ JobMatchesPc
  BY DEF Inv, TypeOK
<1>1. ASSUME NEW t \in Threads, WorkerTake(t)
      PROVE  JobMatchesPc'
  <2>1. Head(queue) # NoTask
    BY <1>1, TakeEffect, PoolAssumption
  <2> QED
    BY <1>0, <1>1, <2>1 DEF WorkerTake, JobMatchesPc
<1>2. ASSUME NEW t \in Threads, WorkerFinish(t)
      PROVE  JobMatchesPc'
  BY <1>0, <1>2 DEF WorkerFinish, JobMatchesPc
<1>3. ASSUME UNCHANGED job,
             \A t \in Threads : pc'[t] = "running" <=> pc[t] = "running"
      PROVE  JobMatchesPc'
  BY <1>0, <1>3 DEF JobMatchesPc
<1>4. CASE Setters
  BY <1>3, <1>4 DEF Setters, SetMaxThreads, SetMaxIdleThreads, SetMaxQueued
<1>5. ASSUME NEW p \in Pushers, PushSignal(p) \/ \E k \in Tasks : Push(p, k)
      PROVE  JobMatchesPc'
  BY <1>0, <1>3, <1>5
  DEF Push, PushRefused, PushToIdle, PushToNew, PushStranded, Enqueue, PushSignal, Waiters
<1>6. ASSUME NEW t \in Threads,
             WorkerDie(t) \/ WorkerWait(t) \/ WaitExpires(t) \/ WorkerTimeout(t)
               \/ SpuriousWakeup(t)
      PROVE  JobMatchesPc'
  <2>1. /\ pc[t] # "running"
        /\ \E w \in {"none", "waiting", "timed", "expired", "woken"} : pc' = [pc EXCEPT ![t] = w]
        /\ UNCHANGED job
    BY <1>6
    DEF WorkerDie, WorkerWait, WaitExpires, WorkerTimeout, SpuriousWakeup, LooksAtQueue, Waiters
  <2> QED
    BY <1>0, <1>3, <2>1
<1>7. CASE DestroyCall \/ Destroy
  BY <1>0, <1>3, <1>7
  DEF DestroyCall, Destroy, DestroyBroadcast, DestroyWait, DestroyWake, DestroyFree, Waiters
<1>8. CASE UNCHANGED vars
  BY <1>3, <1>8 DEF vars
<1> QED
  BY <1>1, <1>2, <1>4, <1>5, <1>6, <1>7, <1>8 DEF Next, Worker

(* The threads that exist: one is created, one leaves, or neither. *)
Created(t) ==
  /\ ~dead
  /\ pc[t] = "none" /\ pc' = [pc EXCEPT ![t] = "start"]
  /\ num_idle_threads <= 0 /\ ~THREADS_DEPLETED
  /\ num_threads' = num_threads + 1
  /\ UNCHANGED max_threads

Left(t) ==
  /\ pc[t] # "none" /\ pc' = [pc EXCEPT ![t] = "none"]
  /\ num_threads' = IF num_threads > 0 THEN num_threads - 1 ELSE num_threads

LEMMA ThreadCases ==
  ASSUME Inv, [Next]_vars
  PROVE  \/ \E t \in Threads : Created(t) \/ Left(t)
         \/ UNCHANGED <<Live, num_threads>>
<1>0. pc \in [Threads -> ThreadStates]
  BY DEF Inv, TypeOK
<1>1. ASSUME \A t \in Threads : pc'[t] = "none" <=> pc[t] = "none",
             UNCHANGED num_threads
      PROVE  UNCHANGED <<Live, num_threads>>
  BY <1>1 DEF Live
<1>2. CASE Setters
  BY <1>1, <1>2 DEF Setters, SetMaxThreads, SetMaxIdleThreads, SetMaxQueued, counts
<1>3. ASSUME NEW p \in Pushers, NEW k \in Tasks, NEW t \in Threads, PushToNew(p, k, t)
      PROVE  Created(t)
  BY <1>3 DEF PushToNew, Enqueue, limits, Created
<1>4. ASSUME NEW p \in Pushers, NEW k \in Tasks,
             PushRefused(p, k) \/ PushToIdle(p, k) \/ PushStranded(p, k)
      PROVE  UNCHANGED <<Live, num_threads>>
  BY <1>1, <1>4 DEF PushRefused, PushToIdle, PushStranded, counts
<1>5. ASSUME NEW p \in Pushers, PushSignal(p)
      PROVE  UNCHANGED <<Live, num_threads>>
  BY <1>0, <1>1, <1>5 DEF PushSignal, Waiters, counts
<1>6. ASSUME NEW t \in Threads, WorkerDie(t) \/ WorkerTimeout(t)
      PROVE  Left(t)
  BY <1>6 DEF WorkerDie, WorkerTimeout, LooksAtQueue, Left
<1>7. ASSUME NEW t \in Threads,
             WorkerTake(t) \/ WorkerFinish(t) \/ WorkerWait(t) \/ WaitExpires(t)
               \/ SpuriousWakeup(t)
      PROVE  UNCHANGED <<Live, num_threads>>
  <2>1. /\ pc[t] # "none"
        /\ \E w \in ThreadStates \ {"none"} : pc' = [pc EXCEPT ![t] = w]
        /\ UNCHANGED num_threads
    BY <1>7
    DEF WorkerTake, WorkerFinish, WorkerWait, WaitExpires, SpuriousWakeup, LooksAtQueue,
        Waiters, counts, ThreadStates
  <2> QED
    BY <1>0, <1>1, <2>1
<1>8. CASE DestroyCall \/ Destroy
  BY <1>0, <1>1, <1>8
  DEF DestroyCall, Destroy, DestroyBroadcast, DestroyWait, DestroyWake, DestroyFree,
      Waiters, counts
<1>9. CASE UNCHANGED vars
  BY <1>1, <1>9 DEF vars, counts
<1> QED
  BY <1>2, <1>3, <1>4, <1>5, <1>6, <1>7, <1>8, <1>9 DEF Next, Push, Worker

LEMMA CountsStep == ASSUME Inv, [Next]_vars PROVE CountsExact'
<1>0. /\ CountsExact /\ queue \in Seq(Tasks) /\ num_threads \in Nat
      /\ pc \in [Threads -> ThreadStates]
      /\ IsFiniteSet(Live)
  BY FS_Subset, PoolAssumption DEF Inv, TypeOK, Live
<1>1. num_tasks' = Len(queue')
  <2>1. ASSUME NEW k \in Tasks, Linked(k)
        PROVE  num_tasks' = Len(queue')
    BY <1>0, <2>1 DEF Linked, CountsExact
  <2>2. ASSUME NEW t \in Threads, WorkerTake(t)
        PROVE  num_tasks' = Len(queue')
    BY <1>0, <2>2 DEF WorkerTake, CountsExact
  <2>3. ASSUME NEW t \in Threads, WorkerFinish(t)
        PROVE  num_tasks' = Len(queue')
    BY <1>0, <2>3 DEF WorkerFinish, CountsExact, counts
  <2> QED
    BY <1>0, <2>1, <2>2, <2>3, TaskCases DEF StayPut, CountsExact
<1>2. num_threads' = Cardinality(Live')
  <2>1. ASSUME NEW t \in Threads, Created(t)
        PROVE  num_threads' = Cardinality(Live')
    <3>1. Live' = Live \cup {t} /\ t \notin Live
      BY <1>0, <2>1 DEF Live, Created
    <3> QED
      BY <1>0, <2>1, <3>1, FS_AddElement DEF Created, CountsExact
  <2>2. ASSUME NEW t \in Threads, Left(t)
        PROVE  num_threads' = Cardinality(Live')
    <3>1. Live' = Live \ {t} /\ t \in Live
      BY <1>0, <2>2 DEF Live, Left
    <3>2. Cardinality(Live \ {t}) = Cardinality(Live) - 1 /\ Live # {}
      BY <1>0, <3>1, FS_RemoveElement
    <3>3. num_threads > 0
      BY <1>0, <3>2, FS_EmptySet DEF CountsExact
    <3> QED
      BY <1>0, <2>2, <3>1, <3>2, <3>3 DEF Left, CountsExact
  <2> QED
    BY <1>0, <2>1, <2>2, ThreadCases DEF CountsExact
<1> QED
  BY <1>1, <1>2 DEF CountsExact

(* A pool is freed only when its counters are zero, and CountsExact says   *)
(* what that means.                                                        *)
LEMMA FreeIsQuiet ==
  ASSUME Inv, DestroyFree PROVE Live = {} /\ queue = << >> /\ Running = {}
<1>1. /\ queue \in Seq(Tasks) /\ num_threads \in Nat /\ num_tasks \in Nat
      /\ num_threads = Cardinality(Live) /\ num_tasks = Len(queue)
      /\ num_threads <= 0 /\ num_tasks <= 0
  BY DEF Inv, TypeOK, CountsExact, DestroyFree
<1>2. IsFiniteSet(Live)
  BY FS_Subset, PoolAssumption DEF Live
<1>3. Cardinality(Live) = 0 /\ Len(queue) = 0
  BY <1>1
<1>4. Live = {}
  BY <1>2, <1>3, FS_EmptySet
<1>5. queue = << >>
  BY <1>1, <1>3
<1>6. Running = {}
  BY <1>4 DEF Inv, JobMatchesPc, Live, Running
<1> QED
  BY <1>4, <1>5, <1>6

LEMMA FreedStep == ASSUME Inv, [Next]_vars PROVE FreedDead' /\ FreedQuiet'
<1>0. /\ FreedDead /\ FreedQuiet
      /\ pc \in [Threads -> ThreadStates]
  BY DEF Inv, TypeOK
<1>1. CASE DestroyFree
  <2>1. UNCHANGED <<Live, queue>> /\ dead'
    BY <1>1 DEF DestroyFree, Live
  <2> QED
    BY <1>1, <2>1, FreeIsQuiet DEF FreedDead, FreedQuiet
<1>2. ASSUME destroyer' # "done"
      PROVE  FreedDead' /\ FreedQuiet'
  BY <1>2 DEF FreedDead, FreedQuiet
<1>3. ASSUME destroyer = "done", dead', UNCHANGED <<Live, queue>>
      PROVE  FreedDead' /\ FreedQuiet'
  BY <1>0, <1>3 DEF FreedDead, FreedQuiet
<1>4. \/ DestroyFree
      \/ destroyer' # "done"
      \/ destroyer = "done" /\ UNCHANGED destroyer
  BY DEF Next, vars, Setters, SetMaxThreads, SetMaxIdleThreads, SetMaxQueued, Push, PushRefused,
         PushToIdle, PushToNew, PushStranded, PushSignal, Worker, WorkerTake, WorkerFinish,
         WorkerDie, WorkerWait, WaitExpires, WorkerTimeout, SpuriousWakeup, DestroyCall, Destroy,
         DestroyBroadcast, DestroyWait, DestroyWake
<1>5. ASSUME destroyer = "done", UNCHANGED destroyer
      PROVE  dead' /\ UNCHANGED <<Live, queue>>
  <2>1. dead /\ Live = {} /\ queue = << >>
    BY <1>0, <1>5 DEF FreedDead, FreedQuiet
  <2>2. ~\E k \in Tasks : Linked(k)
    BY <2>1 DEF Linked
  <2>3. \A t \in Threads : pc[t] = "none"
    BY <2>1 DEF Live
  <2>4. \A t \in Threads : ~WorkerTake(t) /\ ~WorkerFinish(t)
    BY <2>3 DEF WorkerTake, WorkerFinish, LooksAtQueue
  <2>5. StayPut
    BY <2>2, <2>4, TaskCases
  <2>6. \A t \in Threads : ~Created(t) /\ ~Left(t)
    BY <2>1, <2>3 DEF Created, Left
  <2> QED
    BY <2>1, <2>5, <2>6, ThreadCases DEF StayPut
<1> QED
  BY <1>1, <1>2, <1>3, <1>4, <1>5
-----------------------------------------------------------------------------
THEOREM InvNext == Inv /\ [Next]_vars => Inv'
BY TypeStep, CountsStep, JobStep, PlaceStep, FreedStep DEF Inv

THEOREM InvAlways == Spec => []Inv
<1>1. Init => Inv
  BY InvInit
<1>2. Inv /\ [Next]_vars => Inv'
  BY InvNext
<1> QED
  BY <1>1, <1>2, PTL DEF Spec

(* Every field keeps the values its declaration means it to have: in       *)
(* particular num_threads and num_tasks never go below zero.               *)
THEOREM TypeSafety == Spec => []TypeOK
<1>1. Inv => TypeOK
  BY DEF Inv
<1> QED
  BY <1>1, InvAlways, PTL

(* num_threads and num_tasks, which alone decide when the pool is freed,   *)
(* always equal what they count, whatever threads start, die or time out.  *)
THEOREM CountsSafety == Spec => []CountsExact
<1>1. Inv => CountsExact
  BY DEF Inv
<1> QED
  BY <1>1, InvAlways, PTL

(* thread_pool_worker enters pool->function at most once for a task.       *)
THEOREM OnePlaceSafety == Spec => []OnePlace
<1>1. Inv => OnePlace
  BY DEF Inv
<1> QED
  BY <1>1, InvAlways, PTL

(* A task vt_thread_pool_push returned 0 for is never dropped.             *)
THEOREM AcceptedSafety == Spec => []AcceptedKept
<1>1. Inv => AcceptedKept
  BY DEF Inv
<1> QED
  BY <1>1, InvAlways, PTL

(* vt_thread_pool_destroy frees the pool only when no thread is left in    *)
(* thread_pool_worker and no task in the list.                             *)
THEOREM FreedSafety == Spec => []FreedQuiet
<1>1. Inv => FreedQuiet
  BY DEF Inv
<1> QED
  BY <1>1, InvAlways, PTL

(* With max_threads in force at most one thread too many is alive.         *)
THEOREM ThreadBoundSafety == Spec => []ThreadBound
<1>1. Init => ThreadBound
  <2>1. ASSUME Init PROVE ThreadBound
    <3>1. max_threads \in ThreadLimits /\ max_threads \in Nat /\ num_threads = 0
      BY <2>1, PoolAssumption DEF Init
    <3> QED
      BY <3>1 DEF ThreadBound
  <2> QED
    BY <2>1
<1>2. Inv /\ ThreadBound /\ [Next]_vars => ThreadBound'
  <2> SUFFICES ASSUME Inv, ThreadBound, [Next]_vars, 0 \notin ThreadLimits
               PROVE  \E m \in ThreadLimits : num_threads' <= m + 1
    BY DEF ThreadBound
  <2>0. num_threads \in Nat /\ max_threads \in ThreadLimits /\ max_threads \in Nat
    BY PoolAssumption DEF Inv, TypeOK
  <2>1. PICK m \in ThreadLimits : num_threads <= m + 1
    BY DEF ThreadBound
  <2>2. ASSUME NEW t \in Threads, Created(t)
        PROVE  num_threads' <= max_threads + 1
    BY <2>0, <2>2 DEF Created, THREADS_DEPLETED, Inv, TypeOK
  <2>3. ASSUME NEW t \in Threads, Left(t)
        PROVE  num_threads' <= m + 1
    BY <2>0, <2>1, <2>3, PoolAssumption DEF Left
  <2>4. CASE UNCHANGED num_threads
    BY <2>1, <2>4
  <2> QED
    BY <2>0, <2>2, <2>3, <2>4, ThreadCases
<1> QED
  BY <1>1, <1>2, InvAlways, PTL DEF Spec
-----------------------------------------------------------------------------
(* The pool implements the list of tasks of TaskService.                   *)
THEOREM Implements == Spec => Refinement
<1>1. Init => Service!ServiceInit
  BY DEF Init, Service!ServiceInit, Running
<1>2. Inv /\ [Next]_vars => [Service!ServiceNext]_(Service!serviceVars)
  <2> SUFFICES ASSUME Inv, [Next]_vars
               PROVE  Service!ServiceNext \/ UNCHANGED Service!serviceVars
    OBVIOUS
  <2>0. /\ destroyer = "done" => queue = << >>
        /\ dead \in BOOLEAN
    BY DEF Inv, TypeOK, FreedQuiet
  <2>1. ASSUME NEW k \in Tasks, Linked(k)
        PROVE  Service!Accept(k)
    <3>1. ~Service!InService(k)
      BY <2>1, LinkedEffect DEF Service!InService, Queued
    <3> QED
      BY <2>1, <3>1, LinkedEffect DEF Service!Accept, Linked
  <2>2. ASSUME NEW t \in Threads, WorkerTake(t)
        PROVE  Service!Start
    <3>1. Running' = Running \cup {Head(queue)} /\ done' = done
      BY <2>2, TakeEffect
    <3> QED
      BY <2>0, <2>2, <3>1 DEF Service!Start, WorkerTake
  <2>3. ASSUME NEW t \in Threads, WorkerFinish(t)
        PROVE  \E k \in Tasks : Service!Finish(k)
    <3>1. Service!Finish(job[t])
      BY <2>3, FinishEffect DEF Service!Finish, WorkerFinish
    <3> QED
      BY <2>3, <3>1, FinishEffect
  <2>4. CASE StayPut /\ DestroyFree
    <3>1. queue = << >> /\ Running = {}
      BY <2>4, FreeIsQuiet
    <3> QED
      BY <2>4, <3>1, StayPutEffect DEF Service!ServiceNext, Service!Vanish, DestroyFree
  <2>5. CASE StayPut /\ ~DestroyFree
    <3>1. (destroyer' = "done") = (destroyer = "done")
      BY <2>5 DEF StayPut
    <3>2. UNCHANGED <<queue, Running, done>>
      BY <2>5, StayPutEffect
    <3>3. CASE UNCHANGED dead
      BY <3>1, <3>2, <3>3 DEF Service!serviceVars
    <3>4. CASE dead' = TRUE
      BY <3>1, <3>2, <3>4 DEF Service!ServiceNext, Service!Close
    <3> QED
      BY <2>5, <3>3, <3>4 DEF StayPut
  <2> QED
    BY <2>1, <2>2, <2>3, <2>4, <2>5, TaskCases DEF Service!ServiceNext
<1> QED
  BY <1>1, <1>2, InvAlways, PTL DEF Spec, Refinement, Service!ServiceSpec
=============================================================================
