----------------------------- MODULE ThreadPool -----------------------------
(***************************************************************************)
(* The worker pool of src/thread_pool.c.                                   *)
(*                                                                         *)
(* Every field of vt_thread_pool_t is read and written with pool->lock     *)
(* held, so one critical section is one action.  What is not atomic stays  *)
(* visible: a pusher signals after it has unlocked, a worker that was      *)
(* signalled or that timed out has to get the lock back first, and a task  *)
(* function runs without the lock.                                         *)
(*                                                                         *)
(* Threads are slots: pthread_create fills a free one and a thread that    *)
(* returns from thread_pool_worker frees it.                               *)
(*                                                                         *)
(* A definition whose name ends in _Bug is the one that follows it with a  *)
(* slip in it; no specification uses it.                                   *)
(***************************************************************************)
EXTENDS Integers, Sequences, FiniteSets

CONSTANTS Threads,       \* slots for the pool's own threads
          Pushers,       \* threads that call vt_thread_pool_push
          Tasks,         \* the arguments they push, each of them once
          NoTask,        \* a slot that runs no task
          ThreadLimits,  \* values of max_threads, 0 is "no limit"
          IdleLimits,    \* values vt_thread_pool_set_max_idle_threads gets
          TaskLimits,    \* values vt_thread_pool_set_max_queued gets
          MayFail,       \* may calloc and pthread_create (EAGAIN) fail?
          SpuriousCap    \* bound: spurious wakeups only while
                         \* num_idle_threads is below it

ASSUME PoolAssumption ==
  /\ IsFiniteSet(Threads)
  /\ NoTask \notin Tasks
  /\ ThreadLimits \subseteq Nat
  /\ IdleLimits \subseteq Nat
  /\ TaskLimits \subseteq Nat
  /\ MayFail \in BOOLEAN
  /\ SpuriousCap \in Int

(* What vt_thread_pool_create sets; its callers overwrite both at once with *)
(* the setters.                                                            *)
DEFAULT_MAX_IDLE_THREADS == 15
DEFAULT_MAX_TASKS == 200

VARIABLES
  dead,              \* pool->dead
  max_threads, max_idle_threads, max_tasks,
  num_threads, num_idle_threads, num_tasks,
  queue,             \* the list from first_task to last_task
  pc,                \* where each slot's thread is in thread_pool_worker
  job,               \* the task a slot's thread is running
  pusher,            \* where each caller of vt_thread_pool_push is
  destroyer,         \* where vt_thread_pool_destroy is
  outcome,           \* what vt_thread_pool_push returned for each task
  done               \* tasks whose function has returned

limits == <<max_threads, max_idle_threads, max_tasks>>
counts == <<num_threads, num_idle_threads, num_tasks>>
vars == <<dead, limits, counts, queue, pc, job, pusher, destroyer, outcome,
          done>>

(* "none": free slot.  "start": created, "ready": back from a task, "woken": *)
(* returned from the wait; all three are about to look at the queue.         *)
(* "waiting"/"timed": in pthread_cond_wait/_timedwait.  "expired": timed     *)
(* out, about to take the lock.  "running": in pool->function.               *)
ThreadStates ==
  {"none", "start", "ready", "woken", "running", "waiting", "timed", "expired"}

Live == {t \in Threads : pc[t] # "none"}
Waiters == {t \in Threads : pc[t] \in {"waiting", "timed"}}
Queued == {queue[i] : i \in 1..Len(queue)}
Running == {job[t] : t \in Threads} \ {NoTask}

THREADS_DEPLETED_Bug ==
  num_idle_threads < 1 /\ max_threads # 0 /\ max_threads < num_threads - 1

THREADS_DEPLETED ==
  /\ num_idle_threads < 1
  /\ max_threads # 0
  /\ max_threads < num_threads

QUEUE_FULL == max_tasks # 0 /\ max_tasks < num_tasks
-----------------------------------------------------------------------------
(* vt_thread_pool_create *)
Init ==
  /\ dead = FALSE
  /\ max_threads \in ThreadLimits
  /\ max_idle_threads = DEFAULT_MAX_IDLE_THREADS
  /\ max_tasks = DEFAULT_MAX_TASKS
  /\ num_threads = 0
  /\ num_idle_threads = 0
  /\ num_tasks = 0
  /\ queue = << >>
  /\ pc = [t \in Threads |-> "none"]
  /\ job = [t \in Threads |-> NoTask]
  /\ pusher = [p \in Pushers |-> "idle"]
  /\ destroyer = "idle"
  /\ outcome = [k \in Tasks |-> "new"]
  /\ done = {}

(* The three setters, each a critical section of its own. *)
SetMaxThreads(n) ==
  /\ destroyer = "idle"
  /\ max_threads' = n
  /\ UNCHANGED <<dead, max_idle_threads, max_tasks, counts, queue, pc, job,
                 pusher, destroyer, outcome, done>>

SetMaxIdleThreads(n) ==
  /\ destroyer = "idle"
  /\ max_idle_threads' = n
  /\ UNCHANGED <<dead, max_threads, max_tasks, counts, queue, pc, job,
                 pusher, destroyer, outcome, done>>

SetMaxQueued(n) ==
  /\ destroyer = "idle"
  /\ max_tasks' = n
  /\ UNCHANGED <<dead, max_threads, max_idle_threads, counts, queue, pc, job,
                 pusher, destroyer, outcome, done>>
-----------------------------------------------------------------------------
(* vt_thread_pool_push, from the lock to the unlock, one action per way    *)
(* through it.  No push overlaps the call of vt_thread_pool_destroy: main   *)
(* replaces its pool before it destroys the old one, and the pools of      *)
(* asynchronous dicts outlive the workers that push to them.  A push that  *)
(* comes after it, but before the pool is freed, finds the pool dead.      *)
Calls(p, k) ==
  /\ pusher[p] = "idle"
  /\ outcome[k] = "new"
  /\ destroyer = "idle" \/ (dead /\ destroyer # "done")

(* Shut down, or no thread and no room, or no memory for the list node. *)
PushRefused(p, k) ==
  /\ Calls(p, k)
  /\ dead \/ (THREADS_DEPLETED /\ QUEUE_FULL) \/ MayFail
  /\ outcome' = [outcome EXCEPT ![k] = "refused"]
  /\ UNCHANGED <<dead, limits, counts, queue, pc, job, pusher, destroyer, done>>

(* The new node replaces the list instead of being linked to its end. *)
Enqueue_Bug(p, k) ==
  /\ Calls(p, k)
  /\ ~dead
  /\ ~(THREADS_DEPLETED /\ QUEUE_FULL)
  /\ queue' = <<k>>
  /\ num_tasks' = num_tasks + 1

Enqueue(p, k) ==
  /\ Calls(p, k)
  /\ ~dead
  /\ ~(THREADS_DEPLETED /\ QUEUE_FULL)
  /\ queue' = Append(queue, k)
  /\ num_tasks' = num_tasks + 1

(* Nobody is signalled. *)
PushToIdle_Bug(p, k) ==
  /\ Enqueue(p, k)
  /\ num_idle_threads > 0
  /\ outcome' = [outcome EXCEPT ![k] = "accepted"]
  /\ UNCHANGED <<dead, limits, num_threads, num_idle_threads, pc, job, pusher,
                 destroyer, done>>

(* A thread is counted as idle: it will be signalled. *)
PushToIdle(p, k) ==
  /\ Enqueue(p, k)
  /\ num_idle_threads > 0
  /\ outcome' = [outcome EXCEPT ![k] = "accepted"]
  /\ pusher' = [pusher EXCEPT ![p] = "signal"]
  /\ UNCHANGED <<dead, limits, num_threads, num_idle_threads, pc, job,
                 destroyer, done>>

(* None is, and another one may be created. *)
PushToNew(p, k, t) ==
  /\ Enqueue(p, k)
  /\ num_idle_threads <= 0
  /\ ~THREADS_DEPLETED
  /\ pc[t] = "none"
  /\ pc' = [pc EXCEPT ![t] = "start"]
  /\ num_threads' = num_threads + 1
  /\ num_idle_threads' = num_idle_threads + 1
  /\ outcome' = [outcome EXCEPT ![k] = "accepted"]
  /\ pusher' = [pusher EXCEPT ![p] = "signal"]
  /\ UNCHANGED <<dead, limits, job, destroyer, done>>

(* Only a task that gets a thread is counted. *)
PushStranded_Bug(p, k) ==
  /\ Calls(p, k) /\ ~dead
  /\ ~(THREADS_DEPLETED /\ QUEUE_FULL)
  /\ num_idle_threads <= 0
  /\ THREADS_DEPLETED \/ MayFail
  /\ queue' = Append(queue, k)
  /\ outcome' = [outcome EXCEPT ![k] = "refused"]
  /\ UNCHANGED <<dead, limits, counts, pc, job, pusher, destroyer, done>>

(* None is, and none is created, because of max_threads or of EAGAIN: the  *)
(* task stays linked in the queue and the caller is told -1.               *)
PushStranded(p, k) ==
  /\ Enqueue(p, k)
  /\ num_idle_threads <= 0
  /\ THREADS_DEPLETED \/ MayFail
  /\ outcome' = [outcome EXCEPT ![k] = "refused"]
  /\ UNCHANGED <<dead, limits, num_threads, num_idle_threads, pc, job, pusher,
                 destroyer, done>>

(* The wakeup is lost. *)
PushSignal_Bug(p) ==
  /\ pusher[p] = "signal"
  /\ pusher' = [pusher EXCEPT ![p] = "idle"]
  /\ UNCHANGED <<dead, limits, counts, queue, pc, job, destroyer, outcome, done>>

(* pthread_cond_signal, after the unlock: some waiter wakes, if there is one. *)
PushSignal(p) ==
  /\ pusher[p] = "signal"
  /\ pusher' = [pusher EXCEPT ![p] = "idle"]
  /\ \/ \E t \in Waiters : pc' = [pc EXCEPT ![t] = "woken"]
     \/ Waiters = {} /\ UNCHANGED pc
  /\ UNCHANGED <<dead, limits, counts, queue, job, destroyer, outcome, done>>
-----------------------------------------------------------------------------
(* thread_pool_worker: one pass of its loop. *)
LooksAtQueue(t) == pc[t] \in {"start", "ready", "woken"}

(* The newest task is taken first. *)
WorkerTake_Bug(t) ==
  /\ LooksAtQueue(t)
  /\ queue # << >>
  /\ queue' = SubSeq(queue, 1, Len(queue) - 1)
  /\ num_tasks' = num_tasks - 1
  /\ num_idle_threads' = num_idle_threads - 1
  /\ pc' = [pc EXCEPT ![t] = "running"]
  /\ job' = [job EXCEPT ![t] = queue[Len(queue)]]
  /\ UNCHANGED <<dead, limits, num_threads, pusher, destroyer, outcome, done>>

(* The node is not unlinked. *)
WorkerTakeAgain_Bug(t) ==
  /\ LooksAtQueue(t)
  /\ queue # << >>
  /\ num_tasks' = num_tasks - 1
  /\ num_idle_threads' = num_idle_threads - 1
  /\ pc' = [pc EXCEPT ![t] = "running"]
  /\ job' = [job EXCEPT ![t] = Head(queue)]
  /\ UNCHANGED <<dead, limits, num_threads, queue, pusher, destroyer, outcome,
                 done>>

(* vt_thread_pool_shift yields a task. *)
WorkerTake(t) ==
  /\ LooksAtQueue(t)
  /\ queue # << >>
  /\ queue' = Tail(queue)
  /\ num_tasks' = num_tasks - 1
  /\ num_idle_threads' = num_idle_threads - 1
  /\ pc' = [pc EXCEPT ![t] = "running"]
  /\ job' = [job EXCEPT ![t] = Head(queue)]
  /\ UNCHANGED <<dead, limits, num_threads, pusher, destroyer, outcome, done>>

(* pool->function returns. *)
WorkerFinish(t) ==
  /\ pc[t] = "running"
  /\ pc' = [pc EXCEPT ![t] = "ready"]
  /\ job' = [job EXCEPT ![t] = NoTask]
  /\ done' = done \cup {job[t]}
  /\ UNCHANGED <<dead, limits, counts, queue, pusher, destroyer, outcome>>

(* The thread does not check itself out. *)
WorkerDie_Bug(t) ==
  /\ LooksAtQueue(t) /\ queue = << >> /\ dead
  /\ num_idle_threads' = IF num_idle_threads > 0 THEN num_idle_threads - 1
                                                 ELSE num_idle_threads
  /\ pc' = [pc EXCEPT ![t] = "none"]
  /\ UNCHANGED <<dead, limits, num_threads, num_tasks, queue, job, pusher,
                 destroyer, outcome, done>>

(* Nothing to do and the pool is being destroyed. *)
WorkerDie(t) ==
  /\ LooksAtQueue(t)
  /\ queue = << >>
  /\ dead
  /\ num_threads' = IF num_threads > 0 THEN num_threads - 1 ELSE num_threads
  /\ num_idle_threads' = IF num_idle_threads > 0 THEN num_idle_threads - 1
                                                 ELSE num_idle_threads
  /\ pc' = [pc EXCEPT ![t] = "none"]
  /\ UNCHANGED <<dead, limits, num_tasks, queue, job, pusher, destroyer,
                 outcome, done>>

(* Nothing to do: count as idle and wait, with a deadline that has already *)
(* passed (pool->wait is never set) when there are idle threads enough.    *)
WorkerWait(t) ==
  /\ LooksAtQueue(t)
  /\ queue = << >>
  /\ ~dead
  /\ num_idle_threads' = num_idle_threads + 1
  /\ LET untimed == \/ max_idle_threads = 0
                    \/ max_idle_threads > num_idle_threads'
     IN pc' = [pc EXCEPT ![t] = IF untimed THEN "waiting" ELSE "timed"]
  /\ UNCHANGED <<dead, limits, num_threads, num_tasks, queue, job, pusher,
                 destroyer, outcome, done>>

(* pthread_cond_timedwait gives up: no signal reaches this thread any more. *)
WaitExpires(t) ==
  /\ pc[t] = "timed"
  /\ pc' = [pc EXCEPT ![t] = "expired"]
  /\ UNCHANGED <<dead, limits, counts, queue, job, pusher, destroyer, outcome,
                 done>>

(* The thread does not check itself out. *)
WorkerTimeout_Bug(t) ==
  /\ pc[t] = "expired"
  /\ pc' = [pc EXCEPT ![t] = "none"]
  /\ UNCHANGED <<dead, limits, counts, queue, job, pusher, destroyer, outcome,
                 done>>

(* "just a timeout, terminate self": num_idle_threads is left as it was. *)
WorkerTimeout(t) ==
  /\ pc[t] = "expired"
  /\ num_threads' = IF num_threads > 0 THEN num_threads - 1 ELSE num_threads
  /\ pc' = [pc EXCEPT ![t] = "none"]
  /\ UNCHANGED <<dead, limits, num_idle_threads, num_tasks, queue, job, pusher,
                 destroyer, outcome, done>>

(* The wait may return without a signal. *)
SpuriousWakeup(t) ==
  /\ t \in Waiters
  /\ num_idle_threads < SpuriousCap
  /\ pc' = [pc EXCEPT ![t] = "woken"]
  /\ UNCHANGED <<dead, limits, counts, queue, job, pusher, destroyer, outcome,
                 done>>
-----------------------------------------------------------------------------
(* vt_thread_pool_destroy.  Its callers are done pushing: main pushes and  *)
(* destroys from one thread, and an asynchronous dict is destroyed when    *)
(* the workers of its context are.                                         *)
DestroyCall ==
  /\ destroyer = "idle"
  /\ \A p \in Pushers : pusher[p] = "idle"
  /\ destroyer' = "loop"
  /\ UNCHANGED <<dead, limits, counts, queue, pc, job, pusher, outcome, done>>

(* Threads seem idle: wake all that wait, unlock, and go round again. *)
DestroyBroadcast ==
  /\ destroyer = "loop"
  /\ dead' = TRUE
  /\ num_idle_threads > 0
  /\ pc' = [t \in Threads |-> IF t \in Waiters THEN "woken" ELSE pc[t]]
  /\ UNCHANGED <<limits, counts, queue, job, pusher, destroyer, outcome, done>>

(* Threads or tasks are left: wait two seconds for them. *)
DestroyWait ==
  /\ destroyer = "loop"
  /\ dead' = TRUE
  /\ num_idle_threads <= 0
  /\ num_threads > 0 \/ num_tasks > 0
  /\ destroyer' = "wait"
  /\ UNCHANGED <<limits, counts, queue, pc, job, pusher, outcome, done>>

DestroyWake ==
  /\ destroyer = "wait"
  /\ destroyer' = "loop"
  /\ UNCHANGED <<dead, limits, counts, queue, pc, job, pusher, outcome, done>>

(* Tasks nobody works on are forgotten. *)
DestroyFree_Bug ==
  /\ destroyer = "loop"
  /\ dead' = TRUE
  /\ num_idle_threads <= 0
  /\ num_threads <= 0
  /\ destroyer' = "done"
  /\ UNCHANGED <<limits, counts, queue, pc, job, pusher, outcome, done>>

(* Nothing is left: the pool is freed. *)
DestroyFree ==
  /\ destroyer = "loop"
  /\ dead' = TRUE
  /\ num_idle_threads <= 0
  /\ num_threads <= 0
  /\ num_tasks <= 0
  /\ destroyer' = "done"
  /\ UNCHANGED <<limits, counts, queue, pc, job, pusher, outcome, done>>
-----------------------------------------------------------------------------
Setters ==
  \/ \E n \in ThreadLimits : SetMaxThreads(n)
  \/ \E n \in IdleLimits : SetMaxIdleThreads(n)
  \/ \E n \in TaskLimits : SetMaxQueued(n)

Push(p, k) ==
  \/ PushRefused(p, k)
  \/ PushToIdle(p, k)
  \/ \E t \in Threads : PushToNew(p, k, t)
  \/ PushStranded(p, k)

Worker(t) ==
  \/ WorkerTake(t)
  \/ WorkerFinish(t)
  \/ WorkerDie(t)
  \/ WorkerWait(t)
  \/ WaitExpires(t)
  \/ WorkerTimeout(t)

Destroy ==
  \/ DestroyBroadcast
  \/ DestroyWait
  \/ DestroyWake
  \/ DestroyFree

Next ==
  \/ Setters
  \/ \E p \in Pushers, k \in Tasks : Push(p, k)
  \/ \E p \in Pushers : PushSignal(p)
  \/ \E t \in Threads : Worker(t) \/ SpuriousWakeup(t)
  \/ DestroyCall
  \/ Destroy

(* A thread that can run does, the lock is handed out fairly, and task     *)
(* functions return.  Nobody has to push, tune or destroy the pool, and    *)
(* no wakeup has to be spurious.                                           *)
Fairness ==
  /\ \A p \in Pushers : WF_vars(PushSignal(p))
  /\ \A t \in Threads : WF_vars(Worker(t))
  /\ WF_vars(Destroy)

Spec == Init /\ [][Next]_vars
FairSpec == Spec /\ Fairness
-----------------------------------------------------------------------------
(* The values the fields and the program counters can have. *)
TypeOK ==
  /\ dead \in BOOLEAN
  /\ max_threads \in ThreadLimits
  /\ max_idle_threads \in Nat /\ max_tasks \in Nat
  /\ num_threads \in Nat /\ num_idle_threads \in Int /\ num_tasks \in Nat
  /\ queue \in Seq(Tasks)
  /\ pc \in [Threads -> ThreadStates]
  /\ job \in [Threads -> Tasks \cup {NoTask}]
  /\ pusher \in [Pushers -> {"idle", "signal"}]
  /\ destroyer \in {"idle", "loop", "wait", "done"}
  /\ outcome \in [Tasks -> {"new", "accepted", "refused"}]
  /\ done \subseteq Tasks

(* The counters that decide whether the pool may be freed agree with the   *)
(* threads and the tasks that exist, through every create, exit, timeout   *)
(* and shift: vt_thread_pool_destroy looks at nothing else.                *)
CountsExact ==
  /\ num_threads = Cardinality(Live)
  /\ num_tasks = Len(queue)

(* pool->function is entered once per task: a task is in the queue at one  *)
(* place, on one thread, or finished, and never in two of these.           *)
OnePlace ==
  /\ \A i, j \in 1..Len(queue) : queue[i] = queue[j] => i = j
  /\ \A t, u \in Threads : job[t] = job[u] /\ job[t] # NoTask => t = u
  /\ Queued \cap Running = {}
  /\ (Queued \cup Running) \cap done = {}

(* A task the caller was told is accepted is not dropped by anything that  *)
(* happens later, destruction included.                                    *)
AcceptedKept ==
  \A k \in Tasks :
    outcome[k] = "accepted" => k \in Queued \cup Running \cup done

(* When vt_thread_pool_destroy frees the pool no thread is left inside     *)
(* thread_pool_worker and no task is left in its list.                     *)
FreedQuiet == destroyer = "done" => Live = {} /\ queue = << >>

(* THREADS_DEPLETED compares with <, so a limit of m lets m + 1 threads    *)
(* run, but never more, whatever pushes and exits are interleaved.         *)
ThreadBound ==
  0 \notin ThreadLimits => \E m \in ThreadLimits : num_threads <= m + 1

(* The threads num_idle_threads is meant to count: those that are not      *)
(* running a task nor just back from one.                                  *)
IdleExact ==
  num_idle_threads =
    Cardinality({t \in Threads : pc[t] \notin {"none", "running", "ready"}})

(* Every task that is in the list is run in the end. *)
QueuedRuns == \A k \in Tasks : k \in Queued ~> k \in done

(* Without a limit on the threads a task in the list is run in the end,    *)
(* even though num_idle_threads drifts, if no thread ever gives up waiting. *)
UntimedQueuedRuns ==
  [](\A t \in Threads : pc[t] \notin {"timed", "expired"}) => QueuedRuns

(* A task the caller was told is accepted is run, and a pool that is being *)
(* destroyed is freed in the end, as long as the idle count is right.      *)
ExactAcceptedRuns ==
  []IdleExact => \A k \in Tasks : outcome[k] = "accepted" ~> k \in done

ExactDestroyEnds == []IdleExact => (dead ~> destroyer = "done")

(* "new tasks are not accepted, but we need to make sure that existing     *)
(* tasks finish correctly" (thread_pool.c, in vt_thread_pool_destroy).     *)
ExistingTasksFinish == \A k \in Tasks : (dead /\ k \in Queued) ~> k \in done

(* The threads, the counters and the wakeups implement the plain list of   *)
(* tasks of TaskService.                                                   *)
Service == INSTANCE TaskService WITH
  pending <- queue, running <- Running, finished <- done,
  closed <- dead, gone <- destroyer = "done"

Refinement == Service!ServiceSpec
=============================================================================
