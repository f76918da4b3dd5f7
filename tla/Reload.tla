------------------------------- MODULE Reload -------------------------------
(***************************************************************************)
(* The life of the daemon: main of src/main.c with its signal thread       *)
(* (src/signal.c), the pool of workers it hands connections to, the        *)
(* statistics (src/stats.c) and the reload that replaces context, pool and *)
(* statistics by a new generation while workers go on with the old one.    *)
(*                                                                         *)
(* Workers learn what to use from warg, one record all pools share and     *)
(* nothing protects.  What ThreadPool shows of a pool is taken for granted *)
(* here: a connection that was pushed waits in queue until a thread takes  *)
(* it, and vt_thread_pool_destroy returns when queue and threads are gone. *)
(*                                                                         *)
(* A definition whose name ends in _Bug is the one that follows it with a  *)
(* slip in it; no specification uses it.                                   *)
(***************************************************************************)
EXTENDS Integers, FiniteSets

CONSTANTS Threads,      \* threads a pool has at most
          Sizes,        \* how many dicts a configuration may have
          MaxReloads,   \* bound: contexts made after the first one
          MaxConns      \* bound: connections accepted

ASSUME ReloadAssumption ==
  /\ IsFiniteSet(Threads)
  /\ Sizes \subseteq Nat \ {0} /\ Sizes # {}
  /\ MaxReloads \in Nat /\ MaxConns \in Nat

(* Generation g is the g-th context made, with the pool and the statistics *)
(* made for it.                                                            *)
Gens == 0..MaxReloads

VARIABLES
  sig,           \* _signal
  sigthread,     \* is vt_signal_worker waiting for signals?
  main,          \* where main is, or how the process ended
  gen, made,     \* main's pool, ctx and stats; the last context made
  warg,          \* what the workers are given
  ndicts,        \* how many dicts each context has
  context,       \* state of each context
  stats,         \* state of the statistics
  starting,      \* printing threads that have not run yet
  printing,      \* printing threads in their loop
  pool, queue,   \* state of each pool, connections in its list
  cleaner,       \* vt_cleanup_worker for each generation
  worker,        \* the threads of each pool
  accepted,      \* history: connections that went to a pool
  handled,       \* history: connections a worker evaluated or gave up
  why            \* history: what ended the process by accident

mainvars == <<main, gen, made, warg, ndicts>>
signals == <<sig, sigthread>>
statvars == <<stats, starting, printing>>
pools == <<pool, queue>>
conns == <<accepted, handled>>
vars == <<mainvars, signals, context, statvars, pools, cleaner, worker, conns, why>>

NoThread == [pc |-> "none", context |-> 0, stats |-> 0, size |-> 0]
Running == main \notin {"done", "crashed", "panicked"}
worker_flag(g) == printing[g] > 0

-----------------------------------------------------------------------------
(* main up to its loop; a failure on the way ends the program.             *)
Init ==
  /\ sig = "none" /\ sigthread = "waiting"
  /\ main = "loop" /\ gen = 0 /\ made = 0
  /\ warg = [context |-> 0, stats |-> 0]
  /\ \E n \in Sizes : ndicts = [g \in Gens |-> IF g = 0 THEN n ELSE 0]
  /\ context = [g \in Gens |-> IF g = 0 THEN "live" ELSE "none"]
  /\ stats = [g \in Gens |-> IF g = 0 THEN "live" ELSE "none"]
  /\ starting = [g \in Gens |-> IF g = 0 THEN 1 ELSE 0]
  /\ printing = [g \in Gens |-> 0]
  /\ pool = [g \in Gens |-> IF g = 0 THEN "live" ELSE "none"]
  /\ queue = [g \in Gens |-> 0]
  /\ cleaner = [g \in Gens |-> "none"]
  /\ worker = [g \in Gens |-> [t \in Threads |-> NoThread]]
  /\ accepted = 0 /\ handled = 0
  /\ why = "none"

-----------------------------------------------------------------------------
(* vt_signal_worker.  SIGTERM ends the thread and replaces what is there;  *)
(* SIGHUP is only noted when nothing is.                                   *)
CatchTerm_Bug ==
  /\ Running /\ sigthread = "waiting"
  /\ sig' = IF sig = "none" THEN "term" ELSE sig
  /\ sigthread' = "ended"
  /\ UNCHANGED <<mainvars, context, statvars, pools, cleaner, worker, conns, why>>
CatchTerm ==
  /\ Running /\ sigthread = "waiting"
  /\ sig' = "term" /\ sigthread' = "ended"
  /\ UNCHANGED <<mainvars, context, statvars, pools, cleaner, worker, conns, why>>

CatchHup ==
  /\ Running /\ sigthread = "waiting"
  /\ sig' = IF sig = "none" THEN "hup" ELSE sig
  /\ UNCHANGED <<mainvars, sigthread, context, statvars, pools, cleaner, worker, conns, why>>

-----------------------------------------------------------------------------
Goto(l) == main' = l
End(l, reason) == main' = l /\ why' = reason
Unchanged_Main == UNCHANGED <<sigthread, queue, worker, conns>>

(* select returned; vt_watchdog_signal hands over the signal and forgets   *)
(* it.                                                                     *)
CheckSignal ==
  /\ main = "loop"
  /\ sig' = "none"
  /\ \/ sig = "none" /\ Goto("accept")
     \/ sig = "term" /\ Goto("closing")
     \/ sig = "hup" /\ Goto("reload")
  /\ UNCHANGED <<gen, made, warg, ndicts, context, statvars, pool, cleaner, why>>
  /\ Unchanged_Main

(* A connection is accepted and pushed, or there is none, or the pool does *)
(* not take it, which main ignores.                                        *)
Accept ==
  /\ main = "accept"
  /\ Goto("loop")
  /\ \/ UNCHANGED <<queue, accepted>>
     \/ /\ accepted < MaxConns
        /\ accepted' = accepted + 1
        /\ queue' = [queue EXCEPT ![gen] = @ + 1]
  /\ UNCHANGED <<gen, made, warg, ndicts, signals, context, statvars, pool, cleaner, worker,
                 handled, why>>

(* select or accept fails for good.                                        *)
AcceptEnds ==
  /\ main = "accept"
  /\ End("panicked", "fatal")
  /\ UNCHANGED <<gen, made, warg, ndicts, sig, context, statvars, pool, cleaner>>
  /\ Unchanged_Main

(* The configuration cannot be parsed or makes no context; beyond the      *)
(* bound every reload fails here.                                          *)
ReloadFails ==
  /\ main = "reload"
  /\ Goto("accept")
  /\ UNCHANGED <<gen, made, warg, ndicts, sig, context, statvars, pool, cleaner, why>>
  /\ Unchanged_Main

(* The new context and statistics, which may be NULL, are made; the thread *)
(* that prints is started for the old statistics.                          *)
MakeContext ==
  /\ main = "reload" /\ stats[gen] = "live" /\ made < MaxReloads
  /\ made' = made + 1
  /\ context' = [context EXCEPT ![made + 1] = "live"]
  /\ \E s \in {"live", "null"} : stats' = [stats EXCEPT ![made + 1] = s]
  /\ \E n \in Sizes : ndicts' = [ndicts EXCEPT ![made + 1] = n]
  /\ starting' = [starting EXCEPT ![gen] = @ + 1]
  /\ Goto("context")
  /\ UNCHANGED <<gen, warg, sig, printing, pool, cleaner, why>>
  /\ Unchanged_Main

(* assert (stats) in vt_stats_thread, or no thread.                        *)
MakeContextEnds ==
  /\ main = "reload" /\ made < MaxReloads
  /\ \/ stats[gen] = "null" /\ End("crashed", "assert")
     \/ stats[gen] = "live" /\ End("panicked", "thread")
  /\ UNCHANGED <<gen, made, warg, ndicts, sig, context, statvars, pool, cleaner>>
  /\ Unchanged_Main

SetContext ==
  /\ main = "context"
  /\ warg' = [warg EXCEPT !.context = made]
  /\ Goto("stats")
  /\ UNCHANGED <<gen, made, ndicts, sig, context, statvars, pool, cleaner, why>>
  /\ Unchanged_Main

SetStats ==
  /\ main = "stats"
  /\ warg' = [warg EXCEPT !.stats = made]
  /\ Goto("pool")
  /\ UNCHANGED <<gen, made, ndicts, sig, context, statvars, pool, cleaner, why>>
  /\ Unchanged_Main

MakePool ==
  /\ main = "pool"
  /\ pool' = [pool EXCEPT ![made] = "live"]
  /\ Goto("destroy")
  /\ UNCHANGED <<gen, made, warg, ndicts, sig, context, statvars, cleaner, why>>
  /\ Unchanged_Main

(* No pool: the reload is given up and the new context destroyed; warg     *)
(* still names it.                                                         *)
MakePoolFails ==
  /\ main = "pool"
  /\ context' = [context EXCEPT ![made] = "destroyed"]
  /\ Goto("accept")
  /\ UNCHANGED <<gen, made, warg, ndicts, sig, statvars, pool, cleaner, why>>
  /\ Unchanged_Main

(* vt_stats_destroy of the old statistics: stats->dead is not set.         *)
DestroyStats ==
  /\ main \in {"destroy", "waiting"}
  /\ ~worker_flag(gen)
  /\ stats' = [stats EXCEPT ![gen] = "freed"]
  /\ Goto("cleanup")
  /\ UNCHANGED <<gen, made, warg, ndicts, sig, context, starting, printing, pool, cleaner, why>>
  /\ Unchanged_Main

DestroyStatsWaits ==
  /\ main = "destroy" /\ worker_flag(gen)
  /\ Goto("waiting")
  /\ UNCHANGED <<gen, made, warg, ndicts, sig, context, statvars, pool, cleaner, why>>
  /\ Unchanged_Main

(* vt_cleanup starts a thread for the old pool and context, or leaks them. *)
Cleanup ==
  /\ main = "cleanup"
  /\ \E c \in {"started", "none"} : cleaner' = [cleaner EXCEPT ![gen] = c]
  /\ gen' = made
  /\ Goto("accept")
  /\ UNCHANGED <<made, warg, ndicts, sig, context, statvars, pool, why>>
  /\ Unchanged_Main

(* The socket is closed, vt_cleanup (..., 0) does nothing, main returns.   *)
Terminate ==
  /\ main = "closing"
  /\ Goto("done")
  /\ UNCHANGED <<gen, made, warg, ndicts, sig, context, statvars, pool, cleaner, why>>
  /\ Unchanged_Main

Main ==
  \/ CheckSignal \/ Accept \/ AcceptEnds \/ ReloadFails \/ MakeContext
  \/ MakeContextEnds \/ SetContext \/ SetStats \/ MakePool \/ MakePoolFails
  \/ DestroyStats \/ DestroyStatsWaits \/ Cleanup \/ Terminate

-----------------------------------------------------------------------------
(* What a thread does with memory that was freed: it goes well or it does  *)
(* not.                                                                    *)
Unowned(reason) == UNCHANGED <<main, why>> \/ End("crashed", reason)

(* vt_stats_worker: one thread per statistics goes into the loop, to print *)
(* every minute for as long as stats->dead is not set, which is for ever.  *)
PrinterStarts(g) ==
  /\ Running /\ starting[g] > 0
  /\ starting' = [starting EXCEPT ![g] = @ - 1]
  /\ \/ stats[g] = "live" /\ worker_flag(g) /\ UNCHANGED <<printing, main, why>>
     \/ /\ stats[g] = "live" /\ ~worker_flag(g)
        /\ printing' = [printing EXCEPT ![g] = 1]
        /\ UNCHANGED <<main, why>>
     \/ stats[g] = "freed" /\ UNCHANGED printing /\ Unowned("printer")
  /\ UNCHANGED <<gen, made, warg, ndicts, signals, context, stats, pools, cleaner, worker, conns>>

-----------------------------------------------------------------------------
(* vt_cleanup_worker.                                                      *)
Unchanged_Cleaner ==
  UNCHANGED <<mainvars, signals, statvars, queue, worker, conns, why>>

CleanerCloses(g) ==
  /\ Running /\ cleaner[g] = "started"
  /\ pool' = [pool EXCEPT ![g] = "closing"]
  /\ cleaner' = [cleaner EXCEPT ![g] = "pool"]
  /\ UNCHANGED context /\ Unchanged_Cleaner

CleanerFrees_Bug(g) ==
  /\ Running /\ cleaner[g] = "pool"
  /\ \A t \in Threads : worker[g][t] = NoThread
  /\ pool' = [pool EXCEPT ![g] = "freed"]
  /\ cleaner' = [cleaner EXCEPT ![g] = "context"]
  /\ UNCHANGED context /\ Unchanged_Cleaner
CleanerFrees(g) ==
  /\ Running /\ cleaner[g] = "pool"
  /\ queue[g] = 0
  /\ \A t \in Threads : worker[g][t] = NoThread
  /\ pool' = [pool EXCEPT ![g] = "freed"]
  /\ cleaner' = [cleaner EXCEPT ![g] = "context"]
  /\ UNCHANGED context /\ Unchanged_Cleaner

CleanerDestroys_Bug(g) ==
  /\ Running /\ cleaner[g] \in {"started", "pool"}
  /\ context' = [context EXCEPT ![g] = "destroyed"]
  /\ cleaner' = [cleaner EXCEPT ![g] = "done"]
  /\ UNCHANGED pool /\ Unchanged_Cleaner
CleanerDestroys(g) ==
  /\ Running /\ cleaner[g] = "context"
  /\ context' = [context EXCEPT ![g] = "destroyed"]
  /\ cleaner' = [cleaner EXCEPT ![g] = "done"]
  /\ UNCHANGED pool /\ Unchanged_Cleaner

Cleaner(g) == CleanerCloses(g) \/ CleanerFrees(g) \/ CleanerDestroys(g)

-----------------------------------------------------------------------------
(* A thread of pool g: vt_worker.  Its result, made for the context of the *)
(* first request it sees, stays with it.                                   *)
Unchanged_Worker ==
  UNCHANGED <<gen, made, warg, ndicts, signals, context, statvars, pool, cleaner>>
At(g, t, l) == Running /\ worker[g][t].pc = l
Becomes(g, t, w) == worker' = [worker EXCEPT ![g][t] = w]

TakeConnLive_Bug(g, t) ==
  /\ Running /\ pool[g] = "live" /\ worker[g][t].pc \in {"none", "idle"}
  /\ queue[g] > 0
  /\ queue' = [queue EXCEPT ![g] = @ - 1]
  /\ Becomes(g, t, [worker[g][t] EXCEPT !.pc = "context"])
  /\ UNCHANGED <<main, why, conns>> /\ Unchanged_Worker
TakeConn(g, t) ==
  /\ Running /\ worker[g][t].pc \in {"none", "idle"}
  /\ queue[g] > 0
  /\ queue' = [queue EXCEPT ![g] = @ - 1]
  /\ Becomes(g, t, [worker[g][t] EXCEPT !.pc = "context"])
  /\ UNCHANGED <<main, why, conns>> /\ Unchanged_Worker

ReadContext(g, t) ==
  /\ At(g, t, "context")
  /\ Becomes(g, t, [worker[g][t] EXCEPT !.pc = "stats", !.context = warg.context])
  /\ UNCHANGED <<main, why, queue, conns>> /\ Unchanged_Worker

ReadStats(g, t) ==
  /\ At(g, t, "stats")
  /\ Becomes(g, t, [worker[g][t] EXCEPT !.pc = "evaluate", !.stats = warg.stats])
  /\ UNCHANGED <<main, why, queue, conns>> /\ Unchanged_Worker

(* The result a thread keeps has as many entries as the context had that   *)
(* it was made for.                                                        *)
ResultSize_Bug(w) == IF w.size = 0 THEN ndicts[w.context] + 1 ELSE w.size
ResultSize(w) == IF w.size = 0 THEN ndicts[w.context] ELSE w.size

(* The request is evaluated and answered.  A result too short for the      *)
(* context is used all the same: it depends on the checks whether memory   *)
(* that is not there is touched.                                           *)
Evaluate(g, t) ==
  LET w == worker[g][t] IN
  /\ At(g, t, "evaluate") /\ context[w.context] = "live"
  /\ \/ /\ Becomes(g, t, [w EXCEPT !.pc = "update", !.size = ResultSize(w)])
        /\ handled' = handled + 1
        /\ UNCHANGED <<main, why>>
     \/ /\ ResultSize(w) < ndicts[w.context] /\ End("crashed", "result")
        /\ UNCHANGED <<worker, handled>>
  /\ UNCHANGED <<queue, accepted>> /\ Unchanged_Worker

(* No memory, or no request that can be parsed: nothing is evaluated.      *)
GiveUp(g, t) ==
  LET w == worker[g][t] IN
  /\ At(g, t, "evaluate") /\ context[w.context] = "live"
  /\ \E size \in {w.size, ResultSize(w)} :
       Becomes(g, t, [w EXCEPT !.pc = "idle", !.context = 0, !.stats = 0, !.size = size])
  /\ handled' = handled + 1
  /\ UNCHANGED <<main, why, queue, accepted>> /\ Unchanged_Worker

(* Nothing is left of the context, no response either: strlen (NULL).      *)
UseDestroyed(g, t) ==
  /\ At(g, t, "evaluate") /\ context[worker[g][t].context] = "destroyed"
  /\ End("crashed", "context")
  /\ UNCHANGED <<worker, queue, conns>> /\ Unchanged_Worker

(* vt_stats_update and vt_result_reset.                                    *)
UpdateStats(g, t) ==
  LET w == worker[g][t] IN
  /\ At(g, t, "update")
  /\ \/ /\ stats[w.stats] = "live" /\ ndicts[w.stats] = w.size
        /\ Becomes(g, t, [w EXCEPT !.pc = "idle", !.context = 0, !.stats = 0])
        /\ UNCHANGED <<main, why>>
     \/ /\ stats[w.stats] = "live" /\ ndicts[w.stats] # w.size
        /\ End("panicked", "counters") /\ UNCHANGED worker
     \/ /\ stats[w.stats] = "null" /\ End("crashed", "stats") /\ UNCHANGED worker
     \/ /\ stats[w.stats] = "freed" /\ Unowned("stats")
        /\ Becomes(g, t, [w EXCEPT !.pc = "idle", !.context = 0, !.stats = 0])
  /\ UNCHANGED <<queue, conns>> /\ Unchanged_Worker

(* The pool is dead and nothing is left to do.                             *)
WorkerExits(g, t) ==
  /\ At(g, t, "idle") /\ pool[g] = "closing" /\ queue[g] = 0
  /\ Becomes(g, t, NoThread)
  /\ UNCHANGED <<main, why, queue, conns>> /\ Unchanged_Worker

Worker(g, t) ==
  \/ TakeConn(g, t) \/ ReadContext(g, t) \/ ReadStats(g, t)
  \/ Evaluate(g, t) \/ GiveUp(g, t) \/ UseDestroyed(g, t)
  \/ UpdateStats(g, t) \/ WorkerExits(g, t)

-----------------------------------------------------------------------------
Next ==
  \/ CatchTerm \/ CatchHup \/ Main
  \/ \E g \in Gens : PrinterStarts(g) \/ Cleaner(g) \/ \E t \in Threads : Worker(g, t)
Spec == Init /\ [][Next]_vars

(* Every thread runs; signals and connections come or do not.              *)
Fairness ==
  /\ WF_vars(Main)
  /\ \A g \in Gens : WF_vars(PrinterStarts(g)) /\ WF_vars(Cleaner(g))
  /\ \A g \in Gens : \A t \in Threads : WF_vars(Worker(g, t))
FairSpec == Spec /\ Fairness

-----------------------------------------------------------------------------
MainStates == {"loop", "accept", "reload", "context", "stats", "pool", "destroy", "waiting",
               "cleanup", "closing", "done", "crashed", "panicked"}
ThreadType == [pc : {"none", "idle", "context", "stats", "evaluate", "update"},
               context : Gens, stats : Gens, size : Sizes \cup {0}]

(* Type invariant.                                                         *)
TypeOK ==
  /\ sig \in {"none", "hup", "term"} /\ sigthread \in {"waiting", "ended"}
  /\ main \in MainStates /\ gen \in Gens /\ made \in Gens
  /\ warg \in [context : Gens, stats : Gens] /\ ndicts \in [Gens -> Sizes \cup {0}]
  /\ context \in [Gens -> {"none", "live", "destroyed"}]
  /\ stats \in [Gens -> {"none", "live", "freed", "null"}]
  /\ starting \in [Gens -> 0..(MaxReloads + 1)] /\ printing \in [Gens -> Nat]
  /\ pool \in [Gens -> {"none", "live", "closing", "freed"}]
  /\ queue \in [Gens -> Nat]
  /\ cleaner \in [Gens -> {"none", "started", "pool", "context", "done"}]
  /\ worker \in [Gens -> [Threads -> ThreadType]]
  /\ accepted \in 0..MaxConns /\ handled \in Nat
  /\ why \in {"none", "fatal", "assert", "thread", "printer", "context", "result", "counters", "stats"}

(* A reload loses no connection and answers none twice: each one that was  *)
(* accepted has been handled, is on a thread, or waits in the list of a    *)
(* pool that still exists.                                                 *)
Waiting ==
  {p \in Gens \X (1..MaxConns) : p[2] <= queue[p[1]] /\ pool[p[1]] \in {"live", "closing"}}
Busy == {p \in Gens \X Threads : worker[p[1]][p[2]].pc \in {"context", "stats", "evaluate"}}
NoConnLost == accepted = handled + Cardinality(Waiting) + Cardinality(Busy)

(* A thread never works with a context older than its pool, and the one    *)
(* its pool was made with is not destroyed under it: only a newer one,     *)
(* which it read from warg after a reload, can be.                         *)
OwnContext ==
  \A g \in Gens : \A t \in Threads :
    LET w == worker[g][t] IN
    w.pc \in {"stats", "evaluate"} =>
      w.context >= g /\ (context[w.context] = "live" \/ w.context > g)

(* Without a reload nothing ends the daemon by accident; a result or       *)
(* counters that do not fit need configurations of different sizes, a      *)
(* destroyed context a thread of a pool older than it.                     *)
AccidentsExplained ==
  /\ why \notin {"none", "fatal", "thread"} => made > 0
  /\ why \in {"result", "counters"} => \E g, h \in 0..made : ndicts[g] # ndicts[h]
  /\ why = "context" =>
       \E g \in Gens : \E t \in Threads :
         worker[g][t].pc = "evaluate" /\ worker[g][t].context > g

terminated == sigthread = "ended"

(* Once SIGTERM was caught main starts no other reload: SIGHUP does not    *)
(* replace it, not even when both are there before main looks.             *)
TermStands == [][terminated /\ main = "loop" => main' # "reload"]_vars

(* SIGTERM ends the daemon, unless a reload is stuck before.               *)
TermEnds == terminated ~> main = "waiting" \/ ~Running

(* A reload leaves no connection behind: each one that was accepted is     *)
(* handled, be it by the current pool or an old one that is being          *)
(* destroyed, unless the process ends.                                     *)
AllHandled == \A n \in 1..MaxConns : accepted = n ~> handled >= n \/ ~Running

(* "The for loop below is used to terminate the worker thread if it's      *)
(* still running" (src/stats.c:96): vt_stats_destroy comes to an end.      *)
StatsDestroyEnds == main = "destroy" ~> main = "cleanup" \/ ~Running
=============================================================================
