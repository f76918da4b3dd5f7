---------------------------- MODULE ReloadProofs ----------------------------
(***************************************************************************)
(* Proofs about Reload, for any number of threads, reloads, connections    *)
(* and any sizes of configurations.  What is new is ordered by             *)
(* generation: the pools up to gen have connections and threads, warg is   *)
(* never older than gen, and a pool's own context outlives the pool        *)
(* (GenInv, PoolInv, WorkInv).  What ends the process by accident is       *)
(* explained by what was made before (SizeInv).                            *)
(***************************************************************************)
EXTENDS Reload, FiniteSetTheorems, TLAPS

\* The places of main between the new context and the new pool, and from there to the
\* end of the reload.
Building == {"context", "stats", "pool"}
Replacing == {"destroy", "waiting", "cleanup"}
Ended == {"closing", "done", "crashed", "panicked"}

TermInv == terminated => sig = "term" \/ main \in Ended

\* Generations: gen is the one main works with; a newer one exists while it is replaced,
\* or when a reload was given up.
GenInv ==
  /\ gen <= warg.context /\ warg.context <= made /\ warg.stats <= made
  /\ \A g \in Gens : starting[g] <= made + 1
  /\ main \in Building \cup Replacing => gen < made
  /\ main \in {"stats", "pool"} \cup Replacing => warg.context = made
  /\ main \in Building => context[made] = "live"

\* A pool, what cleans it up, and its own context.
PoolInv ==
  /\ pool[gen] = "live"
  /\ main \in Replacing => pool[made] = "live"
  /\ \A g \in Gens :
       /\ pool[g] # "none" => g <= gen \/ (g = made /\ main \in Replacing \cup Ended)
       /\ cleaner[g] # "none" => g < gen
       /\ cleaner[g] = "none" => pool[g] \in {"none", "live"}
       /\ cleaner[g] = "started" => pool[g] = "live"
       /\ cleaner[g] = "pool" => pool[g] = "closing"
       /\ cleaner[g] \in {"context", "done"} => pool[g] = "freed"
       /\ pool[g] # "none" /\ cleaner[g] # "done" => context[g] = "live"

\* Connections and threads are in pools that exist; a thread that has read warg has not
\* read a context older than its pool.
WorkInv ==
  /\ \A g \in Gens :
       /\ queue[g] <= accepted
       /\ queue[g] > 0 => g <= gen /\ pool[g] \in {"live", "closing"}
  /\ \A g \in Gens : \A t \in Threads :
       LET w == worker[g][t] IN
       /\ w # NoThread => g <= gen /\ pool[g] \in {"live", "closing"}
       /\ w.pc \in {"stats", "evaluate"} => g <= w.context

\* What was made has a size, and a result has the size of a context that was made.
Sized(w) ==
  /\ w.context <= made /\ w.stats <= made
  /\ w.size # 0 => \E h \in Gens : h <= made /\ ndicts[h] = w.size
  /\ w.pc = "update" => w.size # 0
SizeInv ==
  /\ \A g \in Gens : g <= made => ndicts[g] \in Sizes
  /\ \A g \in Gens : stats[g] \in {"freed", "null"} => made > 0
  /\ \A g \in Gens : \A t \in Threads : Sized(worker[g][t])

\* After an accident nothing happens.
WhyInv == why # "none" => main \in {"crashed", "panicked"}

Inv ==
  /\ TypeOK /\ TermInv /\ GenInv /\ PoolInv /\ WorkInv /\ SizeInv /\ WhyInv
  /\ NoConnLost /\ AccidentsExplained
-----------------------------------------------------------------------------
LEMMA GensType == Gens \subseteq Nat /\ 0 \in Gens /\ MaxReloads \in Nat /\ MaxConns \in Nat
  BY ReloadAssumption DEF Gens

LEMMA SizesType == Sizes \subseteq Nat \ {0}
  BY ReloadAssumption

(* One thread of one pool changes, the others stay as they are.            *)
LEMMA OneThread ==
  ASSUME TypeOK, NEW g \in Gens, NEW t \in Threads, NEW w \in ThreadType, Becomes(g, t, w)
  PROVE  /\ worker' \in [Gens -> [Threads -> ThreadType]]
         /\ worker'[g][t] = w
         /\ \A h \in Gens, u \in Threads : h # g \/ u # t => worker'[h][u] = worker[h][u]
  BY DEF TypeOK, Becomes

LEMMA ThreadOf ==
  ASSUME TypeOK, NEW g \in Gens, NEW t \in Threads
  PROVE  worker[g][t] \in ThreadType
  BY DEF TypeOK

LEMMA NoThreadType == NoThread \in ThreadType
  BY GensType DEF NoThread, ThreadType

(* What a thread makes of its place has the type of a thread.              *)
LEMMA ResultSizeType ==
  ASSUME TypeOK, NEW w \in ThreadType
  PROVE  ResultSize(w) \in Sizes \cup {0}
  BY DEF TypeOK, ThreadType, ResultSize

-----------------------------------------------------------------------------
(* Type invariant.                                                         *)
LEMMA TypeInit == Init => TypeOK
  BY GensType, SizesType, NoThreadType DEF Init, TypeOK, MainStates

LEMMA TypeSignals == TypeOK /\ (CatchTerm \/ CatchHup) => TypeOK'
  BY DEF TypeOK, CatchTerm, CatchHup, mainvars, statvars, pools, conns

LEMMA TypeMain ==
  ASSUME TypeOK, GenInv, Main
  PROVE  TypeOK'
<1> USE DEF TypeOK, MainStates, statvars, conns, signals, Goto, End, Unchanged_Main
<1>1. CASE CheckSignal
  BY <1>1 DEF CheckSignal
<1>2. CASE Accept
  BY <1>2, GensType DEF Accept
<1>3. CASE AcceptEnds
  BY <1>3 DEF AcceptEnds
<1>4. CASE ReloadFails
  BY <1>4 DEF ReloadFails
<1>5. CASE MakeContext
  <2>1. made + 1 \in Gens
    BY <1>5, GensType DEF MakeContext, Gens
  <2>2. starting[gen] + 1 \in 0..(MaxReloads + 1)
    <3>1. gen \in Gens /\ made \in Gens /\ made < MaxReloads
      BY <1>5 DEF MakeContext
    <3>2. starting[gen] \in 0..(MaxReloads + 1) /\ starting[gen] <= made + 1
      BY <3>1 DEF GenInv
    <3> HIDE DEF TypeOK
    <3> QED
      BY <3>1, <3>2, GensType DEF Gens
  <2>3. context' \in [Gens -> {"none", "live", "destroyed"}]
    BY <1>5, <2>1 DEF MakeContext
  <2>4. stats' \in [Gens -> {"none", "live", "freed", "null"}] /\ ndicts' \in [Gens -> Sizes \cup {0}]
    BY <1>5, <2>1 DEF MakeContext
  <2>5. starting' \in [Gens -> 0..(MaxReloads + 1)]
    BY <1>5, <2>2 DEF MakeContext
  <2> QED
    BY <1>5, <2>1, <2>3, <2>4, <2>5 DEF MakeContext
<1>6. CASE MakeContextEnds
  BY <1>6 DEF MakeContextEnds
<1>7. CASE SetContext \/ SetStats
  BY <1>7 DEF SetContext, SetStats
<1>8. CASE MakePool \/ MakePoolFails
  BY <1>8 DEF MakePool, MakePoolFails
<1>9. CASE DestroyStats \/ DestroyStatsWaits
  BY <1>9 DEF DestroyStats, DestroyStatsWaits
<1>10. CASE Cleanup
  BY <1>10 DEF Cleanup
<1>11. CASE Terminate
  BY <1>11 DEF Terminate
<1> QED
  BY <1>1, <1>2, <1>3, <1>4, <1>5, <1>6, <1>7, <1>8, <1>9, <1>10, <1>11 DEF Main

LEMMA TypePrinter ==
  ASSUME TypeOK, NEW g \in Gens, PrinterStarts(g)
  PROVE  TypeOK'
<1>1. starting[g] - 1 \in 0..(MaxReloads + 1) /\ starting[g] \in Nat
  BY GensType DEF TypeOK, PrinterStarts
<1> QED
  BY <1>1 DEF TypeOK, PrinterStarts, Unowned, End, MainStates, signals, pools, conns

LEMMA TypeCleaner ==
  ASSUME TypeOK, NEW g \in Gens, Cleaner(g)
  PROVE  TypeOK'
<1> USE DEF TypeOK, Unchanged_Cleaner, mainvars, signals, statvars, conns
<1>1. CASE CleanerCloses(g)
  BY <1>1 DEF CleanerCloses
<1>2. CASE CleanerFrees(g)
  BY <1>2 DEF CleanerFrees
<1>3. CASE CleanerDestroys(g)
  BY <1>3 DEF CleanerDestroys
<1> QED
  BY <1>1, <1>2, <1>3 DEF Cleaner

(* Every step of a thread puts a thread in its place, or ends the process. *)
LEMMA ThreadStep ==
  ASSUME TypeOK, NEW g \in Gens, NEW t \in Threads, Worker(g, t)
  PROVE  \/ UNCHANGED worker
         \/ \E w \in ThreadType :
              /\ Becomes(g, t, w)
              /\ w.pc \in {"stats", "evaluate"} => ReadContext(g, t) \/ ReadStats(g, t)
<1> DEFINE w == worker[g][t]
<1>1. w \in ThreadType
  BY ThreadOf
<1>2. ResultSize(w) \in Sizes \cup {0} /\ warg.context \in Gens /\ warg.stats \in Gens /\ 0 \in Gens
  BY <1>1, ResultSizeType, GensType DEF TypeOK
<1>3. CASE TakeConn(g, t)
  BY <1>1, <1>3 DEF TakeConn, ThreadType
<1>4. CASE ReadContext(g, t)
  BY <1>1, <1>2, <1>4 DEF ReadContext, ThreadType
<1>5. CASE ReadStats(g, t)
  BY <1>1, <1>2, <1>5 DEF ReadStats, ThreadType
<1>6. CASE Evaluate(g, t)
  <2> DEFINE v == [w EXCEPT !.pc = "update", !.size = ResultSize(w)]
  <2>1. v \in ThreadType /\ v.pc = "update"
    BY <1>1, <1>2 DEF ThreadType
  <2>2. Becomes(g, t, v) \/ UNCHANGED worker
    BY <1>6 DEF Evaluate
  <2> QED
    BY <2>1, <2>2
<1>7. CASE GiveUp(g, t)
  <2> DEFINE v(size) == [w EXCEPT !.pc = "idle", !.context = 0, !.stats = 0, !.size = size]
  <2>1. \A size \in Sizes \cup {0} : v(size) \in ThreadType /\ v(size).pc = "idle"
    BY <1>1, <1>2 DEF ThreadType
  <2>2. \E size \in Sizes \cup {0} : Becomes(g, t, v(size))
    BY <1>1, <1>2, <1>7 DEF GiveUp, ThreadType
  <2> QED
    BY <2>1, <2>2
<1>8. CASE UseDestroyed(g, t)
  BY <1>8 DEF UseDestroyed
<1>9. CASE UpdateStats(g, t)
  <2> DEFINE v == [w EXCEPT !.pc = "idle", !.context = 0, !.stats = 0]
  <2>1. v \in ThreadType /\ v.pc = "idle"
    BY <1>1, <1>2 DEF ThreadType
  <2>2. Becomes(g, t, v) \/ UNCHANGED worker
    BY <1>9 DEF UpdateStats
  <2> QED
    BY <2>1, <2>2
<1>10. CASE WorkerExits(g, t)
  BY <1>10, NoThreadType DEF WorkerExits, NoThread
<1> QED
  BY <1>3, <1>4, <1>5, <1>6, <1>7, <1>8, <1>9, <1>10 DEF Worker

LEMMA TypeWorker ==
  ASSUME TypeOK, NEW g \in Gens, NEW t \in Threads, Worker(g, t)
  PROVE  TypeOK'
<1>1. worker' \in [Gens -> [Threads -> ThreadType]]
  BY ThreadStep, OneThread DEF TypeOK
<1> USE DEF TypeOK, MainStates, Unchanged_Worker, statvars, signals, conns, End, Unowned
<1>2. CASE TakeConn(g, t)
  BY <1>1, <1>2 DEF TakeConn
<1>3. CASE ReadContext(g, t) \/ ReadStats(g, t) \/ WorkerExits(g, t)
  BY <1>1, <1>3 DEF ReadContext, ReadStats, WorkerExits
<1>4. CASE Evaluate(g, t)
  BY <1>1, <1>4 DEF Evaluate
<1>5. CASE GiveUp(g, t)
  BY <1>1, <1>5 DEF GiveUp
<1>6. CASE UseDestroyed(g, t)
  BY <1>1, <1>6 DEF UseDestroyed
<1>7. CASE UpdateStats(g, t)
  BY <1>1, <1>7 DEF UpdateStats
<1> QED
  BY <1>2, <1>3, <1>4, <1>5, <1>6, <1>7 DEF Worker

-----------------------------------------------------------------------------
(* What each kind of step leaves alone.                                    *)
Crashes == (main' = main /\ why' = why) \/ main' \in {"crashed", "panicked"}

LEMMA SignalFrame ==
  ASSUME CatchTerm \/ CatchHup
  PROVE  UNCHANGED <<main, gen, made, warg, ndicts, context, stats, starting, printing, pool, queue,
                     cleaner, worker, accepted, handled, why>> /\ Running
  BY DEF CatchTerm, CatchHup, mainvars, statvars, pools, conns

LEMMA PrinterFrame ==
  ASSUME NEW g \in Gens, PrinterStarts(g)
  PROVE  /\ UNCHANGED <<gen, made, warg, ndicts, sig, sigthread, context, stats, pool, queue,
                        cleaner, worker, accepted, handled>>
         /\ Crashes /\ Running
  BY DEF PrinterStarts, Unowned, End, Crashes, signals, pools, conns

LEMMA CleanerFrame ==
  ASSUME NEW g \in Gens, Cleaner(g)
  PROVE  UNCHANGED <<main, gen, made, warg, ndicts, sig, sigthread, stats, starting, printing, queue,
                     worker, accepted, handled, why>> /\ Running
  BY DEF Cleaner, CleanerCloses, CleanerFrees, CleanerDestroys, Unchanged_Cleaner, mainvars, signals,
         statvars, conns

LEMMA WorkerFrame ==
  ASSUME NEW g \in Gens, NEW t \in Threads, Worker(g, t)
  PROVE  /\ UNCHANGED <<gen, made, warg, ndicts, sig, sigthread, context, stats, starting, printing,
                        pool, cleaner, accepted>>
         /\ Crashes /\ Running
<1> USE DEF Unchanged_Worker, Crashes, At, Unowned, End, signals, statvars, conns
<1>1. CASE TakeConn(g, t)
  BY <1>1 DEF TakeConn
<1>2. CASE ReadContext(g, t) \/ ReadStats(g, t)
  BY <1>2 DEF ReadContext, ReadStats
<1>3. CASE Evaluate(g, t) \/ GiveUp(g, t) \/ UseDestroyed(g, t)
  BY <1>3 DEF Evaluate, GiveUp, UseDestroyed
<1>4. CASE UpdateStats(g, t) \/ WorkerExits(g, t)
  BY <1>4 DEF UpdateStats, WorkerExits
<1> QED
  BY <1>1, <1>2, <1>3, <1>4 DEF Worker

-----------------------------------------------------------------------------
(* SIGTERM is kept until main sees it.                                     *)
LEMMA TermStep ==
  ASSUME TypeOK, TermInv, Next
  PROVE  TermInv'
<1> USE DEF TermInv, terminated, Ended
<1>1. CASE CatchTerm
  BY <1>1 DEF CatchTerm
<1>2. CASE CatchHup
  BY <1>2 DEF CatchHup, mainvars
<1>3. CASE Main
  <2> USE DEF Goto, End, Unchanged_Main, signals
  <2>1. CASE CheckSignal
    BY <2>1 DEF CheckSignal
  <2>2. CASE Accept \/ AcceptEnds \/ ReloadFails \/ MakeContext \/ MakeContextEnds
    BY <2>2 DEF Accept, AcceptEnds, ReloadFails, MakeContext, MakeContextEnds
  <2>3. CASE SetContext \/ SetStats \/ MakePool \/ MakePoolFails
    BY <2>3 DEF SetContext, SetStats, MakePool, MakePoolFails
  <2>4. CASE DestroyStats \/ DestroyStatsWaits \/ Cleanup \/ Terminate
    BY <2>4 DEF DestroyStats, DestroyStatsWaits, Cleanup, Terminate
  <2> QED
    BY <1>3, <2>1, <2>2, <2>3, <2>4 DEF Main
<1>4. ASSUME NEW g \in Gens, PrinterStarts(g) PROVE TermInv'
  BY <1>4, PrinterFrame DEF Crashes
<1>5. ASSUME NEW g \in Gens, Cleaner(g) PROVE TermInv'
  BY <1>5, CleanerFrame
<1>6. ASSUME NEW g \in Gens, NEW t \in Threads, Worker(g, t) PROVE TermInv'
  BY <1>6, WorkerFrame DEF Crashes
<1> QED
  BY <1>1, <1>2, <1>3, <1>4, <1>5, <1>6 DEF Next

(* The generations stay in order; a cleaner destroys none that main is     *)
(* making.                                                                 *)
LEMMA GenMain ==
  ASSUME TypeOK, GenInv, Main
  PROVE  GenInv'
<1> USE DEF GenInv, Building, Replacing, Goto, End, statvars
<1>0. gen \in Nat /\ made \in Nat /\ warg.context \in Nat /\ warg.stats \in Nat
  BY GensType DEF TypeOK
<1>1. CASE CheckSignal \/ Accept \/ AcceptEnds \/ ReloadFails \/ MakeContextEnds \/ Terminate
  BY <1>1 DEF CheckSignal, Accept, AcceptEnds, ReloadFails, MakeContextEnds, Terminate
<1>2. CASE MakeContext
  <2>1. made' = made + 1 /\ made + 1 \in Gens /\ UNCHANGED <<gen, warg>> /\ main' = "context"
    BY <1>0, <1>2, GensType DEF MakeContext, Gens
  <2>2. context'[made'] = "live"
    BY <1>2, <2>1 DEF MakeContext, TypeOK
  <2>3. \A g \in Gens : starting'[g] <= made' + 1
    <3> SUFFICES ASSUME NEW g \in Gens PROVE starting'[g] <= made' + 1
      OBVIOUS
    <3>1. starting[g] \in Nat /\ starting[g] <= made + 1
      BY GensType DEF TypeOK
    <3>2. starting'[g] \in {starting[g], starting[g] + 1}
      BY <1>2 DEF MakeContext, TypeOK
    <3> QED
      BY <1>0, <2>1, <3>1, <3>2
  <2> QED
    BY <1>0, <2>1, <2>2, <2>3
<1>3. CASE SetContext \/ SetStats
  BY <1>0, <1>3 DEF SetContext, SetStats, TypeOK
<1>4. CASE MakePool \/ MakePoolFails
  BY <1>0, <1>4 DEF MakePool, MakePoolFails
<1>5. CASE DestroyStats \/ DestroyStatsWaits \/ Cleanup
  BY <1>0, <1>5 DEF DestroyStats, DestroyStatsWaits, Cleanup
<1> QED
  BY <1>1, <1>2, <1>3, <1>4, <1>5 DEF Main

LEMMA GenStep ==
  ASSUME TypeOK, GenInv, PoolInv, Next
  PROVE  GenInv'
<1>0. gen \in Nat /\ made \in Nat
  BY GensType DEF TypeOK
<1>1. CASE CatchTerm \/ CatchHup
  BY <1>1, SignalFrame DEF GenInv
<1>2. CASE Main
  BY <1>2, GenMain
<1>3. ASSUME NEW g \in Gens, PrinterStarts(g) PROVE GenInv'
  <2>1. \A h \in Gens : starting'[h] <= made' + 1
    <3> SUFFICES ASSUME NEW h \in Gens PROVE starting'[h] <= made' + 1
      OBVIOUS
    <3>1. starting[h] \in Nat /\ starting[h] <= made + 1 /\ made' = made
      BY <1>3, GensType, PrinterFrame DEF TypeOK, GenInv
    <3>2. starting'[h] \in {starting[h], starting[h] - 1}
      BY <1>3 DEF PrinterStarts, TypeOK
    <3> QED
      BY <1>0, <3>1, <3>2
  <2> QED
    BY <1>3, <2>1, PrinterFrame DEF GenInv, Crashes, Building, Replacing
<1>4. ASSUME NEW g \in Gens, Cleaner(g) PROVE GenInv'
  <2>1. main \in Building => context'[made] = context[made]
    <3>1. main \in Building => g # made
      <4>1. cleaner[g] # "none"
        BY <1>4 DEF Cleaner, CleanerCloses, CleanerFrees, CleanerDestroys
      <4>2. g < gen /\ g \in Nat
        BY <4>1, GensType DEF PoolInv
      <4> QED
        BY <1>0, <4>2 DEF GenInv
    <3> QED
      BY <1>4, <3>1 DEF Cleaner, CleanerCloses, CleanerFrees, CleanerDestroys, TypeOK
  <2> QED
    BY <1>4, <2>1, CleanerFrame DEF GenInv
<1>5. ASSUME NEW g \in Gens, NEW t \in Threads, Worker(g, t) PROVE GenInv'
  BY <1>5, WorkerFrame DEF GenInv, Crashes, Building, Replacing
<1> QED
  BY <1>1, <1>2, <1>3, <1>4, <1>5 DEF Next

-----------------------------------------------------------------------------
(* A pool has its context for as long as it is not cleaned up.             *)
LEMMA PoolMain ==
  ASSUME TypeOK, GenInv, PoolInv, Main
  PROVE  PoolInv'
<1> USE DEF PoolInv, Building, Replacing, Ended, Goto, End, statvars
<1>0. gen \in Gens /\ made \in Gens /\ Gens \subseteq Nat
  BY GensType DEF TypeOK
<1>1. CASE CheckSignal \/ Accept \/ AcceptEnds \/ ReloadFails \/ MakeContextEnds \/ Terminate
  BY <1>1 DEF CheckSignal, Accept, AcceptEnds, ReloadFails, MakeContextEnds, Terminate
<1>2. CASE MakeContext
  <2>1. /\ main = "reload" /\ main' = "context"
        /\ UNCHANGED <<gen, pool, cleaner>>
        /\ context' = [context EXCEPT ![made + 1] = "live"]
    BY <1>2 DEF MakeContext
  <2>2. \A g \in Gens : context[g] = "live" => context'[g] = "live"
    BY <2>1 DEF TypeOK
  <2> QED
    BY <2>1, <2>2
<1>3. CASE SetContext \/ SetStats
  BY <1>3 DEF SetContext, SetStats
<1>4. CASE MakePool
  <2>1. /\ main = "pool" /\ main' = "destroy"
        /\ UNCHANGED <<gen, made, context, cleaner>>
        /\ pool' = [pool EXCEPT ![made] = "live"]
    BY <1>4 DEF MakePool
  <2>2. gen < made /\ context[made] = "live" /\ cleaner[made] = "none"
    BY <1>0, <2>1 DEF GenInv, TypeOK
  <2>3. pool'[made] = "live" /\ \A g \in Gens : g # made => pool'[g] = pool[g]
    BY <1>0, <2>1 DEF TypeOK
  <2> QED
    BY <1>0, <2>1, <2>2, <2>3
<1>5. CASE MakePoolFails
  <2>1. /\ main = "pool" /\ main' = "accept"
        /\ UNCHANGED <<gen, made, pool, cleaner>>
        /\ context' = [context EXCEPT ![made] = "destroyed"]
    BY <1>5 DEF MakePoolFails
  <2>2. pool[made] = "none"
    BY <1>0, <2>1 DEF GenInv
  <2>3. \A g \in Gens : g # made => context'[g] = context[g]
    BY <1>0, <2>1 DEF TypeOK
  <2> QED
    BY <1>0, <2>1, <2>2, <2>3
<1>6. CASE DestroyStats \/ DestroyStatsWaits
  BY <1>6 DEF DestroyStats, DestroyStatsWaits
<1>7. CASE Cleanup
  <2>1. /\ main = "cleanup" /\ main' = "accept" /\ gen' = made
        /\ UNCHANGED <<made, pool, context>>
        /\ \E c \in {"started", "none"} : cleaner' = [cleaner EXCEPT ![gen] = c]
    BY <1>7 DEF Cleanup
  <2>2. gen < made /\ pool[made] = "live" /\ cleaner[gen] = "none"
    BY <1>0, <2>1 DEF GenInv
  <2>3. cleaner'[gen] \in {"started", "none"} /\ \A g \in Gens : g # gen => cleaner'[g] = cleaner[g]
    BY <1>0, <2>1 DEF TypeOK
  <2>4. \A g \in Gens : pool[g] # "none" => g <= made
    BY <1>0, <2>2
  <2>5. \A g \in Gens : cleaner'[g] # "none" => g < made
    BY <1>0, <2>2, <2>3
  <2>6. ASSUME NEW g \in Gens
        PROVE  /\ cleaner'[g] = "none" => pool[g] \in {"none", "live"}
               /\ cleaner'[g] = "started" => pool[g] = "live"
               /\ cleaner'[g] = "pool" => pool[g] = "closing"
               /\ cleaner'[g] \in {"context", "done"} => pool[g] = "freed"
               /\ pool[g] # "none" /\ cleaner'[g] # "done" => context[g] = "live"
    BY <1>0, <2>2, <2>3
  <2> QED
    BY <2>1, <2>2, <2>4, <2>5, <2>6
<1> QED
  BY <1>1, <1>2, <1>3, <1>4, <1>5, <1>6, <1>7 DEF Main

LEMMA PoolCleaner ==
  ASSUME TypeOK, GenInv, PoolInv, NEW g \in Gens, Cleaner(g)
  PROVE  PoolInv'
<1>a. gen \in Gens /\ made \in Gens
  BY DEF TypeOK
<1>b. gen <= warg.context /\ warg.context <= made /\ warg.context \in Gens
  BY DEF TypeOK, GenInv
<1>c. Gens \subseteq Nat
  BY GensType
<1>d. gen \in Nat /\ made \in Nat /\ warg.context \in Nat
  BY <1>a, <1>b, <1>c
<1>0. gen \in Gens /\ made \in Gens /\ Gens \subseteq Nat /\ gen <= made
  BY <1>a, <1>b, <1>c, <1>d
<1>1. UNCHANGED <<main, gen, made>>
  BY CleanerFrame
<1>2. g < gen
  BY DEF PoolInv, Cleaner, CleanerCloses, CleanerFrees, CleanerDestroys
<1>3. \A h \in Gens : h # g => /\ pool'[h] = pool[h] /\ cleaner'[h] = cleaner[h]
                                /\ context'[h] = context[h]
  BY DEF TypeOK, Cleaner, CleanerCloses, CleanerFrees, CleanerDestroys
<1>4. /\ pool[g] # "none"
      /\ cleaner'[g] \in {"pool", "context", "done"}
      /\ cleaner'[g] = "pool" => pool'[g] = "closing"
      /\ cleaner'[g] \in {"context", "done"} => pool'[g] = "freed"
      /\ cleaner'[g] # "done" => context'[g] = context[g] /\ context[g] = "live"
  <2>1. CASE CleanerCloses(g)
    BY <2>1 DEF CleanerCloses, PoolInv, TypeOK
  <2>2. CASE CleanerFrees(g)
    BY <2>2 DEF CleanerFrees, PoolInv, TypeOK
  <2>3. CASE CleanerDestroys(g)
    BY <2>3 DEF CleanerDestroys, PoolInv, TypeOK
  <2> QED
    BY <2>1, <2>2, <2>3 DEF Cleaner
<1>5. pool'[gen] = "live" /\ (main \in Replacing => pool'[made] = "live")
  BY <1>0, <1>2, <1>3 DEF PoolInv
<1> QED
  BY <1>0, <1>1, <1>2, <1>3, <1>4, <1>5 DEF PoolInv

LEMMA PoolStep ==
  ASSUME TypeOK, GenInv, PoolInv, Next
  PROVE  PoolInv'
<1>1. CASE CatchTerm \/ CatchHup
  BY <1>1, SignalFrame DEF PoolInv
<1>2. CASE Main
  BY <1>2, PoolMain
<1>3. ASSUME NEW g \in Gens, PrinterStarts(g) PROVE PoolInv'
  BY <1>3, PrinterFrame DEF PoolInv, Crashes, Replacing, Ended
<1>4. ASSUME NEW g \in Gens, Cleaner(g) PROVE PoolInv'
  BY <1>4, PoolCleaner
<1>5. ASSUME NEW g \in Gens, NEW t \in Threads, Worker(g, t) PROVE PoolInv'
  BY <1>5, WorkerFrame DEF PoolInv, Crashes, Replacing, Ended
<1> QED
  BY <1>1, <1>2, <1>3, <1>4, <1>5 DEF Next

-----------------------------------------------------------------------------
(* Connections and threads are in pools that exist.                        *)
LEMMA WorkMain ==
  ASSUME TypeOK, GenInv, PoolInv, WorkInv, Main
  PROVE  WorkInv'
<1>0. gen \in Gens /\ made \in Gens /\ Gens \subseteq Nat /\ gen <= made /\ accepted \in Nat
  <2>1. gen \in Gens /\ made \in Gens /\ warg.context \in Gens /\ accepted \in 0..MaxConns
    BY DEF TypeOK
  <2>2. gen <= warg.context /\ warg.context <= made
    BY DEF GenInv
  <2>3. gen \in Nat /\ made \in Nat /\ warg.context \in Nat
    BY <2>1, GensType
  <2>4. gen <= made
    BY <2>2, <2>3
  <2>5. accepted \in Nat
    BY <2>1
  <2> QED
    BY <2>1, <2>4, <2>5, GensType
<1>1. worker' = worker
  BY DEF Main, CheckSignal, Accept, AcceptEnds, ReloadFails, MakeContext, MakeContextEnds, SetContext,
         SetStats, MakePool, MakePoolFails, DestroyStats, DestroyStatsWaits, Cleanup, Terminate,
         Unchanged_Main
<1>2. gen' \in Nat /\ gen <= gen'
  <2>1. gen' = gen \/ (main = "cleanup" /\ gen' = made)
    BY DEF Main, CheckSignal, Accept, AcceptEnds, ReloadFails, MakeContext, MakeContextEnds, SetContext,
           SetStats, MakePool, MakePoolFails, DestroyStats, DestroyStatsWaits, Cleanup, Terminate
  <2> QED
    BY <1>0, <2>1
<1>3. ASSUME NEW g \in Gens, g <= gen, pool[g] \in {"live", "closing"}
      PROVE  g <= gen' /\ pool'[g] \in {"live", "closing"}
  <2>1. pool' = pool \/ pool' = [pool EXCEPT ![made] = "live"]
    BY DEF Main, CheckSignal, Accept, AcceptEnds, ReloadFails, MakeContext, MakeContextEnds, SetContext,
           SetStats, MakePool, MakePoolFails, DestroyStats, DestroyStatsWaits, Cleanup, Terminate
  <2> QED
    BY <1>0, <1>2, <1>3, <2>1 DEF TypeOK
<1>4. ASSUME NEW g \in Gens
      PROVE  queue'[g] <= accepted' /\ (queue'[g] > 0 => g <= gen' /\ pool'[g] \in {"live", "closing"})
  <2>1. CASE queue' = queue /\ accepted' = accepted
    BY <1>3, <2>1 DEF WorkInv
  <2>2. CASE accepted' = accepted + 1 /\ queue' = [queue EXCEPT ![gen] = @ + 1]
    <3>1. queue[g] \in Nat /\ queue[g] <= accepted
      BY DEF TypeOK, WorkInv
    <3>2. queue'[g] = IF g = gen THEN queue[g] + 1 ELSE queue[g]
      BY <2>2 DEF TypeOK
    <3>3. pool[gen] = "live"
      BY DEF PoolInv
    <3>4. g = gen => g <= gen' /\ pool'[g] \in {"live", "closing"}
      BY <1>0, <1>3, <3>3
    <3>5. g # gen /\ queue[g] > 0 => g <= gen' /\ pool'[g] \in {"live", "closing"}
      BY <1>3 DEF WorkInv
    <3> QED
      BY <1>0, <2>2, <3>1, <3>2, <3>4, <3>5
  <2> QED
    BY <2>1, <2>2 DEF Main, CheckSignal, Accept, AcceptEnds, ReloadFails, MakeContext, MakeContextEnds,
         SetContext, SetStats, MakePool, MakePoolFails, DestroyStats, DestroyStatsWaits, Cleanup,
         Terminate, Unchanged_Main, conns
<1> QED
  BY <1>1, <1>3, <1>4 DEF WorkInv

LEMMA WorkCleaner ==
  ASSUME TypeOK, WorkInv, NEW g \in Gens, Cleaner(g)
  PROVE  WorkInv'
<1>1. UNCHANGED <<gen, worker, queue, accepted>>
  BY CleanerFrame
<1>2. ASSUME NEW h \in Gens, pool[h] \in {"live", "closing"},
             queue[h] > 0 \/ \E t \in Threads : worker[h][t] # NoThread
      PROVE  pool'[h] \in {"live", "closing"}
  <2>1. CASE CleanerCloses(g)
    BY <1>2, <2>1 DEF CleanerCloses, TypeOK
  <2>2. CASE CleanerFrees(g)
    BY <1>2, <2>2 DEF CleanerFrees, TypeOK
  <2>3. CASE CleanerDestroys(g)
    BY <1>2, <2>3 DEF CleanerDestroys
  <2> QED
    BY <2>1, <2>2, <2>3 DEF Cleaner
<1> QED
  BY <1>1, <1>2 DEF WorkInv

LEMMA WorkWorker ==
  ASSUME TypeOK, GenInv, WorkInv, NEW g \in Gens, NEW t \in Threads, Worker(g, t)
  PROVE  WorkInv'
<1>0. gen \in Gens /\ g \in Nat /\ Gens \subseteq Nat /\ warg.context \in Gens /\ accepted \in Nat
  BY GensType DEF TypeOK
<1>1. UNCHANGED <<gen, pool, accepted>>
  BY WorkerFrame
<1>2. g <= gen /\ pool[g] \in {"live", "closing"}
  <2>1. CASE queue[g] > 0
    BY <2>1 DEF WorkInv
  <2>2. CASE worker[g][t].pc # "none"
    BY <2>2 DEF WorkInv, NoThread
  <2> QED
    BY <2>1, <2>2 DEF Worker, TakeConn, ReadContext, ReadStats, Evaluate, GiveUp, UseDestroyed, UpdateStats,
                      WorkerExits, At
<1>3. queue' = queue \/ (queue[g] > 0 /\ queue' = [queue EXCEPT ![g] = @ - 1])
  BY DEF Worker, TakeConn, ReadContext, ReadStats, Evaluate, GiveUp, UseDestroyed, UpdateStats,
         WorkerExits
<1>4. ASSUME NEW h \in Gens
      PROVE  queue'[h] <= accepted /\ (queue'[h] > 0 => h <= gen /\ pool[h] \in {"live", "closing"})
  <2>1. queue[h] \in Nat /\ (queue'[h] = queue[h] \/ (queue[h] > 0 /\ queue'[h] = queue[h] - 1))
    BY <1>3 DEF TypeOK
  <2>2. queue[h] <= accepted /\ (queue[h] > 0 => h <= gen /\ pool[h] \in {"live", "closing"})
    BY DEF WorkInv
  <2> QED
    BY <1>0, <2>1, <2>2
<1>5. \A h \in Gens, u \in Threads : h # g \/ u # t => worker'[h][u] = worker[h][u]
  BY ThreadStep, OneThread
<1>6. worker'[g][t].pc \in {"stats", "evaluate"} => g <= worker'[g][t].context
  <2>0. worker[g][t] \in ThreadType /\ TypeOK
    BY ThreadOf
  <2>2. CASE ReadContext(g, t)
    BY <1>0, <1>2, <2>0, <2>2 DEF ReadContext, Becomes, ThreadType, TypeOK, GenInv
  <2>3. CASE ReadStats(g, t)
    BY <2>0, <2>3 DEF ReadStats, At, Becomes, ThreadType, TypeOK, WorkInv
  <2>4. CASE ~(ReadContext(g, t) \/ ReadStats(g, t))
    <3>1. worker' = worker \/ worker'[g][t].pc \notin {"stats", "evaluate"}
      BY <2>4, ThreadStep, OneThread
    <3> QED
      BY <3>1 DEF WorkInv
  <2> QED
    BY <2>2, <2>3, <2>4
<1> QED
  BY <1>1, <1>2, <1>4, <1>5, <1>6 DEF WorkInv

LEMMA WorkStep ==
  ASSUME TypeOK, GenInv, PoolInv, WorkInv, Next
  PROVE  WorkInv'
<1>1. CASE CatchTerm \/ CatchHup
  BY <1>1, SignalFrame DEF WorkInv
<1>2. CASE Main
  BY <1>2, WorkMain
<1>3. ASSUME NEW g \in Gens, PrinterStarts(g) PROVE WorkInv'
  BY <1>3, PrinterFrame DEF WorkInv
<1>4. ASSUME NEW g \in Gens, Cleaner(g) PROVE WorkInv'
  BY <1>4, WorkCleaner
<1>5. ASSUME NEW g \in Gens, NEW t \in Threads, Worker(g, t) PROVE WorkInv'
  BY <1>5, WorkWorker
<1> QED
  BY <1>1, <1>2, <1>3, <1>4, <1>5 DEF Next

-----------------------------------------------------------------------------
(* A result has the size of some context that was made.                    *)
LEMMA SizeMain ==
  ASSUME TypeOK, GenInv, SizeInv, Main
  PROVE  SizeInv'
<1>0. made \in Gens /\ made \in Nat /\ Gens \subseteq Nat /\ gen \in Nat
  BY GensType DEF TypeOK
<1>1. worker' = worker
  BY DEF Main, CheckSignal, Accept, AcceptEnds, ReloadFails, MakeContext, MakeContextEnds, SetContext,
         SetStats, MakePool, MakePoolFails, DestroyStats, DestroyStatsWaits, Cleanup, Terminate,
         Unchanged_Main
<1>2. CASE MakeContext
  <2>1. made' = made + 1 /\ made + 1 \in Gens
    BY <1>0, <1>2, GensType DEF MakeContext, Gens
  <2>2. PICK n \in Sizes : ndicts' = [ndicts EXCEPT ![made + 1] = n]
    BY <1>2 DEF MakeContext
  <2>3. \A h \in Gens : h <= made => ndicts'[h] = ndicts[h]
    BY <1>0, <2>1, <2>2 DEF TypeOK
  <2>4. ASSUME NEW g \in Gens, g <= made' PROVE ndicts'[g] \in Sizes
    <3>1. CASE g = made + 1
      BY <2>1, <2>2, <3>1 DEF TypeOK
    <3>2. CASE g # made + 1
      BY <1>0, <2>1, <2>3, <2>4, <3>2 DEF SizeInv
    <3> QED
      BY <3>1, <3>2
  <2>5. ASSUME NEW g \in Gens, NEW t \in Threads PROVE Sized(worker[g][t])'
    <3> DEFINE w == worker[g][t]
    <3>1. w.context \in Nat /\ w.stats \in Nat /\ Sized(w) /\ w' = w
      BY <1>0, <1>1, ThreadOf DEF ThreadType, SizeInv
    <3>2. w.context <= made' /\ w.stats <= made'
      BY <1>0, <2>1, <3>1 DEF Sized
    <3>3. ASSUME w.size # 0 PROVE \E h \in Gens : h <= made' /\ ndicts'[h] = w.size
      <4>1. PICK h \in Gens : h <= made /\ ndicts[h] = w.size
        BY <3>1, <3>3 DEF Sized
      <4>2. h \in Nat /\ h <= made'
        BY <1>0, <2>1, <4>1
      <4>3. ndicts'[h] = w.size
        BY <2>3, <4>1
      <4> QED
        BY <4>2, <4>3
    <3> QED
      BY <3>1, <3>2, <3>3 DEF Sized
  <2> QED
    BY <1>0, <2>1, <2>4, <2>5 DEF SizeInv
<1>3. CASE DestroyStats
  <2>1. gen < made
    BY <1>3 DEF DestroyStats, GenInv, Replacing
  <2>2. UNCHANGED <<made, ndicts>>
    BY <1>3 DEF DestroyStats
  <2> QED
    BY <1>0, <1>1, <2>1, <2>2 DEF SizeInv, Sized
<1>4. CASE UNCHANGED <<made, ndicts, stats>>
  BY <1>1, <1>4 DEF SizeInv, Sized
<1> QED
  BY <1>2, <1>3, <1>4 DEF Main, CheckSignal, Accept, AcceptEnds, ReloadFails, MakeContextEnds,
     SetContext, SetStats, MakePool, MakePoolFails, DestroyStatsWaits, Cleanup, Terminate, statvars

LEMMA SizeWorker ==
  ASSUME TypeOK, GenInv, SizeInv, NEW g \in Gens, NEW t \in Threads, Worker(g, t)
  PROVE  UNCHANGED worker \/ \E w \in ThreadType : Becomes(g, t, w) /\ Sized(w)
<1> DEFINE w == worker[g][t]
<1>0. made \in Nat /\ 0 <= made /\ 0 \in Gens /\ Gens \subseteq Nat
  BY GensType DEF TypeOK
<1>1. w \in ThreadType /\ Sized(w)
  BY ThreadOf DEF SizeInv
<1>2. warg.context \in Gens /\ warg.stats \in Gens /\ warg.context <= made /\ warg.stats <= made
  BY DEF TypeOK, GenInv
<1>3. ResultSize(w) \in Sizes /\ \E h \in Gens : h <= made /\ ndicts[h] = ResultSize(w)
  <2>1. w.context \in Gens /\ w.context <= made /\ w.size \in Sizes \cup {0}
    BY <1>1 DEF ThreadType, Sized
  <2>2. CASE w.size = 0
    BY <2>1, <2>2 DEF ResultSize, SizeInv
  <2>3. CASE w.size # 0
    BY <1>1, <2>1, <2>3 DEF ResultSize, Sized
  <2> QED
    BY <2>2, <2>3
<1>4. CASE TakeConn(g, t)
  <2> DEFINE v == [w EXCEPT !.pc = "context"]
  <2>1. v \in ThreadType /\ Sized(v)
    BY <1>1 DEF ThreadType, Sized
  <2> QED
    BY <1>4, <2>1 DEF TakeConn
<1>5. CASE ReadContext(g, t)
  <2> DEFINE v == [w EXCEPT !.pc = "stats", !.context = warg.context]
  <2>1. v \in ThreadType /\ Sized(v)
    BY <1>1, <1>2 DEF ThreadType, Sized
  <2> QED
    BY <1>5, <2>1 DEF ReadContext
<1>6. CASE ReadStats(g, t)
  <2> DEFINE v == [w EXCEPT !.pc = "evaluate", !.stats = warg.stats]
  <2>1. v \in ThreadType /\ Sized(v)
    BY <1>1, <1>2 DEF ThreadType, Sized
  <2> QED
    BY <1>6, <2>1 DEF ReadStats
<1>7. CASE Evaluate(g, t)
  <2> DEFINE v == [w EXCEPT !.pc = "update", !.size = ResultSize(w)]
  <2>1. v \in ThreadType /\ Sized(v)
    BY <1>1, <1>3, SizesType DEF ThreadType, Sized
  <2>2. UNCHANGED worker \/ Becomes(g, t, v)
    BY <1>7 DEF Evaluate
  <2> QED
    BY <2>1, <2>2
<1>8. CASE GiveUp(g, t)
  <2> DEFINE v(size) == [w EXCEPT !.pc = "idle", !.context = 0, !.stats = 0, !.size = size]
  <2>1. \A size \in {w.size, ResultSize(w)} : v(size) \in ThreadType /\ Sized(v(size))
    BY <1>0, <1>1, <1>3 DEF ThreadType, Sized
  <2>2. \E size \in {w.size, ResultSize(w)} : Becomes(g, t, v(size))
    BY <1>8 DEF GiveUp
  <2> QED
    BY <2>1, <2>2
<1>9. CASE UseDestroyed(g, t)
  BY <1>9 DEF UseDestroyed
<1>10. CASE UpdateStats(g, t)
  <2> DEFINE v == [w EXCEPT !.pc = "idle", !.context = 0, !.stats = 0]
  <2>1. v \in ThreadType /\ Sized(v)
    BY <1>0, <1>1 DEF ThreadType, Sized
  <2>2. UNCHANGED worker \/ Becomes(g, t, v)
    BY <1>10 DEF UpdateStats
  <2> QED
    BY <2>1, <2>2
<1>11. CASE WorkerExits(g, t)
  <2>1. Sized(NoThread)
    BY <1>0 DEF Sized, NoThread
  <2> QED
    BY <1>11, <2>1, NoThreadType DEF WorkerExits
<1> QED
  BY <1>4, <1>5, <1>6, <1>7, <1>8, <1>9, <1>10, <1>11 DEF Worker

LEMMA SizeStep ==
  ASSUME TypeOK, GenInv, SizeInv, Next
  PROVE  SizeInv'
<1>1. CASE CatchTerm \/ CatchHup
  BY <1>1, SignalFrame DEF SizeInv, Sized
<1>2. CASE Main
  BY <1>2, SizeMain
<1>3. ASSUME NEW g \in Gens, PrinterStarts(g) PROVE SizeInv'
  BY <1>3, PrinterFrame DEF SizeInv, Sized
<1>4. ASSUME NEW g \in Gens, Cleaner(g) PROVE SizeInv'
  BY <1>4, CleanerFrame DEF SizeInv, Sized
<1>5. ASSUME NEW g \in Gens, NEW t \in Threads, Worker(g, t) PROVE SizeInv'
  <2>1. UNCHANGED <<made, ndicts, stats>>
    BY <1>5, WorkerFrame
  <2>2. ASSUME NEW h \in Gens, NEW u \in Threads PROVE Sized(worker'[h][u])
    BY <1>5, <2>2, SizeWorker, OneThread DEF SizeInv
  <2> QED
    BY <2>1, <2>2 DEF SizeInv, Sized
<1> QED
  BY <1>1, <1>2, <1>3, <1>4, <1>5 DEF Next

-----------------------------------------------------------------------------
(* A pool has its own context until the last of its threads is gone.       *)
LEMMA OwnContextHolds ==
  ASSUME TypeOK, PoolInv, WorkInv
  PROVE  OwnContext
<1> SUFFICES ASSUME NEW g \in Gens, NEW t \in Threads, worker[g][t].pc \in {"stats", "evaluate"}
             PROVE  /\ worker[g][t].context >= g
                    /\ context[worker[g][t].context] = "live" \/ worker[g][t].context > g
  BY DEF OwnContext
<1>1. worker[g][t].context \in Nat /\ g \in Nat /\ g <= worker[g][t].context
  BY ThreadOf, GensType DEF ThreadType, WorkInv
<1>2. pool[g] \in {"live", "closing"}
  BY DEF WorkInv, NoThread
<1>3. context[g] = "live"
  BY <1>2 DEF PoolInv
<1> QED
  BY <1>1, <1>3

(* A process that ended by accident stays as it is.                        *)
LEMMA EndStays == ASSUME main \in {"crashed", "panicked"} PROVE ~Next
<1>1. ~CatchTerm /\ ~CatchHup /\ ~Running
  BY DEF CatchTerm, CatchHup, Running
<1>2. ~Main
  BY DEF Main, CheckSignal, Accept, AcceptEnds, ReloadFails, MakeContext, MakeContextEnds, SetContext,
         SetStats, MakePool, MakePoolFails, DestroyStats, DestroyStatsWaits, Cleanup, Terminate
<1>3. \A g \in Gens : ~PrinterStarts(g) /\ ~Cleaner(g) /\ \A t \in Threads : ~Worker(g, t)
  BY <1>1, PrinterFrame, CleanerFrame, WorkerFrame
<1> QED
  BY <1>1, <1>2, <1>3 DEF Next

LEMMA WhyStep ==
  ASSUME TypeOK, WhyInv, Next
  PROVE  WhyInv'
<1>0. why = "none"
  BY EndStays DEF WhyInv
<1>1. CASE CatchTerm \/ CatchHup
  BY <1>0, <1>1, SignalFrame DEF WhyInv
<1>2. CASE Main
  BY <1>0, <1>2 DEF WhyInv, Main, CheckSignal, Accept, AcceptEnds, ReloadFails, MakeContext,
     MakeContextEnds, SetContext, SetStats, MakePool, MakePoolFails, DestroyStats, DestroyStatsWaits,
     Cleanup, Terminate, End
<1>3. ASSUME NEW g \in Gens, PrinterStarts(g) PROVE WhyInv'
  BY <1>0, <1>3, PrinterFrame DEF WhyInv, Crashes
<1>4. ASSUME NEW g \in Gens, Cleaner(g) PROVE WhyInv'
  BY <1>0, <1>4, CleanerFrame DEF WhyInv
<1>5. ASSUME NEW g \in Gens, NEW t \in Threads, Worker(g, t) PROVE WhyInv'
  BY <1>0, <1>5, WorkerFrame DEF WhyInv, Crashes
<1> QED
  BY <1>1, <1>2, <1>3, <1>4, <1>5 DEF Next

(* A thread that takes the process down does so after a reload; with a     *)
(* result or counters that do not fit, after one that changed the size.    *)
LEMMA AccidentsWorker ==
  ASSUME TypeOK, PoolInv, WorkInv, SizeInv, why = "none", NEW g \in Gens, NEW t \in Threads, Worker(g, t)
  PROVE  AccidentsExplained'
<1> DEFINE w == worker[g][t]
<1>0. /\ w \in ThreadType /\ Sized(w) /\ made \in Gens /\ Gens \subseteq Nat /\ made' = made
      /\ ndicts' = ndicts
  BY ThreadOf, GensType, WorkerFrame DEF TypeOK, SizeInv
<1>1. /\ w.context \in Nat /\ w.stats \in Nat /\ made \in Nat /\ w.context <= made /\ w.stats <= made
      /\ w.context \in Gens /\ w.stats \in Gens
  BY <1>0 DEF ThreadType, Sized
<1>2. ASSUME NEW c \in Gens, c <= made, w.size # 0, w.size # ndicts[c]
      PROVE  made > 0 /\ \E h, k \in 0..made : ndicts[h] # ndicts[k]
  <2>1. PICK h \in Gens : h <= made /\ ndicts[h] = w.size
    BY <1>0, <1>2 DEF Sized
  <2>2. h \in 0..made /\ c \in 0..made /\ h # c
    BY <1>0, <1>2, <2>1
  <2> QED
    BY <1>1, <1>2, <2>1, <2>2
<1>3. CASE why' = "none"
  BY <1>3 DEF AccidentsExplained
<1>4. CASE Evaluate(g, t) /\ why' # "none"
  <2>1. why' = "result" /\ ResultSize(w) < ndicts[w.context]
    BY <1>4 DEF Evaluate, End
  <2>2. w.size # 0 /\ w.size # ndicts[w.context]
    <3>1. ndicts[w.context] \in Nat
      <4>1. ndicts[w.context] \in Sizes \cup {0}
        BY <1>1 DEF TypeOK
      <4>2. \A n \in Sizes \cup {0} : n \in Nat
        BY SizesType
      <4> QED
        BY <4>1, <4>2
    <3> QED
      BY <2>1, <3>1 DEF ResultSize
  <2>3. made > 0 /\ \E h, k \in 0..made : ndicts[h] # ndicts[k]
    BY <1>1, <1>2, <2>2
  <2> QED
    BY <1>0, <2>1, <2>3 DEF AccidentsExplained
<1>5. CASE UseDestroyed(g, t)
  <2>1. w.pc = "evaluate" /\ context[w.context] = "destroyed" /\ why' = "context" /\ worker' = worker
    BY <1>5 DEF UseDestroyed, At, End
  <2>2. w.context > g
    BY <2>1, OwnContextHolds DEF OwnContext
  <2>3. made > 0
    BY <1>0, <1>1, <2>2
  <2> QED
    BY <1>0, <2>1, <2>2, <2>3 DEF AccidentsExplained
<1>6. CASE UpdateStats(g, t) /\ why' # "none"
  <2>1. CASE stats[w.stats] = "live"
    <3>1. why' = "counters" /\ ndicts[w.stats] # w.size /\ w.pc = "update"
      BY <1>6, <2>1 DEF UpdateStats, End, At
    <3>2. made > 0 /\ \E h, k \in 0..made : ndicts[h] # ndicts[k]
      BY <1>0, <1>1, <1>2, <3>1 DEF Sized
    <3> QED
      BY <1>0, <3>1, <3>2 DEF AccidentsExplained
  <2>2. CASE stats[w.stats] # "live"
    <3>1. why' = "stats" /\ stats[w.stats] \in {"null", "freed"}
      BY <1>6, <2>2 DEF UpdateStats, End, Unowned
    <3>2. made > 0
      BY <1>1, <3>1 DEF SizeInv
    <3> QED
      BY <1>0, <3>1, <3>2 DEF AccidentsExplained
  <2> QED
    BY <2>1, <2>2
<1>7. CASE TakeConn(g, t) \/ ReadContext(g, t) \/ ReadStats(g, t) \/ GiveUp(g, t) \/ WorkerExits(g, t)
  BY <1>3, <1>7 DEF TakeConn, ReadContext, ReadStats, GiveUp, WorkerExits
<1> QED
  BY <1>3, <1>4, <1>5, <1>6, <1>7 DEF Worker

LEMMA AccidentsStep ==
  ASSUME TypeOK, PoolInv, WorkInv, SizeInv, WhyInv, Next
  PROVE  AccidentsExplained'
<1>0. why = "none" /\ gen \in Gens /\ made \in Nat
  BY EndStays, GensType DEF WhyInv, TypeOK
<1>1. CASE why' = "none"
  BY <1>1 DEF AccidentsExplained
<1>2. CASE (CatchTerm \/ CatchHup) /\ why' # "none"
  BY <1>0, <1>2, SignalFrame
<1>3. CASE Main /\ why' # "none"
  <2>1. why' \in {"fatal", "thread"} \/ (why' = "assert" /\ stats[gen] = "null" /\ made' = made)
    BY <1>0, <1>3 DEF Main, CheckSignal, Accept, AcceptEnds, ReloadFails, MakeContext, MakeContextEnds,
       SetContext, SetStats, MakePool, MakePoolFails, DestroyStats, DestroyStatsWaits, Cleanup,
       Terminate, End
  <2>2. stats[gen] = "null" => made > 0
    BY <1>0 DEF SizeInv
  <2> QED
    BY <2>1, <2>2 DEF AccidentsExplained
<1>4. ASSUME NEW g \in Gens, PrinterStarts(g), why' # "none" PROVE AccidentsExplained'
  <2>1. why' = "printer" /\ stats[g] = "freed"
    BY <1>0, <1>4 DEF PrinterStarts, Unowned, End
  <2>2. made' = made
    BY <1>4, PrinterFrame
  <2>3. made > 0
    BY <2>1 DEF SizeInv
  <2> QED
    BY <2>1, <2>2, <2>3 DEF AccidentsExplained
<1>5. ASSUME NEW g \in Gens, Cleaner(g) PROVE why' = "none"
  BY <1>0, <1>5, CleanerFrame
<1>6. ASSUME NEW g \in Gens, NEW t \in Threads, Worker(g, t) PROVE AccidentsExplained'
  BY <1>0, <1>6, AccidentsWorker
<1> QED
  BY <1>1, <1>2, <1>3, <1>4, <1>5, <1>6 DEF Next

-----------------------------------------------------------------------------
(* Connections that wait, whatever the state of their pool.                *)
Queued == {p \in Gens \X (1..MaxConns) : p[2] <= queue[p[1]]}
Balance == accepted = handled + Cardinality(Queued) + Cardinality(Busy)

LEMMA WaitingIsQueued == TypeOK /\ WorkInv => Waiting = Queued
<1> SUFFICES ASSUME TypeOK, WorkInv PROVE Waiting = Queued
  OBVIOUS
<1>1. ASSUME NEW h \in Gens, NEW n \in 1..MaxConns, n <= queue[h]
      PROVE  pool[h] \in {"live", "closing"}
  <2>1. queue[h] \in Nat /\ n \in Nat /\ n > 0
    BY GensType DEF TypeOK
  <2>2. queue[h] > 0
    BY <1>1, <2>1
  <2> QED
    BY <2>2 DEF WorkInv
<1> QED
  BY <1>1 DEF Waiting, Queued

LEMMA WaitingIsQueuedNext == (TypeOK /\ WorkInv => Waiting = Queued)'
  BY WaitingIsQueued, PTL

LEMMA Finite ==
  ASSUME TypeOK
  PROVE  /\ IsFiniteSet(Queued) /\ Cardinality(Queued) \in Nat
         /\ IsFiniteSet(Busy) /\ Cardinality(Busy) \in Nat
<1>1. IsFiniteSet(Gens) /\ IsFiniteSet(1..MaxConns) /\ IsFiniteSet(Threads)
  BY ReloadAssumption, FS_Interval DEF Gens
<1>2. IsFiniteSet(Gens \X (1..MaxConns)) /\ IsFiniteSet(Gens \X Threads)
  BY <1>1, FS_Product
<1>3. Queued \subseteq Gens \X (1..MaxConns) /\ Busy \subseteq Gens \X Threads
  BY DEF Queued, Busy
<1> QED
  BY <1>2, <1>3, FS_Subset, FS_CardinalityType

(* A list that grows by one has one connection more, one that shrinks by   *)
(* one has one less; so with the threads that become busy or idle.         *)
LEMMA QueueGrows ==
  ASSUME TypeOK, NEW g \in Gens, queue[g] < MaxConns, queue' = [queue EXCEPT ![g] = @ + 1]
  PROVE  Cardinality(Queued') = Cardinality(Queued) + 1
<1> DEFINE e == <<g, queue[g] + 1>>
<1>1. queue[g] \in Nat /\ queue[g] + 1 \in 1..MaxConns /\ e \notin Queued
  BY GensType DEF TypeOK, Queued
<1>2. ASSUME NEW h \in Gens, NEW n \in 1..MaxConns
      PROVE  n <= queue'[h] <=> n <= queue[h] \/ <<h, n>> = e
  <2>1. queue[h] \in Nat /\ queue'[h] = IF h = g THEN queue[g] + 1 ELSE queue[h]
    BY DEF TypeOK
  <2>2. n \in Nat
    BY GensType
  <2> QED
    BY <1>1, <2>1, <2>2
<1>3. Queued' = Queued \cup {e}
  BY <1>1, <1>2 DEF Queued
<1> QED
  BY <1>1, <1>3, Finite, FS_AddElement

LEMMA QueueShrinks ==
  ASSUME TypeOK, NEW g \in Gens, queue[g] > 0, queue[g] <= MaxConns,
         queue' = [queue EXCEPT ![g] = @ - 1]
  PROVE  Cardinality(Queued') = Cardinality(Queued) - 1
<1> DEFINE e == <<g, queue[g]>>
<1>1. queue[g] \in Nat /\ queue[g] \in 1..MaxConns /\ e \in Queued
  BY GensType DEF TypeOK, Queued
<1>2. ASSUME NEW h \in Gens, NEW n \in 1..MaxConns
      PROVE  n <= queue'[h] <=> n <= queue[h] /\ <<h, n>> # e
  <2>1. queue[h] \in Nat /\ queue'[h] = IF h = g THEN queue[g] - 1 ELSE queue[h]
    BY DEF TypeOK
  <2>2. n \in Nat
    BY GensType
  <2> QED
    BY <1>1, <2>1, <2>2
<1>3. Queued' = Queued \ {e}
  BY <1>1, <1>2 DEF Queued
<1> QED
  BY <1>1, <1>3, Finite, FS_RemoveElement

InHand == {"context", "stats", "evaluate"}
LEMMA BusyChanges ==
  ASSUME TypeOK, NEW g \in Gens, NEW t \in Threads, NEW w \in ThreadType, Becomes(g, t, w)
  PROVE  Cardinality(Busy') = Cardinality(Busy) + (IF w.pc \in InHand THEN 1 ELSE 0)
                                                - (IF worker[g][t].pc \in InHand THEN 1 ELSE 0)
<1> DEFINE e == <<g, t>>
<1>1. e \in Busy <=> worker[g][t].pc \in InHand
  BY DEF Busy, InHand
<1>2. ASSUME NEW h \in Gens, NEW u \in Threads
      PROVE  worker'[h][u].pc \in InHand <=>
               IF <<h, u>> = e THEN w.pc \in InHand ELSE worker[h][u].pc \in InHand
  BY OneThread
<1>3. Busy' = IF w.pc \in InHand THEN Busy \cup {e} ELSE Busy \ {e}
  BY <1>2 DEF Busy, InHand
<1>4. IsFiniteSet(Busy) /\ Cardinality(Busy) \in Nat
  BY Finite
<1>5. CASE w.pc \in InHand
  <2>1. Cardinality(Busy') = IF e \in Busy THEN Cardinality(Busy) ELSE Cardinality(Busy) + 1
    BY <1>3, <1>4, <1>5, FS_AddElement
  <2> QED
    BY <1>1, <1>4, <1>5, <2>1
<1>6. CASE w.pc \notin InHand
  <2>1. Cardinality(Busy') = IF e \in Busy THEN Cardinality(Busy) - 1 ELSE Cardinality(Busy)
    BY <1>3, <1>4, <1>6, FS_RemoveElement
  <2> QED
    BY <1>1, <1>4, <1>6, <2>1
<1> QED
  BY <1>5, <1>6

(* Nothing of the balance changes when lists and threads do not.           *)
LEMMA BalanceFrame ==
  ASSUME Balance, UNCHANGED <<queue, worker, accepted, handled>>
  PROVE  Balance'
  BY DEF Balance, Queued, Busy

LEMMA BalanceMain ==
  ASSUME TypeOK, WorkInv, Balance, Main
  PROVE  Balance'
<1>1. CASE queue' = queue /\ accepted' = accepted /\ handled' = handled /\ worker' = worker
  BY <1>1, BalanceFrame
<1>2. CASE /\ accepted < MaxConns /\ accepted' = accepted + 1 /\ handled' = handled
           /\ queue' = [queue EXCEPT ![gen] = @ + 1] /\ worker' = worker
  <2>1. gen \in Gens /\ queue[gen] \in Nat /\ accepted \in Nat /\ MaxConns \in Nat /\ handled \in Nat
    BY GensType DEF TypeOK
  <2>2. queue[gen] < MaxConns
    <3>1. queue[gen] <= accepted
      BY <2>1 DEF WorkInv
    <3> QED
      BY <1>2, <2>1, <3>1
  <2>3. Cardinality(Queued') = Cardinality(Queued) + 1
    BY <1>2, <2>1, <2>2, QueueGrows
  <2>4. Busy' = Busy
    BY <1>2 DEF Busy
  <2> QED
    BY <1>2, <2>1, <2>3, <2>4, Finite DEF Balance
<1> QED
  BY <1>1, <1>2 DEF Main, CheckSignal, Accept, AcceptEnds, ReloadFails, MakeContext, MakeContextEnds,
     SetContext, SetStats, MakePool, MakePoolFails, DestroyStats, DestroyStatsWaits, Cleanup,
     Terminate, Unchanged_Main, conns

(* A thread takes a connection from the list into its hand, keeps it, or   *)
(* is done with it.                                                        *)
LEMMA HandStep ==
  ASSUME TypeOK, NEW g \in Gens, NEW t \in Threads, Worker(g, t)
  PROVE  \/ UNCHANGED <<worker, queue, handled>>
         \/ \E w \in ThreadType :
              /\ Becomes(g, t, w)
              /\ \/ /\ worker[g][t].pc \notin InHand /\ w.pc \in InHand
                    /\ queue[g] > 0 /\ queue' = [queue EXCEPT ![g] = @ - 1] /\ handled' = handled
                 \/ /\ worker[g][t].pc \in InHand <=> w.pc \in InHand
                    /\ queue' = queue /\ handled' = handled
                 \/ /\ worker[g][t].pc \in InHand /\ w.pc \notin InHand
                    /\ queue' = queue /\ handled' = handled + 1
<1> DEFINE w == worker[g][t]
<1>0. /\ w \in ThreadType /\ ResultSize(w) \in Sizes \cup {0} /\ 0 \in Gens
      /\ warg.context \in Gens /\ warg.stats \in Gens
  BY ThreadOf, ResultSizeType, GensType DEF TypeOK
<1>1. CASE TakeConn(g, t)
  <2> DEFINE v == [w EXCEPT !.pc = "context"]
  <2>1. v \in ThreadType /\ v.pc = "context"
    BY <1>0 DEF ThreadType
  <2> QED
    BY <1>1, <2>1 DEF TakeConn, InHand, conns
<1>2. CASE ReadContext(g, t)
  <2> DEFINE v == [w EXCEPT !.pc = "stats", !.context = warg.context]
  <2>1. v \in ThreadType /\ v.pc = "stats"
    BY <1>0 DEF ThreadType
  <2> QED
    BY <1>2, <2>1 DEF ReadContext, InHand, conns, At
<1>3. CASE ReadStats(g, t)
  <2> DEFINE v == [w EXCEPT !.pc = "evaluate", !.stats = warg.stats]
  <2>1. v \in ThreadType /\ v.pc = "evaluate"
    BY <1>0 DEF ThreadType
  <2> QED
    BY <1>3, <2>1 DEF ReadStats, InHand, conns, At
<1>4. CASE Evaluate(g, t)
  <2> DEFINE v == [w EXCEPT !.pc = "update", !.size = ResultSize(w)]
  <2>1. v \in ThreadType /\ v.pc = "update"
    BY <1>0 DEF ThreadType
  <2>2. w.pc = "evaluate" /\ queue' = queue
    BY <1>4 DEF Evaluate, At
  <2>3. (Becomes(g, t, v) /\ handled' = handled + 1) \/ UNCHANGED <<worker, handled>>
    BY <1>4 DEF Evaluate
  <2> QED
    BY <2>1, <2>2, <2>3 DEF InHand
<1>5. CASE GiveUp(g, t)
  <2> DEFINE v(size) == [w EXCEPT !.pc = "idle", !.context = 0, !.stats = 0, !.size = size]
  <2>1. \A size \in Sizes \cup {0} : v(size) \in ThreadType /\ v(size).pc = "idle"
    BY <1>0 DEF ThreadType
  <2>2. \E size \in Sizes \cup {0} : Becomes(g, t, v(size))
    BY <1>0, <1>5 DEF GiveUp, ThreadType
  <2>3. w.pc = "evaluate" /\ queue' = queue /\ handled' = handled + 1
    BY <1>5 DEF GiveUp, At
  <2> QED
    BY <2>1, <2>2, <2>3 DEF InHand
<1>6. CASE UseDestroyed(g, t)
  BY <1>6 DEF UseDestroyed, conns
<1>7. CASE UpdateStats(g, t)
  <2> DEFINE v == [w EXCEPT !.pc = "idle", !.context = 0, !.stats = 0]
  <2>1. v \in ThreadType /\ v.pc = "idle"
    BY <1>0 DEF ThreadType
  <2>2. w.pc = "update" /\ queue' = queue /\ handled' = handled
    BY <1>7 DEF UpdateStats, At, conns
  <2>3. Becomes(g, t, v) \/ worker' = worker
    BY <1>7 DEF UpdateStats
  <2> QED
    BY <2>1, <2>2, <2>3 DEF InHand
<1>8. CASE WorkerExits(g, t)
  BY <1>8, NoThreadType DEF WorkerExits, At, NoThread, InHand, conns
<1> QED
  BY <1>1, <1>2, <1>3, <1>4, <1>5, <1>6, <1>7, <1>8 DEF Worker

LEMMA BalanceWorker ==
  ASSUME TypeOK, WorkInv, Balance, NEW g \in Gens, NEW t \in Threads, Worker(g, t)
  PROVE  Balance'
<1>0. accepted' = accepted /\ accepted \in Nat /\ handled \in Nat /\ queue[g] \in Nat /\ MaxConns \in Nat
  BY WorkerFrame, GensType DEF TypeOK
<1>1. queue[g] <= MaxConns
  <2>1. accepted <= MaxConns /\ queue[g] <= accepted
    BY GensType DEF TypeOK, WorkInv
  <2> QED
    BY <1>0, <2>1
<1>2. CASE UNCHANGED <<worker, queue, handled>>
  BY <1>0, <1>2, BalanceFrame
<1>3. ASSUME NEW w \in ThreadType, Becomes(g, t, w)
      PROVE  Cardinality(Busy') = Cardinality(Busy) + (IF w.pc \in InHand THEN 1 ELSE 0)
                                                    - (IF worker[g][t].pc \in InHand THEN 1 ELSE 0)
  BY <1>3, BusyChanges
<1>4. ASSUME queue' = queue PROVE Queued' = Queued
  BY <1>4 DEF Queued
<1>5. Cardinality(Busy) \in Nat /\ Cardinality(Queued) \in Nat
  BY Finite
<1>6. ASSUME NEW w \in ThreadType, Becomes(g, t, w), queue[g] > 0, handled' = handled,
             worker[g][t].pc \notin InHand, w.pc \in InHand, queue' = [queue EXCEPT ![g] = @ - 1]
      PROVE  Balance'
  <2>1. Cardinality(Queued') = Cardinality(Queued) - 1
    BY <1>1, <1>6, QueueShrinks
  <2>2. Cardinality(Busy') = Cardinality(Busy) + 1
    BY <1>3, <1>5, <1>6
  <2> QED
    BY <1>0, <1>5, <1>6, <2>1, <2>2 DEF Balance
<1>7. ASSUME NEW w \in ThreadType, Becomes(g, t, w), queue' = queue, handled' = handled,
             worker[g][t].pc \in InHand <=> w.pc \in InHand
      PROVE  Balance'
  <2>1. Cardinality(Busy') = Cardinality(Busy)
    BY <1>3, <1>5, <1>7
  <2> QED
    BY <1>0, <1>4, <1>7, <2>1 DEF Balance
<1>8. ASSUME NEW w \in ThreadType, Becomes(g, t, w), queue' = queue, handled' = handled + 1,
             worker[g][t].pc \in InHand, w.pc \notin InHand
      PROVE  Balance'
  <2>1. Cardinality(Busy') = Cardinality(Busy) - 1
    BY <1>3, <1>5, <1>8
  <2> QED
    BY <1>0, <1>4, <1>5, <1>8, <2>1 DEF Balance
<1> QED
  BY <1>2, <1>6, <1>7, <1>8, HandStep

LEMMA BalanceStep ==
  ASSUME TypeOK, WorkInv, Balance, Next
  PROVE  Balance'
<1>1. CASE CatchTerm \/ CatchHup
  BY <1>1, SignalFrame, BalanceFrame
<1>2. CASE Main
  BY <1>2, BalanceMain
<1>3. ASSUME NEW g \in Gens, PrinterStarts(g) PROVE Balance'
  BY <1>3, PrinterFrame, BalanceFrame
<1>4. ASSUME NEW g \in Gens, Cleaner(g) PROVE Balance'
  BY <1>4, CleanerFrame, BalanceFrame
<1>5. ASSUME NEW g \in Gens, NEW t \in Threads, Worker(g, t) PROVE Balance'
  BY <1>5, BalanceWorker
<1> QED
  BY <1>1, <1>2, <1>3, <1>4, <1>5 DEF Next

-----------------------------------------------------------------------------
(* The invariant holds at the start, and every step keeps it.              *)
LEMMA InvInit == Init => Inv
<1> SUFFICES ASSUME Init PROVE Inv
  OBVIOUS
<1>1. TypeOK
  BY TypeInit
<1>2. main = "loop" /\ gen = 0 /\ made = 0 /\ why = "none" /\ sigthread = "waiting"
  BY DEF Init
<1>3. TermInv /\ WhyInv /\ AccidentsExplained
  BY <1>2 DEF TermInv, WhyInv, AccidentsExplained, terminated
<1>4. GenInv
  BY GensType DEF Init, GenInv, Building, Replacing
<1>5. PoolInv
  BY GensType DEF Init, PoolInv, Replacing, Ended
<1>6. WorkInv
  BY DEF Init, WorkInv, NoThread
<1>7. SizeInv
  <2>1. \A g \in Gens : g <= made => g = 0
    BY <1>2, GensType
  <2> QED
    BY <2>1, GensType DEF Init, SizeInv, Sized, NoThread
<1>8. NoConnLost
  <2>1. Queued = {} /\ Busy = {}
    <3>1. \A n \in 1..MaxConns : ~(n <= 0)
      BY GensType
    <3> QED
      BY <3>1 DEF Init, Queued, Busy, NoThread
  <2>2. Cardinality(Waiting) = 0 /\ Cardinality(Busy) = 0
    BY <1>1, <1>6, <2>1, WaitingIsQueued, FS_EmptySet
  <2>3. accepted = 0 /\ handled = 0
    BY DEF Init
  <2> QED
    BY <2>2, <2>3 DEF NoConnLost
<1> QED
  BY <1>1, <1>3, <1>4, <1>5, <1>6, <1>7, <1>8 DEF Inv

LEMMA TypeStep == ASSUME TypeOK, GenInv, Next PROVE TypeOK'
  BY TypeSignals, TypeMain, TypePrinter, TypeCleaner, TypeWorker DEF Next

LEMMA InvStep == Inv /\ [Next]_vars => Inv'
<1> SUFFICES ASSUME Inv, [Next]_vars PROVE Inv'
  OBVIOUS
<1> USE DEF Inv
<1>1. CASE Next
  <2>1. TypeOK' /\ WorkInv'
    BY <1>1, TypeStep, WorkStep
  <2>2. Balance
    BY WaitingIsQueued DEF NoConnLost, Balance
  <2>3. Waiting' = Queued'
    BY <2>1, WaitingIsQueuedNext
  <2>4. NoConnLost'
    BY <1>1, <2>2, <2>3, BalanceStep DEF NoConnLost, Balance
  <2> QED
    BY <1>1, <2>1, <2>4, TermStep, GenStep, PoolStep, SizeStep, WhyStep, AccidentsStep
<1>2. CASE UNCHANGED vars
  <2> USE <1>2 DEF vars, mainvars, signals, statvars, pools, conns
  <2>1. TypeOK'
    BY DEF TypeOK
  <2>2. TermInv' /\ GenInv' /\ PoolInv' /\ WhyInv'
    BY DEF TermInv, terminated, GenInv, PoolInv, WhyInv
  <2>3. WorkInv' /\ SizeInv'
    BY DEF WorkInv, SizeInv, Sized
  <2>4. NoConnLost' /\ AccidentsExplained'
    BY DEF NoConnLost, Waiting, Busy, AccidentsExplained
  <2> QED
    BY <2>1, <2>2, <2>3, <2>4
<1> QED
  BY <1>1, <1>2

LEMMA InvHolds == Spec => []Inv
  BY InvInit, InvStep, PTL DEF Spec

(* Types: what the daemon keeps for each generation is what it can be.     *)
THEOREM TypeSafety == Spec => []TypeOK
<1>1. Inv => TypeOK
  BY DEF Inv
<1> QED
  BY <1>1, InvHolds, PTL

(* However many reloads there are, every connection that was accepted is   *)
(* handled, in the hand of a thread, or in the list of a pool that exists. *)
THEOREM NoConnSafety == Spec => []NoConnLost
<1>1. Inv => NoConnLost
  BY DEF Inv
<1> QED
  BY <1>1, InvHolds, PTL

(* No thread has the context its pool was made with destroyed under it.    *)
THEOREM OwnContextSafety == Spec => []OwnContext
<1>1. Inv => OwnContext
  BY OwnContextHolds DEF Inv
<1> QED
  BY <1>1, InvHolds, PTL

(* What ends the daemon by accident needs a reload; what does not fit,     *)
(* configurations of different sizes; a destroyed context, a thread of an  *)
(* older pool.                                                             *)
THEOREM AccidentsSafety == Spec => []AccidentsExplained
<1>1. Inv => AccidentsExplained
  BY DEF Inv
<1> QED
  BY <1>1, InvHolds, PTL

(* After SIGTERM main never turns to a reload, whatever signals follow.    *)
THEOREM TermSafety == Spec => TermStands
<1>1. TermInv /\ terminated /\ main = "loop" /\ Next => main' # "reload"
  <2> SUFFICES ASSUME TermInv, terminated, main = "loop", Next PROVE main' # "reload"
    OBVIOUS
  <2>1. sig = "term"
    BY DEF TermInv, Ended
  <2>2. CASE CatchTerm \/ CatchHup
    BY <2>2, SignalFrame
  <2>3. CASE Main
    BY <2>1, <2>3 DEF Main, CheckSignal, Accept, AcceptEnds, ReloadFails, MakeContext, MakeContextEnds,
       SetContext, SetStats, MakePool, MakePoolFails, DestroyStats, DestroyStatsWaits, Cleanup,
       Terminate, Goto, End
  <2>4. ASSUME NEW g \in Gens, PrinterStarts(g) PROVE main' # "reload"
    BY <2>4, PrinterFrame DEF Crashes
  <2>5. ASSUME NEW g \in Gens, Cleaner(g) PROVE main' # "reload"
    BY <2>5, CleanerFrame
  <2>6. ASSUME NEW g \in Gens, NEW t \in Threads, Worker(g, t) PROVE main' # "reload"
    BY <2>6, WorkerFrame DEF Crashes
  <2> QED
    BY <2>2, <2>3, <2>4, <2>5, <2>6 DEF Next
<1>2. Inv /\ [Next]_vars => [terminated /\ main = "loop" => main' # "reload"]_vars
  BY <1>1 DEF Inv
<1> QED
  BY <1>2, InvHolds, PTL DEF Spec, TermStands
=============================================================================
