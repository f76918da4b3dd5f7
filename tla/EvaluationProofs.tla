-------------------------- MODULE EvaluationProofs --------------------------
(***************************************************************************)
(* Proofs about Evaluation, for any dicts, configurations and points.      *)
(***************************************************************************)
EXTENDS Evaluation, FiniteSetTheorems, TLAPS

(* Where the stage may be used as an index, and which dict is being pushed.*)
InLoop ==
  /\ pc = "checks" => stage >= 1
  /\ pc \in {"checks", "next", "call", "push", "wait", "blocked", "score"} => stage <= nstages
AsyncPushed == pc = "push" => i <= Len(dicts) /\ Called \in Async
TypeInv == TypeOK /\ InLoop /\ AsyncPushed
-----------------------------------------------------------------------------
LEMMA ContextFacts ==
  ASSUME ctx \in Contexts
  PROVE  /\ nstages \in Nat
         /\ \A s \in 1..nstages :
              /\ Checks(s) \in Seq(CheckType) /\ Len(Checks(s)) \in Nat
              /\ ctx.stages[s].depends \in Seq(Dicts)
              /\ \A k \in 1..Len(Checks(s)) :
                   Checks(s)[k].dict \in Dicts /\ Checks(s)[k].depends \in Seq(Dicts)
<1>1. ctx.stages \in Seq(StageType)
  BY EvaluationAssumption DEF ContextType
<1>2. nstages \in Nat /\ \A s \in 1..nstages : ctx.stages[s] \in StageType
  BY <1>1 DEF nstages
<1>3. \A s \in 1..nstages : Checks(s) \in Seq(CheckType) /\ ctx.stages[s].depends \in Seq(Dicts)
  BY <1>2 DEF StageType, Checks
<1>4. \A s \in 1..nstages : \A k \in 1..Len(Checks(s)) : Checks(s)[k] \in CheckType
  BY <1>3
<1>5. \A s \in 1..nstages : \A k \in 1..Len(Checks(s)) :
        Checks(s)[k].dict \in Dicts /\ Checks(s)[k].depends \in Seq(Dicts)
  BY <1>4 DEF CheckType
<1>6. \A s \in 1..nstages : Len(Checks(s)) \in Nat
  BY <1>3
<1> QED
  BY <1>2, <1>3, <1>5, <1>6

LEMMA PointsInt ==
  ASSUME TypeOK, NEW d \in Dicts
  PROVE  points[d] \in Int
<1>1. points[d] \in Points \cup {0}
  BY Zenon DEF TypeOK
<1>2. Points \cup {0} \subseteq Int
  BY EvaluationAssumption
<1> QED
  BY <1>1, <1>2

THEOREM TypeInit == Init => TypeInv
<1> SUFFICES ASSUME Init PROVE TypeInv
  OBVIOUS
<1>1. nstages \in Nat
  BY ContextFacts DEF Init
<1>2. stage \in 0..(nstages + 1) /\ served \in 0..MaxRequests
  BY <1>1, EvaluationAssumption DEF Init
<1>3. ready \in [Dicts -> BOOLEAN]
  BY Zenon DEF Init
<1>4. /\ points \in [Dicts -> Points \cup {0}]
      /\ jobs \in [Dicts -> {"none", "queued", "checked"}]
      /\ hits \in [Dicts -> Nat]
      /\ dicts \in Seq(Dicts)
  BY DEF Init
<1> QED
  BY <1>1, <1>2, <1>3, <1>4 DEF Init, TypeInv, TypeOK, InLoop, AsyncPushed, Phases

LEMMA TypeCollect ==
  ASSUME TypeInv, CollectCheck \/ CollectNext \/ CollectNextCheck \/ EndChecks \/ EndNext
         \/ BeginStage \/ EndStages \/ Score \/ EndScores
  PROVE  TypeInv'
<1> USE DEF TypeInv, TypeOK, InLoop, AsyncPushed, Phases, Goto, nstages, Unchanged_Collect, result, async, verdict, loop
<1>1. CASE CollectCheck
  <2>1. stage \in 1..nstages
    BY <1>1, ContextFacts DEF CollectCheck
  <2>2. Checks(stage)[i].dict \in Dicts
    BY <1>1, <2>1, ContextFacts DEF CollectCheck
  <2>3. points[Checks(stage)[i].dict] \in Int
    BY <2>2, PointsInt
  <2>4. dicts' \in Seq(Dicts) /\ score' \in Int
    <3>1. CASE CollectScores
      BY <3>1, <2>3 DEF CollectScores
    <3>2. CASE CollectAppends
      BY <3>2, <2>2 DEF CollectAppends
    <3>3. CASE UNCHANGED <<dicts, verdict>>
      BY <3>3
    <3> QED
      BY <1>1, <3>1, <3>2, <3>3 DEF CollectCheck
  <2>5. /\ i' = i + 1
        /\ UNCHANGED <<pc, stage, j>> /\ Unchanged_Collect
    BY <1>1 DEF CollectCheck
  <2>6. pc = "checks"
    BY <1>1 DEF CollectCheck
  <2> QED
    BY <2>1, <2>4, <2>5, <2>6
<1>2. CASE CollectNext
  <2>1. stage + 1 \in 1..nstages
    BY <1>2, ContextFacts DEF CollectNext, LookingAhead
  <2>2. Checks(stage + 1)[i].depends \in Seq(Dicts)
    BY <1>2, <2>1, ContextFacts DEF CollectNext, LookingAhead
  <2>3. dicts' \in Seq(Dicts)
    BY <1>2, <2>2 DEF CollectNext
  <2>4. pc' = "next" /\ i' = i /\ j' = j + 1 /\ stage' = stage /\ stage < nstages
    BY <1>2 DEF CollectNext, LookingAhead
  <2>5. UNCHANGED <<ctx, ready, points, score, reply, missing, unanswered, writers, jobs, dangling,
                    signals, refused, served, hits>>
    BY <1>2 DEF CollectNext
  <2> QED
    BY <2>3, <2>4, <2>5
<1>3. CASE CollectNextCheck
  BY <1>3, ContextFacts, EvaluationAssumption DEF CollectNextCheck, LookingAhead
<1>4. CASE EndChecks
  BY <1>4, ContextFacts, EvaluationAssumption DEF EndChecks
<1>5. CASE EndNext
  BY <1>5, ContextFacts, EvaluationAssumption DEF EndNext
<1>6. CASE BeginStage
  BY <1>6, ContextFacts, EvaluationAssumption DEF BeginStage
<1>7. CASE EndStages
  BY <1>7, ContextFacts, EvaluationAssumption DEF EndStages
<1>8. CASE Score
  <2>1. stage \in 1..nstages
    BY <1>8, ContextFacts DEF Score, Scoring
  <2>2. Checks(stage)[i].dict \in Dicts
    BY <1>8, <2>1, ContextFacts DEF Score, Scoring
  <2>3. points[Checks(stage)[i].dict] \in Int
    BY <2>2, PointsInt
  <2>4. score' \in Int
    <3>1. CASE Checks(stage)[i].dict \in Elements(dicts)
      BY <1>8, <2>3, <3>1 DEF Score
    <3>2. CASE Checks(stage)[i].dict \notin Elements(dicts)
      BY <1>8, <3>2 DEF Score
    <3> QED
      BY <3>1, <3>2
  <2> QED
    BY <1>8, <2>1, <2>4 DEF Score, Scoring
<1>9. CASE EndScores
  BY <1>9, ContextFacts, EvaluationAssumption DEF EndScores, Scoring
<1> QED
  BY <1>1, <1>2, <1>3, <1>4, <1>5, <1>6, <1>7, <1>8, <1>9

LEMMA TypeRequest ==
  ASSUME TypeInv, Begin \/ BeginFails \/ BeginCrashes \/ Reply \/ UpdateStats \/ Reset
  PROVE  TypeInv'
<1> USE DEF TypeInv, TypeOK, InLoop, AsyncPushed, Phases, Goto, nstages, result, async, verdict, loop
<1>1. CASE Begin
  BY <1>1, ContextFacts, EvaluationAssumption DEF Begin
<1>2. CASE BeginFails
  BY <1>2, EvaluationAssumption DEF BeginFails
<1>3. CASE Reply
  BY <1>3 DEF Reply
<1>4. CASE UpdateStats
  <2>1. hits' \in [Dicts -> Nat]
    BY <1>4 DEF UpdateStats
  <2> QED
    BY <1>4, <2>1 DEF UpdateStats
<1>5. CASE Reset
  <2>1. ready' \in [Dicts -> BOOLEAN]
    BY <1>5, Zenon DEF Reset
  <2>2. points' \in [Dicts -> Points \cup {0}]
    BY <1>5 DEF Reset
  <2> QED
    BY <1>5, <2>1, <2>2 DEF Reset
<1>6. CASE BeginCrashes
  BY <1>6, EvaluationAssumption DEF BeginCrashes
<1> QED
  BY <1>1, <1>2, <1>3, <1>4, <1>5, <1>6

LEMMA TypePanic ==
  ASSUME TypeInv, StagePanics \/ CheckPanics
  PROVE  TypeInv'
<1>1. PICK d \in Dicts : Panic(d)
  <2>1. CASE StagePanics
    <3>1. ctx.stages[stage].depends \in Seq(Dicts)
      BY <2>1, ContextFacts DEF StagePanics, TypeInv, TypeOK
    <3> QED
      BY <2>1, <3>1 DEF StagePanics
  <2>2. CASE CheckPanics
    <3>1. stage \in 1..nstages
      BY <2>2, ContextFacts DEF CheckPanics, TypeInv, TypeOK, InLoop
    <3>2. Checks(stage)[i].depends \in Seq(Dicts)
      BY <2>2, <3>1, ContextFacts DEF CheckPanics, TypeInv, TypeOK
    <3> QED
      BY <2>2, <3>2 DEF CheckPanics
  <2> QED
    BY <2>1, <2>2
<1> QED
  BY <1>1 DEF Panic, TypeInv, TypeOK, InLoop, AsyncPushed, Phases, Goto, nstages, result, async, verdict, loop

LEMMA TypeAnswer ==
  ASSUME TypeInv, NEW d \in Dicts, Answer(d)
  PROVE  /\ ready' \in [Dicts -> BOOLEAN]
         /\ points' \in [Dicts -> Points \cup {0}]
         /\ unanswered' \subseteq Dicts
<1>1. ready \in [Dicts -> BOOLEAN] /\ points \in [Dicts -> Points \cup {0}] /\ unanswered \subseteq Dicts
  BY DEF TypeInv, TypeOK
<1>2. ready' \in [Dicts -> BOOLEAN]
  BY <1>1, Zenon DEF Answer, result
<1>3. points' \in [Dicts -> Points \cup {0}]
  BY <1>1 DEF Answer, result
<1>4. unanswered' \subseteq Dicts
  BY <1>1 DEF Answer
<1> QED
  BY <1>2, <1>3, <1>4

LEMMA TypeCall ==
  ASSUME TypeInv, CallSync \/ CallFails \/ CallLock \/ CallPushed \/ CallRefused \/ EndCalls
  PROVE  TypeInv'
<1> USE DEF TypeInv, TypeOK, InLoop, AsyncPushed, Phases, Goto, nstages, Unchanged_Call, result, async, verdict, Calling, Called
<1>1. CASE CallSync
  <2>1. Called \in Dicts
    BY <1>1 DEF CallSync
  <2>2. Answer(Called)
    BY <1>1 DEF CallSync
  <2>3. /\ ready' \in [Dicts -> BOOLEAN]
        /\ points' \in [Dicts -> Points \cup {0}]
        /\ unanswered' \subseteq Dicts
    BY <2>1, <2>2, TypeAnswer
  <2> QED
    BY <1>1, <2>3 DEF CallSync
<1>2. CASE CallFails
  BY <1>2 DEF CallFails
<1>3. CASE CallLock
  BY <1>3 DEF CallLock
<1>4. CASE CallPushed
  BY <1>4 DEF CallPushed
<1>5. CASE CallRefused
  BY <1>5 DEF CallRefused
<1>6. CASE EndCalls
  BY <1>6 DEF EndCalls
<1> QED
  BY <1>1, <1>2, <1>3, <1>4, <1>5, <1>6

LEMMA TypeJob ==
  ASSUME TypeInv,
         (\E d \in Dicts : Job(d)) \/ Signal \/ RunDangling \/ Wait \/ SpuriousWakeup
  PROVE  TypeInv'
<1> USE DEF TypeInv, TypeOK, InLoop, AsyncPushed, Phases, Goto, nstages, Unchanged_Job, result, async, verdict, loop, Called
<1>1. ASSUME NEW d \in Dicts, JobCheck(d) PROVE TypeInv'
  <2>1. Answer(d)
    BY <1>1 DEF JobCheck
  <2>2. /\ ready' \in [Dicts -> BOOLEAN]
        /\ points' \in [Dicts -> Points \cup {0}]
        /\ unanswered' \subseteq Dicts
    BY <2>1, TypeAnswer
  <2> QED
    BY <1>1, <2>2 DEF JobCheck
<1>2. ASSUME NEW d \in Dicts, JobUnlock(d) PROVE TypeInv'
  BY <1>2 DEF JobUnlock
<1>3. CASE Signal
  BY <1>3 DEF Signal
<1>4. CASE RunDangling
  BY <1>4 DEF RunDangling
<1>5. CASE Wait
  BY <1>5 DEF Wait, Unchanged_Call
<1>6. CASE SpuriousWakeup
  BY <1>6 DEF SpuriousWakeup, Unchanged_Call
<1> QED
  BY <1>1, <1>2, <1>3, <1>4, <1>5, <1>6 DEF Job

THEOREM TypeNext == TypeInv /\ [Next]_vars => TypeInv'
<1>1. CASE Next
  BY <1>1, TypeCollect, TypeRequest, TypePanic, TypeCall, TypeJob DEF Next, Worker
<1>2. ASSUME TypeInv, UNCHANGED vars PROVE TypeInv'
  BY <1>2 DEF vars, TypeInv, TypeOK, InLoop, AsyncPushed, nstages, result, async, verdict, loop, Called
<1> QED
  BY <1>1, <1>2

THEOREM TypeAlways == Spec => []TypeInv
  BY TypeInit, TypeNext, PTL DEF Spec

(* The fields keep the values they are meant to have.                      *)
THEOREM TypeSafety == Spec => []TypeOK
<1>1. TypeInv => TypeOK
  BY DEF TypeInv
<1> QED
  BY <1>1, TypeAlways, PTL
-----------------------------------------------------------------------------
(* The list of dicts holds no dict twice, and none that is on it and yet   *)
(* to be called has answered or has a job; nor has a dict whose job is     *)
(* still in the pool's list.                                               *)
ListInv ==
  /\ \A k, l \in 1..Len(dicts) : dicts[k] = dicts[l] => k = l
  /\ pc \in {"checks", "next"} => \A k \in 1..Len(dicts) : ~ready[dicts[k]]
  /\ pc \in {"call", "push"} =>
       \A k \in i..Len(dicts) : ~ready[dicts[k]] /\ jobs[dicts[k]] = "none"
  /\ \A d \in Dicts : jobs[d] = "queued" => ~ready[d]

(* Every writer is a job that is not through, one whose push failed, or    *)
(* the worker itself between vt_result_lock and vt_thread_pool_push.       *)
Pushing == IF pc = "push" THEN 1 ELSE 0
WritersExact == pc # "crashed" => writers = Cardinality(Outstanding) + refused + Pushing
Settled == pc \in ReadsResult \cup {"panicked"} => Outstanding = {} /\ refused = 0
WriterInv == WritersExact /\ Settled
Inv == TypeInv /\ ListInv /\ WriterInv

LEMMA ListFrame ==
  ASSUME TypeInv, ListInv, UNCHANGED <<dicts, ready, jobs>>,
         \/ pc' = pc /\ i' = i
         \/ pc' = pc /\ pc \notin {"call", "push"}
         \/ pc' = "next" /\ pc = "checks"
         \/ pc' = "push" /\ pc = "call" /\ i' = i
         \/ pc' \notin {"checks", "next", "call", "push"}
  PROVE  ListInv'
  BY DEF ListInv

LEMMA AppendFresh ==
  ASSUME TypeInv, ListInv, NEW d \in Dicts, pc \in {"checks", "next"}, pc' = pc,
         d \notin Elements(dicts), ~ready[d], dicts' = Append(dicts, d), UNCHANGED <<ready, jobs>>
  PROVE  ListInv'
<1>1. /\ dicts \in Seq(Dicts) /\ Len(dicts') = Len(dicts) + 1 /\ dicts'[Len(dicts) + 1] = d
      /\ \A k \in 1..Len(dicts) : dicts'[k] = dicts[k]
  BY DEF TypeInv, TypeOK
<1>2. \A k \in 1..Len(dicts') : k \in 1..Len(dicts) \/ k = Len(dicts) + 1
  BY <1>1
<1>3. \A k \in 1..Len(dicts) : dicts[k] # d
  BY DEF Elements
<1>4. \A k, l \in 1..Len(dicts') : dicts'[k] = dicts'[l] => k = l
  BY <1>1, <1>2, <1>3 DEF ListInv
<1>5. \A k \in 1..Len(dicts') : ~ready'[dicts'[k]]
  BY <1>1, <1>2 DEF ListInv
<1> QED
  BY <1>4, <1>5 DEF ListInv

LEMMA ListCall ==
  ASSUME Inv, CallSync \/ CallFails \/ CallPushed \/ CallRefused
  PROVE  ListInv'
<1>1. /\ pc \in {"call", "push"} /\ pc' = "call" /\ i' = i + 1
      /\ i \in 1..Len(dicts) /\ dicts' = dicts /\ Called \in Dicts
  BY DEF Inv, TypeInv, TypeOK, AsyncPushed, CallSync, CallFails, CallPushed, CallRefused,
         Calling, Called, Goto, Unchanged_Call
<1>2. \A k \in i..Len(dicts) : ~ready[dicts[k]] /\ jobs[dicts[k]] = "none"
  BY <1>1 DEF Inv, ListInv
<1>3. ~ready[Called] /\ jobs[Called] = "none"
  BY <1>1, <1>2 DEF Called
<1>4. \A k \in (i + 1)..Len(dicts) : dicts[k] \in Dicts /\ dicts[k] # Called
  BY <1>1 DEF Inv, ListInv, TypeInv, TypeOK, Called
<1>5. \A d \in Dicts \ {Called} : ready'[d] = ready[d] /\ jobs'[d] = jobs[d]
  <2>1. ready \in [Dicts -> BOOLEAN] /\ jobs \in [Dicts -> {"none", "queued", "checked"}]
    BY DEF Inv, TypeInv, TypeOK
  <2>2. CASE CallSync
    BY <1>1, <2>1, <2>2, Zenon DEF CallSync, Answer, async, result
  <2>3. CASE CallFails
    BY <2>3 DEF CallFails, async, result
  <2>4. CASE CallPushed
    BY <2>1, <2>4, Zenon DEF CallPushed, result
  <2>5. CASE CallRefused
    BY <2>5 DEF CallRefused, result
  <2> QED
    BY <2>2, <2>3, <2>4, <2>5
<1>6. jobs'[Called] = "queued" => ~ready'[Called]
  <2>1. CASE CallPushed
    BY <1>3, <2>1 DEF CallPushed, result
  <2>2. CASE CallSync
    BY <1>3, <2>2 DEF CallSync, async
  <2>3. CASE CallFails
    BY <1>3, <2>3 DEF CallFails, async
  <2>4. CASE CallRefused
    BY <1>3, <2>4 DEF CallRefused
  <2> QED
    BY <2>1, <2>2, <2>3, <2>4
<1>7. \A k \in i'..Len(dicts') : ~ready'[dicts'[k]] /\ jobs'[dicts'[k]] = "none"
  <2>1. i'..Len(dicts') \subseteq i..Len(dicts) /\ i'..Len(dicts') = (i + 1)..Len(dicts)
    BY <1>1
  <2> QED
    BY <1>1, <1>2, <1>4, <1>5, <2>1
<1>8. \A d \in Dicts : jobs'[d] = "queued" => ~ready'[d]
  BY <1>5, <1>6 DEF Inv, ListInv
<1> QED
  BY <1>1, <1>7, <1>8 DEF Inv, ListInv

LEMMA ListJob ==
  ASSUME Inv, NEW d \in Dicts, Job(d)
  PROVE  ListInv'
<1>1. pc' = pc /\ i' = i /\ dicts' = dicts
  BY DEF Job, JobCheck, JobUnlock, Unchanged_Job, loop
<1>2. jobs[d] # "none"
  BY DEF Job, JobCheck, JobUnlock
<1>3. pc \notin {"checks", "next"}
  BY <1>2 DEF Inv, WriterInv, Settled, Outstanding, ReadsResult
<1>4. \A e \in Dicts \ {d} : ready'[e] = ready[e] /\ jobs'[e] = jobs[e]
  <2>1. ready \in [Dicts -> BOOLEAN] /\ jobs \in [Dicts -> {"none", "queued", "checked"}]
    BY DEF Inv, TypeInv, TypeOK
  <2>2. CASE JobCheck(d)
    BY <2>1, <2>2, Zenon DEF JobCheck, Answer, result
  <2>3. CASE JobUnlock(d)
    BY <2>1, <2>3, Zenon DEF JobUnlock, result
  <2> QED
    BY <2>2, <2>3 DEF Job
<1>5. jobs'[d] # "queued"
  BY DEF Job, JobCheck, JobUnlock, Inv, TypeInv, TypeOK
<1>6. \A e \in Dicts : jobs'[e] = "queued" => ~ready'[e]
  BY <1>4, <1>5 DEF Inv, ListInv
<1>7. pc \in {"call", "push"} =>
        \A k \in i..Len(dicts) : ~ready'[dicts[k]] /\ jobs'[dicts[k]] = "none"
  <2>1. \A k \in i..Len(dicts) : dicts[k] \in Dicts
    BY DEF Inv, TypeInv, TypeOK
  <2> QED
    BY <1>2, <1>4, <2>1 DEF Inv, ListInv
<1> QED
  BY <1>1, <1>3, <1>6, <1>7 DEF Inv, ListInv

LEMMA ListCollect ==
  ASSUME Inv, CollectCheck \/ CollectNext
  PROVE  ListInv'
<1>1. UNCHANGED <<ready, jobs>> /\ pc' = pc /\ pc \in {"checks", "next"}
  BY DEF CollectCheck, CollectNext, Unchanged_Collect, result, async, LookingAhead
<1>2. CASE UNCHANGED dicts
  BY <1>1, <1>2, ListFrame DEF Inv
<1>3. ASSUME dicts' # dicts
      PROVE  \E d \in Dicts : d \notin Elements(dicts) /\ ~ready[d] /\ dicts' = Append(dicts, d)
  <2>1. CASE CollectCheck
    <3>1. stage \in 1..nstages /\ i \in 1..Len(Checks(stage))
      BY <2>1, ContextFacts DEF CollectCheck, Inv, TypeInv, TypeOK, InLoop
    <3>2. Checks(stage)[i].dict \in Dicts
      BY <3>1, ContextFacts DEF Inv, TypeInv, TypeOK
    <3> QED
      BY <1>3, <2>1, <3>2 DEF CollectCheck, CollectScores, CollectAppends
  <2>2. CASE CollectNext
    <3>1. stage + 1 \in 1..nstages /\ i \in 1..Len(Checks(stage + 1))
      BY <2>2, ContextFacts DEF CollectNext, LookingAhead, Inv, TypeInv, TypeOK
    <3>2. Checks(stage + 1)[i].depends \in Seq(Dicts)
      BY <3>1, ContextFacts DEF Inv, TypeInv, TypeOK
    <3>3. Checks(stage + 1)[i].depends[j] \in Dicts
      BY <2>2, <3>2 DEF CollectNext, Inv, TypeInv, TypeOK
    <3> QED
      BY <1>3, <2>2, <3>3 DEF CollectNext, Wanted
  <2> QED
    BY <2>1, <2>2
<1> QED
  BY <1>1, <1>2, <1>3, AppendFresh DEF Inv

LEMMA ListNext ==
  ASSUME Inv, Next
  PROVE  ListInv'
<1> USE DEF Unchanged_Collect, Unchanged_Call, Unchanged_Job, result, async, loop, Goto
<1>1. CASE CallSync \/ CallFails \/ CallPushed \/ CallRefused
  BY <1>1, ListCall
<1>2. CASE \E d \in Dicts : Job(d)
  BY <1>2, ListJob
<1>3. CASE CollectCheck \/ CollectNext
  BY <1>3, ListCollect
<1>4. CASE Begin \/ BeginFails \/ BeginCrashes \/ StagePanics \/ CheckPanics \/ EndStages \/ Reply \/ UpdateStats
  BY <1>4, ListFrame DEF Inv, Begin, BeginFails, BeginCrashes, StagePanics, CheckPanics, Panic, EndStages,
     Reply, UpdateStats
<1>5. CASE EndChecks \/ CollectNextCheck \/ CallLock \/ EndCalls
  BY <1>5, ListFrame DEF Inv, EndChecks, CollectNextCheck, LookingAhead, CallLock, Calling, EndCalls
<1>6. CASE Wait \/ SpuriousWakeup \/ Score \/ EndScores \/ Signal \/ RunDangling
  BY <1>6, ListFrame DEF Inv, Wait, SpuriousWakeup, Score, Scoring, EndScores, Signal, RunDangling
<1>7. CASE BeginStage
  <2>1. Len(dicts') = 0
    BY <1>7 DEF BeginStage
  <2> QED
    BY <1>7, <2>1 DEF BeginStage, Inv, ListInv
<1>8. CASE EndNext
  <2>1. pc = "next" /\ pc' = "call" /\ i' = 1 /\ UNCHANGED <<dicts, ready, jobs>>
    BY <1>8 DEF EndNext
  <2>2. \A d \in Dicts : jobs[d] = "none"
    BY <2>1 DEF Inv, WriterInv, Settled, Outstanding, ReadsResult
  <2>3. \A k \in 1..Len(dicts) : dicts[k] \in Dicts
    BY DEF Inv, TypeInv, TypeOK
  <2> QED
    BY <2>1, <2>2, <2>3 DEF Inv, ListInv
<1>9. CASE Reset
  <2>1. pc' = "idle" /\ UNCHANGED <<dicts, jobs>> /\ \A d \in Dicts : ~ready'[d]
    BY <1>9 DEF Reset
  <2> QED
    BY <2>1 DEF Inv, ListInv
<1> QED
  BY <1>1, <1>2, <1>3, <1>4, <1>5, <1>6, <1>7, <1>8, <1>9 DEF Next, Worker
-----------------------------------------------------------------------------
LEMMA OutstandingFinite == IsFiniteSet(Outstanding) /\ Cardinality(Outstanding) \in Nat
<1>1. IsFiniteSet(Dicts) /\ Outstanding \in SUBSET Dicts
  BY EvaluationAssumption DEF Outstanding
<1>2. IsFiniteSet(Outstanding)
  BY <1>1, FS_Subset
<1> QED
  BY <1>2, FS_CardinalityType

LEMMA WriterFrame ==
  ASSUME WriterInv, UNCHANGED <<jobs, writers, refused>>,
         \/ pc' = pc
         \/ pc \in ReadsResult /\ pc' \in Phases \ {"push"}
         \/ pc' \in {"wait", "blocked"} /\ pc \in {"call", "wait", "blocked"}
         \/ pc' = "crashed"
  PROVE  WriterInv'
  BY DEF WriterInv, WritersExact, Settled, Outstanding, Pushing, ReadsResult, Phases

LEMMA WriterCall ==
  ASSUME Inv, CallLock \/ CallPushed \/ CallRefused
  PROVE  WriterInv'
<1>1. CASE CallLock
  <2>1. /\ pc = "call" /\ pc' = "push" /\ UNCHANGED <<jobs, refused>> /\ writers' = writers + 1
    BY <1>1 DEF CallLock, Calling, Goto
  <2>2. writers = Cardinality(Outstanding) + refused
    BY <2>1, OutstandingFinite DEF Inv, TypeInv, TypeOK, WriterInv, WritersExact, Pushing
  <2>3. Outstanding' = Outstanding
    BY <2>1 DEF Outstanding
  <2> QED
    BY <2>1, <2>2, <2>3 DEF WriterInv, WritersExact, Settled, Pushing, ReadsResult
<1>2. CASE CallPushed
  <2>1. /\ pc = "push" /\ pc' = "call" /\ UNCHANGED <<writers, refused>>
        /\ jobs' = [jobs EXCEPT ![Called] = "queued"] /\ i <= Len(dicts)
    BY <1>2 DEF CallPushed, Goto, Inv, TypeInv, AsyncPushed
  <2>2. Called \in Dicts /\ Called \notin Outstanding
    BY <2>1 DEF Inv, TypeInv, TypeOK, ListInv, Called, Outstanding
  <2>3. Outstanding' = Outstanding \cup {Called}
    BY <2>1, <2>2 DEF Outstanding, Inv, TypeInv, TypeOK
  <2>4. Cardinality(Outstanding') = Cardinality(Outstanding) + 1
    BY <2>2, <2>3, OutstandingFinite, FS_AddElement
  <2>5. writers = Cardinality(Outstanding) + refused + 1
    BY <2>1 DEF Inv, WriterInv, WritersExact, Pushing
  <2>6. writers' = Cardinality(Outstanding') + refused' + 0
    BY <2>1, <2>4, <2>5, OutstandingFinite DEF Inv, TypeInv, TypeOK
  <2> QED
    BY <2>1, <2>6 DEF WriterInv, WritersExact, Settled, Pushing, ReadsResult
<1>3. CASE CallRefused
  <2>1. pc = "push" /\ pc' = "call" /\ UNCHANGED <<jobs, writers>> /\ refused' = refused + 1
    BY <1>3 DEF CallRefused, Goto
  <2>2. writers = Cardinality(Outstanding) + refused + 1
    BY <2>1 DEF Inv, WriterInv, WritersExact, Pushing
  <2>3. writers' = Cardinality(Outstanding) + refused' + 0
    BY <2>1, <2>2, OutstandingFinite DEF Inv, TypeInv, TypeOK
  <2> QED
    BY <2>1, <2>3 DEF WriterInv, WritersExact, Settled, Pushing, ReadsResult, Outstanding
<1> QED
  BY <1>1, <1>2, <1>3

LEMMA WriterJob ==
  ASSUME Inv, NEW d \in Dicts, Job(d)
  PROVE  WriterInv'
<1>1. pc' = pc /\ refused' = refused /\ pc # "crashed" /\ d \in Outstanding
  BY DEF Job, JobCheck, JobUnlock, Alive, Outstanding
<1>2. pc \notin ReadsResult \cup {"panicked"}
  BY <1>1 DEF Inv, WriterInv, Settled
<1>3. CASE JobCheck(d)
  <2>1. Outstanding' = Outstanding /\ writers' = writers
    BY <1>3 DEF JobCheck, Outstanding, Inv, TypeInv, TypeOK
  <2> QED
    BY <1>1, <1>2, <2>1 DEF Inv, WriterInv, WritersExact, Settled, Pushing
<1>4. CASE JobUnlock(d)
  <2>1. Outstanding' = Outstanding \ {d}
    BY <1>4 DEF JobUnlock, Outstanding, Inv, TypeInv, TypeOK
  <2>2. Cardinality(Outstanding') = Cardinality(Outstanding) - 1
    BY <1>1, <2>1, OutstandingFinite, FS_RemoveElement
  <2>3. Cardinality(Outstanding) # 0
    BY <1>1, OutstandingFinite, FS_EmptySet
  <2>4. Pushing \in Nat /\ Pushing' = Pushing
    BY <1>1 DEF Pushing
  <2>5. writers = Cardinality(Outstanding) + refused + Pushing
    BY <1>1 DEF Inv, WriterInv, WritersExact
  <2>6. writers > 0
    BY <2>3, <2>4, <2>5, OutstandingFinite DEF Inv, TypeInv, TypeOK
  <2>7. writers' = writers - 1
    BY <1>4, <2>6 DEF JobUnlock
  <2>8. writers' = Cardinality(Outstanding') + refused' + Pushing'
    BY <1>1, <2>2, <2>4, <2>5, <2>7, OutstandingFinite DEF Inv, TypeInv, TypeOK
  <2> QED
    BY <1>1, <1>2, <2>8 DEF WriterInv, WritersExact, Settled
<1> QED
  BY <1>3, <1>4 DEF Job

LEMMA WriterWait ==
  ASSUME Inv, Wait
  PROVE  WriterInv'
<1>1. UNCHANGED <<jobs, writers, refused>> /\ pc = "wait"
  BY DEF Wait, async
<1>2. CASE writers > 0
  BY <1>1, <1>2, WriterFrame DEF Inv, Wait, Goto
<1>3. CASE ~(writers > 0)
  <2>1. pc' = "score"
    BY <1>3 DEF Wait, Goto
  <2>2. Cardinality(Outstanding) + refused + 0 = 0
    BY <1>1, <1>3 DEF Inv, TypeInv, TypeOK, WriterInv, WritersExact, Pushing
  <2>3. Cardinality(Outstanding) = 0 /\ refused = 0
    BY <2>2, OutstandingFinite DEF Inv, TypeInv, TypeOK
  <2>4. Outstanding = {}
    BY <2>3, OutstandingFinite, FS_EmptySet
  <2>5. Outstanding' = Outstanding
    BY <1>1 DEF Outstanding
  <2> QED
    BY <1>1, <2>1, <2>3, <2>4, <2>5 DEF Inv, WriterInv, WritersExact, Settled, Pushing
<1> QED
  BY <1>2, <1>3

LEMMA WriterNext ==
  ASSUME Inv, Next
  PROVE  WriterInv'
<1> USE DEF Unchanged_Collect, Unchanged_Call, Unchanged_Job, async, Goto, ReadsResult, Phases, Inv
<1>1. CASE CallLock \/ CallPushed \/ CallRefused
  BY <1>1, WriterCall
<1>2. CASE \E d \in Dicts : Job(d)
  BY <1>2, WriterJob
<1>3. CASE Wait
  BY <1>3, WriterWait
<1>4. CASE Begin \/ BeginFails \/ BeginCrashes \/ StagePanics \/ CheckPanics \/ BeginStage \/ EndStages
  BY <1>4, WriterFrame DEF Begin, BeginFails, BeginCrashes, StagePanics, CheckPanics, Panic, BeginStage, EndStages
<1>5. CASE CollectCheck \/ EndChecks \/ CollectNext \/ CollectNextCheck \/ EndNext
  BY <1>5, WriterFrame DEF CollectCheck, EndChecks, CollectNext, CollectNextCheck, EndNext, LookingAhead
<1>6. CASE CallSync \/ CallFails \/ EndCalls \/ SpuriousWakeup \/ Signal \/ RunDangling
  BY <1>6, WriterFrame DEF CallSync, CallFails, Calling, EndCalls, SpuriousWakeup, Signal, RunDangling
<1>7. CASE Score \/ EndScores \/ Reply \/ UpdateStats \/ Reset
  BY <1>7, WriterFrame DEF Score, Scoring, EndScores, Reply, UpdateStats, Reset
<1> QED
  BY <1>1, <1>2, <1>3, <1>4, <1>5, <1>6, <1>7 DEF Next, Worker

THEOREM InvInit == Init => Inv
<1> SUFFICES ASSUME Init PROVE Inv
  OBVIOUS
<1>1. \A d \in Dicts : jobs[d] = "none"
  BY DEF Init
<1>2. Outstanding = {}
  BY <1>1 DEF Outstanding
<1>3. Cardinality(Outstanding) = 0
  BY <1>2, FS_EmptySet
<1>4. WriterInv
  BY <1>2, <1>3 DEF Init, WriterInv, WritersExact, Settled, Pushing
<1>5. ListInv
  BY <1>1 DEF Init, ListInv
<1> QED
  BY <1>4, <1>5, TypeInit DEF Inv

THEOREM InvNext == Inv /\ [Next]_vars => Inv'
<1>1. ASSUME Inv, Next PROVE Inv'
  BY <1>1, TypeNext, ListNext, WriterNext DEF Inv
<1>2. ASSUME Inv, UNCHANGED vars PROVE Inv'
  <2>1. TypeInv'
    BY <1>2, TypeNext DEF Inv
  <2>2. UNCHANGED <<dicts, ready, jobs, pc, i, writers, refused>>
    BY <1>2 DEF vars, loop, result, async
  <2>3. ListInv' /\ WriterInv'
    BY <1>2, <2>2, ListFrame, WriterFrame DEF Inv
  <2> QED
    BY <2>1, <2>3 DEF Inv
<1> QED
  BY <1>1, <1>2

THEOREM InvAlways == Spec => []Inv
  BY InvInit, InvNext, PTL DEF Spec

(* Whenever the worker reads or clears the result, every job it gave to an *)
(* asynchronous dict has been through, however many dicts, jobs and        *)
(* refused pushes there were: vt_result_wait returns only when the writers *)
(* that are counted, the jobs and the refused ones, are none.              *)
THEOREM WaitedSafety == Spec => []WaitedMeansDone
<1>1. Inv => WaitedMeansDone
  BY DEF Inv, WriterInv, Settled, WaitedMeansDone
<1> QED
  BY <1>1, InvAlways, PTL

(* The array for the list of dicts is long enough for any configuration:   *)
(* the list holds distinct dicts.                                          *)
THEOREM DictsFitSafety == Spec => []DictsFit
<1>1. ASSUME Inv PROVE DictsFit
  <2>1. dicts \in [1..Len(dicts) -> Dicts] /\ Len(dicts) \in Nat
    BY <1>1 DEF Inv, TypeInv, TypeOK
  <2>2. dicts \in Injection(1..Len(dicts), Dicts)
    BY <1>1, <2>1 DEF Inv, ListInv, Injection, IsInjective
  <2>3. Cardinality(1..Len(dicts)) <= Cardinality(Dicts)
    BY <2>2, EvaluationAssumption, FS_Injection
  <2>4. Cardinality(1..Len(dicts)) = Len(dicts)
    <3>1. 1 \in Int /\ Len(dicts) \in Int
      BY <2>1
    <3>2. Cardinality(1..Len(dicts)) = IF 1 > Len(dicts) THEN 0 ELSE Len(dicts) - 1 + 1
      BY <3>1, FS_Interval
    <3> QED
      BY <2>1, <3>2
  <2> QED
    BY <2>3, <2>4 DEF DictsFit
<1> QED
  BY <1>1, InvAlways, PTL

(* The result is empty when a request begins.                              *)
THEOREM CleanSafety == Spec => []CleanBetween
<1>1. Init => CleanBetween
  BY DEF Init, CleanBetween
<1>2. ASSUME Inv, CleanBetween, [Next]_vars PROVE CleanBetween'
  <2>1. CASE UNCHANGED result /\ (pc' = "idle" => pc = "idle")
    BY <1>2, <2>1 DEF CleanBetween, result
  <2>2. CASE pc' # "idle"
    BY <2>2 DEF CleanBetween
  <2>3. CASE Reset
    BY <2>3 DEF Reset, CleanBetween
  <2>4. ASSUME NEW d \in Dicts, Job(d) PROVE pc # "idle" /\ pc' = pc
    BY <1>2, <2>4 DEF Job, JobCheck, JobUnlock, Inv, WriterInv, Settled, Outstanding, ReadsResult
  <2>5. CASE Worker /\ ~Reset
    BY <2>2, <2>5 DEF Worker, BeginStage, StagePanics, EndStages, CollectCheck, CheckPanics, Panic,
       EndChecks, CollectNext, CollectNextCheck, LookingAhead, EndNext, CallSync, CallFails,
       CallLock, Calling, CallPushed, CallRefused, EndCalls, Wait, Score, Scoring, EndScores,
       Reply, UpdateStats, Goto
  <2>6. CASE Begin \/ BeginFails \/ BeginCrashes \/ SpuriousWakeup \/ Signal \/ RunDangling \/ UNCHANGED vars
    BY <2>1, <2>2, <2>6 DEF Begin, BeginFails, BeginCrashes, SpuriousWakeup, Signal, RunDangling, vars, Goto
  <2> QED
    BY <1>2, <2>2, <2>3, <2>4, <2>5, <2>6 DEF Next
<1> QED
  BY <1>1, <1>2, InvAlways, PTL DEF Spec

(* An answer is not changed before the result is reset.                    *)
Stands == \A d \in Dicts : ready[d] => ready'[d] /\ points'[d] = points[d]

LEMMA AnswersStep ==
  ASSUME Inv, [Next]_vars
  PROVE  Stands \/ pc = "reset"
<1>1. CASE UNCHANGED result
  BY <1>1 DEF Stands, result
<1>2. ASSUME NEW e \in Dicts, Answer(e), ~ready[e] PROVE Stands
  <2>1. ready \in [Dicts -> BOOLEAN] /\ points \in [Dicts -> Points \cup {0}]
    BY DEF Inv, TypeInv, TypeOK
  <2> QED
    BY <1>2, <2>1, Zenon DEF Stands, Answer, result
<1>3. CASE CallSync
  <2>1. Called \in Dicts /\ ~ready[Called]
    BY <1>3 DEF CallSync, Calling, Called, Inv, TypeInv, TypeOK, ListInv
  <2> QED
    BY <1>2, <1>3, <2>1 DEF CallSync
<1>4. ASSUME NEW e \in Dicts, JobCheck(e) PROVE Stands
  BY <1>2, <1>4 DEF JobCheck, Inv, ListInv
<1>5. CASE Reset
  BY <1>5 DEF Reset
<1>6. CASE Worker /\ ~CallSync /\ ~Reset
  BY <1>1, <1>6 DEF Worker, BeginStage, StagePanics, EndStages, CollectCheck, CheckPanics, Panic,
     EndChecks, CollectNext, CollectNextCheck, EndNext, CallFails, CallLock, CallPushed,
     CallRefused, EndCalls, Wait, Score, EndScores, Reply, UpdateStats, Unchanged_Collect
<1>7. CASE Begin \/ BeginFails \/ BeginCrashes \/ SpuriousWakeup \/ Signal \/ RunDangling \/ UNCHANGED vars
           \/ \E e \in Dicts : JobUnlock(e)
  BY <1>1, <1>7 DEF Begin, BeginFails, BeginCrashes, SpuriousWakeup, Signal, RunDangling, JobUnlock, vars
<1> QED
  BY <1>3, <1>4, <1>5, <1>6, <1>7 DEF Next, Job

(* No dict is asked again once it has answered, and no late job replaces   *)
(* its answer, until the result is reset.                                  *)
THEOREM AnswersSafety == Spec => AnswersStand
<1>1. ASSUME Inv, [Next]_vars
      PROVE  [\A d \in Dicts : ready[d] => \/ ready'[d] /\ points'[d] = points[d]
                                          \/ pc = "reset"]_vars
  BY <1>1, AnswersStep DEF Stands
<1> QED
  BY <1>1, InvAlways, PTL DEF Spec, AnswersStand

-----------------------------------------------------------------------------
(* What looking ahead has come to: a dict that a check of the next stage   *)
(* depends on has answered, or is on the list, or has a job, until it has  *)
(* answered or was asked in vain; for a stage that is evaluated this is    *)
(* over.  A job that was checked leaves nothing to wait for.               *)
Answered(d) == ready[d] \/ d \in unanswered
Depends(s) == UNION {Elements(Checks(s)[c].depends) : c \in 1..Len(Checks(s))}
ToCall == {dicts[k] : k \in i..Len(dicts)}
Listed(d) == ready[d] \/ d \in Elements(dicts)

JobsAnswer == \A d \in Dicts : jobs[d] = "checked" => Answered(d)
AheadDone == pc \in {"stage", "checks"} /\ stage \in 1..nstages => \A d \in Depends(stage) : Answered(d)
AheadListed ==
  pc = "next" /\ stage < nstages =>
    \A c \in 1..Len(Checks(stage + 1)) : \A k \in 1..Len(Checks(stage + 1)[c].depends) :
      c < i \/ (c = i /\ k < j) => Listed(Checks(stage + 1)[c].depends[k])
AheadCalled ==
  pc \in {"call", "push", "wait", "blocked", "score"} /\ stage < nstages =>
    \A d \in Depends(stage + 1) : \/ Answered(d) \/ jobs[d] = "queued"
                                  \/ pc \in {"call", "push"} /\ d \in ToCall
PanicEnds == missing # {} => pc = "panicked"
LookInv == JobsAnswer /\ AheadDone /\ AheadListed /\ AheadCalled /\ PanicEnds /\ PanicOnlyUnanswered

LEMMA DependsType ==
  ASSUME TypeInv, NEW s \in 1..nstages
  PROVE  /\ Depends(s) \subseteq Dicts
         /\ \A d \in Depends(s) : \E c \in 1..Len(Checks(s)) : \E k \in 1..Len(Checks(s)[c].depends) :
              d = Checks(s)[c].depends[k]
         /\ \A c \in 1..Len(Checks(s)) : \A k \in 1..Len(Checks(s)[c].depends) :
              Checks(s)[c].depends[k] \in Depends(s)
<1>1. ctx \in Contexts
  BY DEF TypeInv, TypeOK
<1>2. \A c \in 1..Len(Checks(s)) : Checks(s)[c].depends \in Seq(Dicts)
  BY <1>1, ContextFacts
<1>3. \A c \in 1..Len(Checks(s)) : \A k \in 1..Len(Checks(s)[c].depends) :
        Checks(s)[c].depends[k] \in Dicts
  BY <1>2
<1> QED
  BY <1>3 DEF Depends, Elements

(* Nothing that has answered, or was asked in vain, is forgotten before    *)
(* the next request.                                                       *)
LEMMA AnsweredStays ==
  ASSUME TypeInv, Next, ~Reset, ~Begin
  PROVE  \A d \in Dicts : (Answered(d) => Answered(d)') /\ (ready[d] => ready'[d])
<1> USE DEF Unchanged_Collect, Unchanged_Call, Unchanged_Job, result, async, loop, Answered
<1>1. ready \in [Dicts -> BOOLEAN]
  BY DEF TypeInv, TypeOK
<1>2. ASSUME NEW e \in Dicts, Answer(e) PROVE \A d \in Dicts : (Answered(d) => Answered(d)') /\ (ready[d] => ready'[d])
  BY <1>1, <1>2, Zenon DEF Answer
<1>3. CASE CallSync
  BY <1>2, <1>3 DEF CallSync, Calling, Called, TypeInv, TypeOK
<1>4. ASSUME NEW e \in Dicts, Job(e) PROVE \A d \in Dicts : (Answered(d) => Answered(d)') /\ (ready[d] => ready'[d])
  BY <1>2, <1>4 DEF Job, JobCheck, JobUnlock
<1>5. CASE CallFails \/ CallLock \/ CallPushed \/ CallRefused \/ EndCalls \/ Wait
  BY <1>5 DEF CallFails, CallLock, CallPushed, CallRefused, EndCalls, Wait
<1>6. CASE BeginFails \/ BeginCrashes \/ BeginStage \/ EndStages \/ StagePanics \/ CheckPanics
  BY <1>6 DEF BeginFails, BeginCrashes, BeginStage, EndStages, StagePanics, CheckPanics, Panic
<1>7. CASE CollectCheck \/ EndChecks \/ CollectNext \/ CollectNextCheck \/ EndNext
  BY <1>7 DEF CollectCheck, EndChecks, CollectNext, CollectNextCheck, EndNext
<1>8. CASE SpuriousWakeup \/ Signal \/ RunDangling \/ Score \/ EndScores \/ Reply \/ UpdateStats
  BY <1>8 DEF SpuriousWakeup, Signal, RunDangling, Score, EndScores, Reply, UpdateStats
<1> QED
  BY <1>3, <1>4, <1>5, <1>6, <1>7, <1>8 DEF Next, Worker

LEMMA NothingAfterPanic ==
  ASSUME pc = "panicked"
  PROVE  ~Next
<1> USE DEF Job, JobCheck, JobUnlock, Alive
<1>1. ~Worker
  BY DEF Worker, BeginStage, StagePanics, EndStages, CollectCheck, CheckPanics, EndChecks,
     CollectNext, CollectNextCheck, LookingAhead, EndNext, CallSync, CallFails, CallLock, Calling,
     CallPushed, CallRefused, EndCalls, Wait, Score, EndScores, Scoring, Reply, UpdateStats, Reset
<1> QED
  BY <1>1 DEF Next, Begin, BeginFails, BeginCrashes, SpuriousWakeup, Signal, RunDangling

LEMMA LookPanic ==
  ASSUME Inv, LookInv, StagePanics \/ CheckPanics
  PROVE  LookInv'
<1>1. PICK d \in Dicts : Panic(d) /\ (d \in unanswered \/ d \in Elements(ctx.stages[stage].depends))
  <2>1. CASE StagePanics
    <3>1. ctx.stages[stage].depends \in Seq(Dicts)
      BY <2>1, ContextFacts DEF StagePanics, Inv, TypeInv, TypeOK
    <3> QED
      BY <2>1, <3>1 DEF StagePanics, Elements
  <2>2. CASE CheckPanics
    <3>1. stage \in 1..nstages /\ i \in 1..Len(Checks(stage)) /\ pc = "checks"
      BY <2>2, ContextFacts DEF CheckPanics, Inv, TypeInv, TypeOK, InLoop
    <3>2. PICK k \in 1..Len(Checks(stage)[i].depends) :
            ~ready[Checks(stage)[i].depends[k]] /\ Panic(Checks(stage)[i].depends[k])
      BY <2>2 DEF CheckPanics
    <3>3. Checks(stage)[i].depends[k] \in Depends(stage) /\ Checks(stage)[i].depends[k] \in Dicts
      BY <3>1, DependsType DEF Inv
    <3>4. Checks(stage)[i].depends[k] \in unanswered
      BY <3>1, <3>2, <3>3 DEF LookInv, AheadDone, Answered
    <3> QED
      BY <3>2, <3>3, <3>4
  <2> QED
    BY <2>1, <2>2
<1>2. /\ pc' = "panicked" /\ missing' = {d}
      /\ UNCHANGED <<ctx, stage, ready, unanswered, jobs>>
  BY <1>1 DEF Panic, Goto, loop, result, async
<1> QED
  BY <1>1, <1>2 DEF LookInv, JobsAnswer, AheadDone, AheadListed, AheadCalled, PanicEnds,
     PanicOnlyUnanswered, Answered

(* Part by part: a job that was checked leaves nothing to wait for.        *)
LEMMA JobsAnswerNext ==
  ASSUME Inv, LookInv, Next
  PROVE  JobsAnswer'
<1> USE DEF Unchanged_Collect, Unchanged_Call, Unchanged_Job, async
<1>1. CASE Reset \/ Begin
  <2>1. jobs' = jobs /\ \A d \in Dicts : jobs[d] = "none"
    BY <1>1 DEF Reset, Begin, Inv, WriterInv, Settled, Outstanding, ReadsResult
  <2> QED
    BY <2>1 DEF JobsAnswer
<1>2. ASSUME ~Reset, ~Begin PROVE \A d \in Dicts : Answered(d) => Answered(d)'
  BY <1>2, AnsweredStays DEF Inv
<1>3. ASSUME NEW d \in Dicts, Job(d) PROVE JobsAnswer'
  <2>1. \A e \in Dicts \ {d} : jobs'[e] = jobs[e]
    BY <1>3 DEF Job, JobCheck, JobUnlock, Inv, TypeInv, TypeOK
  <2>2. pc \notin {"reset", "idle"}
    BY <1>3 DEF Job, JobCheck, JobUnlock, Inv, WriterInv, Settled, Outstanding, ReadsResult
  <2>3. \A e \in Dicts : Answered(e) => Answered(e)'
    BY <1>2, <2>2 DEF Reset, Begin
  <2>4. jobs'[d] = "checked" => Answered(d)'
    BY <1>3 DEF Job, JobCheck, JobUnlock, Answer, Answered, Inv, TypeInv, TypeOK
  <2> QED
    BY <2>1, <2>3, <2>4 DEF LookInv, JobsAnswer
<1>4. CASE CallPushed
  <2>1. \A d \in Dicts : jobs'[d] = jobs[d] \/ jobs'[d] = "queued"
    BY <1>4 DEF CallPushed, Inv, TypeInv, TypeOK
  <2>2. ~Reset /\ ~Begin
    BY <1>4 DEF CallPushed, Reset, Begin
  <2> QED
    BY <1>2, <2>1, <2>2 DEF LookInv, JobsAnswer
<1>5. CASE UNCHANGED jobs
  BY <1>1, <1>2, <1>5 DEF LookInv, JobsAnswer
<1>6. CASE Worker /\ ~CallPushed
  BY <1>5, <1>6 DEF Worker, BeginStage, StagePanics, EndStages, CollectCheck, CheckPanics, Panic,
     EndChecks, CollectNext, CollectNextCheck, EndNext, CallSync, CallFails, CallLock, CallRefused,
     EndCalls, Wait, Score, EndScores, Reply, UpdateStats, Reset
<1>7. CASE Begin \/ BeginFails \/ BeginCrashes \/ SpuriousWakeup \/ Signal \/ RunDangling
  BY <1>5, <1>7 DEF Begin, BeginFails, BeginCrashes, SpuriousWakeup, Signal, RunDangling
<1> QED
  BY <1>3, <1>4, <1>6, <1>7 DEF Next

(* The list is called from its first dict to its last.                     *)
LEMMA AheadCall ==
  ASSUME Inv, LookInv, CallSync \/ CallFails \/ CallPushed \/ CallRefused
  PROVE  AheadCalled'
<1>1. /\ pc \in {"call", "push"} /\ pc' = "call" /\ i' = i + 1
      /\ i \in 1..Len(dicts) /\ UNCHANGED <<dicts, ctx, stage>> /\ Called \in Dicts
  BY DEF Inv, TypeInv, TypeOK, AsyncPushed, CallSync, CallFails, CallPushed, CallRefused,
         Calling, Called, Goto, Unchanged_Call
<1>. PICK e \in Dicts : e = Called
  BY <1>1
<1>2. Answered(e)' \/ jobs'[e] = "queued"
  BY <1>1 DEF CallSync, CallFails, CallPushed, CallRefused, Answer, Answered, Inv, TypeInv, TypeOK
<1>3. \A d \in Dicts : (Answered(d) => Answered(d)') /\ (jobs[d] = "queued" => jobs'[d] = "queued")
  <2>1. Next /\ ~Reset /\ ~Begin
    BY <1>1 DEF Next, Worker, Reset, Begin
  <2>2. \A d \in Dicts : jobs[d] = "queued" => jobs'[d] = "queued"
    BY DEF CallSync, CallFails, CallPushed, CallRefused, async, Inv, TypeInv, TypeOK
  <2> QED
    BY <2>1, <2>2, AnsweredStays DEF Inv
<1>4. \A d \in ToCall : d = e \/ d \in ToCall'
  <2>1. \A k \in i..Len(dicts) : k = i \/ k \in (i + 1)..Len(dicts)
    BY <1>1
  <2> QED
    BY <1>1, <2>1 DEF ToCall, Called
<1>5. ASSUME stage < nstages, NEW d \in Depends(stage + 1)
      PROVE  Answered(d)' \/ jobs'[d] = "queued" \/ d \in ToCall'
  <2>1. d \in Dicts
    <3>1. stage \in Nat /\ nstages \in Nat
      BY ContextFacts DEF Inv, TypeInv, TypeOK
    <3>2. stage + 1 \in 1..nstages
      BY <1>5, <3>1
    <3> QED
      BY <3>2, DependsType DEF Inv
  <2>2. Answered(d) \/ jobs[d] = "queued" \/ d \in ToCall
    BY <1>1, <1>5 DEF LookInv, AheadCalled
  <2> QED
    BY <1>2, <1>3, <1>4, <2>1, <2>2
<1>6. UNCHANGED <<nstages, Depends(stage + 1)>>
  BY <1>1 DEF nstages, Depends, Checks
<1> QED
  BY <1>1, <1>5, <1>6 DEF AheadCalled

LEMMA NextStageType ==
  ASSUME TypeInv, stage < nstages
  PROVE  stage + 1 \in 1..nstages
<1>1. stage \in Nat /\ nstages \in Nat
  BY ContextFacts DEF TypeInv, TypeOK
<1> QED
  BY <1>1

(* While the worker stays in a phase, or goes on to one of which no more   *)
(* is known, what it knew remains.                                         *)
LEMMA LookFrame ==
  ASSUME Inv, LookInv, JobsAnswer', UNCHANGED <<ctx, stage, missing>>,
         \A d \in Dicts : (Answered(d) => Answered(d)') /\ (ready[d] => ready'[d]),
         \A d \in Dicts : jobs[d] = "queued" => Answered(d)' \/ jobs'[d] = "queued",
         UNCHANGED dicts \/ pc \notin {"next", "call", "push"},
         \/ pc' = pc /\ i' = i /\ j' = j
         \/ pc' = pc /\ pc \notin {"next", "call", "push"}
         \/ pc = "stage" /\ pc' = "checks"
         \/ pc = "call" /\ pc' = "push" /\ i' = i
         \/ pc = "call" /\ pc' = "wait" /\ ToCall = {}
         \/ pc \in {"wait", "blocked", "score"} /\ pc' \in {"wait", "blocked", "score"}
         \/ pc' \in {"idle", "reply", "stats", "reset", "crashed"},
         pc # "panicked"
  PROVE  LookInv'
<1>1. /\ nstages' = nstages /\ \A s \in 1..nstages : Depends(s)' = Depends(s)
      /\ \A s \in 1..nstages : Checks(s)' = Checks(s)
  BY DEF nstages, Depends, Checks
<1>2. stage < nstages => stage + 1 \in 1..nstages
  BY NextStageType DEF Inv
<1>3. \A s \in 1..nstages : Depends(s) \subseteq Dicts
  BY DependsType DEF Inv
<1>4. AheadDone'
  BY <1>1, <1>3 DEF LookInv, AheadDone
<1>5. AheadListed'
  <2>1. ASSUME pc' = "next", stage < nstages PROVE pc = "next" /\ i' = i /\ j' = j /\ dicts' = dicts
    BY <2>1
  <2> SUFFICES ASSUME pc' = "next", stage < nstages,
                      NEW c \in 1..Len(Checks(stage + 1)), NEW k \in 1..Len(Checks(stage + 1)[c].depends),
                      c < i \/ (c = i /\ k < j)
               PROVE  Listed(Checks(stage + 1)[c].depends[k])'
    BY <1>1, <1>2, <2>1 DEF AheadListed
  <2>2. Checks(stage + 1)[c].depends[k] \in Dicts
    BY <1>2, DependsType DEF Inv
  <2>3. Listed(Checks(stage + 1)[c].depends[k])
    BY <2>1 DEF LookInv, AheadListed
  <2> QED
    BY <1>1, <1>2, <2>1, <2>2, <2>3 DEF Listed, Elements
<1>6. AheadCalled'
  <2> SUFFICES ASSUME pc' \in {"call", "push", "wait", "blocked", "score"}, stage < nstages,
                      NEW d \in Depends(stage + 1)
               PROVE  \/ Answered(d)' \/ jobs'[d] = "queued"
                      \/ pc' \in {"call", "push"} /\ d \in ToCall'
    BY <1>1, <1>2 DEF AheadCalled
  <2>1. d \in Dicts
    BY <1>2, <1>3
  <2>2. \/ Answered(d) \/ jobs[d] = "queued"
        \/ pc \in {"call", "push"} /\ d \in ToCall
    BY DEF LookInv, AheadCalled
  <2>3. pc \in {"call", "push"} /\ pc' \in {"call", "push"} => ToCall' = ToCall
    BY DEF ToCall
  <2> QED
    BY <2>1, <2>2, <2>3
<1>7. missing' = {}
  BY DEF LookInv, PanicEnds
<1> QED
  BY <1>4, <1>5, <1>6, <1>7 DEF LookInv, PanicEnds, PanicOnlyUnanswered

(* At the start of the loop over the next stage nothing is listed yet.     *)
LEMMA LookStarts ==
  ASSUME Inv, LookInv, BeginStage \/ EndChecks, pc' = "next"
  PROVE  LookInv'
<1>1. /\ i' = 1 /\ j' = 1 /\ UNCHANGED <<ctx, stage, missing, ready, unanswered, jobs>>
      /\ pc \in {"stage", "checks"}
  BY DEF BeginStage, EndChecks, Unchanged_Collect, result, async
<1>2. AheadListed'
  <2>1. \A c \in Nat \ {0} : \A k \in Nat \ {0} : ~(c < i' \/ (c = i' /\ k < j'))
    BY <1>1
  <2>2. \A s \in 1..nstages : Len(Checks(s)) \in Nat
    BY ContextFacts DEF Inv, TypeInv, TypeOK
  <2>3. \A s \in 1..nstages : \A c \in 1..Len(Checks(s)) : Len(Checks(s)[c].depends) \in Nat
    <3>1. \A s \in 1..nstages : \A c \in 1..Len(Checks(s)) : Checks(s)[c].depends \in Seq(Dicts)
      BY ContextFacts DEF Inv, TypeInv, TypeOK
    <3> QED
      BY <3>1
  <2>4. UNCHANGED nstages /\ \A s \in 1..nstages : UNCHANGED Checks(s)
    BY <1>1 DEF nstages, Checks
  <2>5. stage < nstages => stage + 1 \in 1..nstages
    BY NextStageType DEF Inv
  <2> QED
    BY <1>1, <2>1, <2>2, <2>3, <2>4, <2>5 DEF AheadListed
<1>3. missing' = {}
  BY <1>1 DEF LookInv, PanicEnds
<1> QED
  BY <1>1, <1>2, <1>3 DEF LookInv, JobsAnswer, AheadDone, AheadCalled, PanicEnds,
     PanicOnlyUnanswered, Answered

(* A dict of the next stage that is looked at is listed, or has answered.  *)
LEMMA LookLists ==
  ASSUME Inv, LookInv, CollectNext \/ CollectNextCheck
  PROVE  LookInv'
<1>1. /\ LookingAhead /\ pc = "next" /\ pc' = "next" /\ stage + 1 \in 1..nstages
      /\ UNCHANGED <<ctx, stage, missing, ready, unanswered, jobs>>
  <2>1. LookingAhead
    BY DEF CollectNext, CollectNextCheck
  <2> QED
    BY <2>1, NextStageType DEF Inv, CollectNext, CollectNextCheck, LookingAhead, Unchanged_Collect, result, async
<1>2. UNCHANGED nstages /\ UNCHANGED Checks(stage + 1) /\ i \in Nat /\ j \in Nat \ {0}
  BY <1>1 DEF nstages, Checks, Inv, TypeInv, TypeOK
<1> DEFINE checks == Checks(stage + 1)
<1>3. /\ i \in 1..Len(checks) /\ Len(checks[i].depends) \in Nat
      /\ \A c \in 1..Len(checks) : \A k \in 1..Len(checks[c].depends) :
           c \in Nat /\ k \in Nat /\ checks[c].depends[k] \in Dicts
  <2>1. Len(checks) \in Nat /\ i \in 1..Len(checks)
    BY <1>1, <1>2, ContextFacts DEF LookingAhead, Inv, TypeInv, TypeOK
  <2>2. \A c \in 1..Len(checks) : checks[c].depends \in Seq(Dicts)
    BY <1>1, ContextFacts DEF Inv, TypeInv, TypeOK
  <2>3. \A c \in 1..Len(checks) : \A k \in 1..Len(checks[c].depends) : checks[c].depends[k] \in Dicts
    BY <2>2
  <2> QED
    BY <2>1, <2>2, <2>3
<1>4. \A c \in 1..Len(checks) : \A k \in 1..Len(checks[c].depends) :
        c < i \/ (c = i /\ k < j) =>
          \A d \in Dicts : d = checks[c].depends[k] => Listed(d)
  BY <1>1 DEF LookInv, AheadListed, LookingAhead
<1>5. \A c \in 1..Len(checks) : \A k \in 1..Len(checks[c].depends) :
        c < i' \/ (c = i' /\ k < j') =>
          \A d \in Dicts : d = checks[c].depends[k] => Listed(d)'
  <2>1. CASE CollectNext
    <3>1. i' = i /\ j' = j + 1 /\ j \in 1..Len(checks[i].depends)
      BY <1>2, <1>3, <2>1 DEF CollectNext
    <3>2. PICK d \in Dicts : d = checks[i].depends[j]
      BY <1>3, <3>1
    <3>3. dicts' = IF Wanted(d) THEN Append(dicts, d) ELSE dicts
      BY <2>1, <3>2 DEF CollectNext
    <3>4. \A e \in Dicts : Listed(e) => Listed(e)'
      <4>1. dicts \in Seq(Dicts)
        BY DEF Inv, TypeInv, TypeOK
      <4>2. \A k \in 1..Len(dicts) : k \in 1..Len(dicts') /\ dicts'[k] = dicts[k]
        BY <3>3, <4>1
      <4> QED
        BY <1>1, <4>2 DEF Listed, Elements
    <3>5. Listed(d)'
      <4>1. CASE Wanted(d)
        <5>1. dicts' = Append(dicts, d) /\ dicts \in Seq(Dicts)
          BY <3>3, <4>1 DEF Inv, TypeInv, TypeOK
        <5>2. Len(dicts') \in 1..Len(dicts') /\ dicts'[Len(dicts')] = d
          BY <5>1
        <5> QED
          BY <5>2 DEF Listed, Elements
      <4>2. CASE ~Wanted(d)
        BY <3>4, <4>2 DEF Wanted, Listed
      <4> QED
        BY <4>1, <4>2
    <3>6. \A c \in 1..Len(checks) : \A k \in 1..Len(checks[c].depends) :
            c < i' \/ (c = i' /\ k < j') => c < i \/ (c = i /\ k < j) \/ (c = i /\ k = j)
      BY <1>2, <1>3, <3>1
    <3> HIDE DEF checks
    <3> QED
      BY <1>3, <1>4, <3>2, <3>4, <3>5, <3>6
  <2>2. CASE CollectNextCheck
    <3>1. i' = i + 1 /\ j' = 1 /\ j > Len(checks[i].depends) /\ dicts' = dicts
      BY <2>2 DEF CollectNextCheck
    <3>2. \A c \in 1..Len(checks) : \A k \in 1..Len(checks[c].depends) :
            c < i' \/ (c = i' /\ k < j') => c < i \/ (c = i /\ k < j)
      BY <1>2, <1>3, <3>1
    <3>3. \A e \in Dicts : Listed(e) => Listed(e)'
      BY <1>1, <3>1 DEF Listed, Elements
    <3> HIDE DEF checks
    <3> QED
      BY <1>3, <1>4, <3>2, <3>3
  <2> QED
    BY <2>1, <2>2
<1>6. AheadListed'
  BY <1>1, <1>2, <1>3, <1>5 DEF AheadListed, Listed, Elements
<1>7. missing' = {}
  BY <1>1 DEF LookInv, PanicEnds
<1> QED
  BY <1>1, <1>6, <1>7 DEF LookInv, JobsAnswer, AheadDone, AheadCalled, PanicEnds,
     PanicOnlyUnanswered, Answered

LEMMA LookEnds ==
  ASSUME Inv, LookInv, EndNext
  PROVE  LookInv'
<1>1. /\ pc = "next" /\ pc' = "call" /\ i' = 1 /\ ~LookingAhead
      /\ UNCHANGED <<ctx, stage, missing, ready, unanswered, jobs, dicts>>
  BY DEF EndNext, Unchanged_Collect, result, async, Goto
<1>2. AheadCalled'
  <2> SUFFICES ASSUME stage < nstages, NEW d \in Depends(stage + 1)
               PROVE  Answered(d)' \/ d \in ToCall'
    <3>1. UNCHANGED <<nstages, Depends(stage + 1)>>
      BY <1>1 DEF nstages, Depends, Checks
    <3> QED
      BY <1>1, <3>1 DEF AheadCalled
  <2>1. stage + 1 \in 1..nstages
    BY NextStageType DEF Inv
  <2>2. PICK c \in 1..Len(Checks(stage + 1)) : \E k \in 1..Len(Checks(stage + 1)[c].depends) :
          d = Checks(stage + 1)[c].depends[k]
    BY <2>1, DependsType DEF Inv
  <2>3. c < i
    <3>1. Len(Checks(stage + 1)) \in Nat /\ i \in Nat
      BY <2>1, ContextFacts DEF Inv, TypeInv, TypeOK
    <3> QED
      BY <1>1, <3>1 DEF LookingAhead
  <2>4. Listed(d)
    BY <1>1, <2>2, <2>3 DEF LookInv, AheadListed
  <2> QED
    BY <1>1, <2>4 DEF Listed, Elements, ToCall, Answered
<1>3. missing' = {}
  BY <1>1 DEF LookInv, PanicEnds
<1> QED
  BY <1>1, <1>2, <1>3 DEF LookInv, JobsAnswer, AheadDone, AheadListed, PanicEnds,
     PanicOnlyUnanswered, Answered

(* When the jobs are waited for, no more than answers are left of them.    *)
LEMMA LookGoesOn ==
  ASSUME Inv, LookInv, EndScores
  PROVE  LookInv'
<1>1. /\ pc = "score" /\ pc' = "stage" /\ stage' = stage + 1
      /\ UNCHANGED <<ctx, missing, ready, unanswered, jobs>>
  BY DEF EndScores, Unchanged_Collect, result, async, Goto
<1>2. UNCHANGED nstages /\ Depends(stage)' = Depends(stage + 1)
  BY <1>1 DEF nstages, Depends, Checks
<1>3. \A d \in Dicts : jobs[d] = "none"
  BY <1>1 DEF Inv, WriterInv, Settled, Outstanding, ReadsResult
<1>4. AheadDone'
  <2> SUFFICES ASSUME stage + 1 \in 1..nstages, NEW d \in Depends(stage + 1)
               PROVE  Answered(d)'
    BY <1>1, <1>2 DEF AheadDone
  <2>1. stage < nstages
    BY ContextFacts DEF Inv, TypeInv, TypeOK
  <2>2. d \in Dicts
    BY DependsType DEF Inv
  <2> QED
    BY <1>1, <1>3, <2>1, <2>2 DEF LookInv, AheadCalled, Answered
<1>5. missing' = {}
  BY <1>1 DEF LookInv, PanicEnds
<1> QED
  BY <1>1, <1>4, <1>5 DEF LookInv, JobsAnswer, AheadListed, AheadCalled, PanicEnds,
     PanicOnlyUnanswered, Answered

LEMMA LookNext ==
  ASSUME Inv, LookInv, Next
  PROVE  LookInv'
<1> USE DEF Unchanged_Collect, Unchanged_Call, Unchanged_Job, result, async, loop, Goto
<1>1. pc # "panicked" /\ JobsAnswer'
  BY NothingAfterPanic, JobsAnswerNext
<1>2. ASSUME ~Reset, ~Begin
      PROVE  \A d \in Dicts : (Answered(d) => Answered(d)') /\ (ready[d] => ready'[d])
  BY <1>2, AnsweredStays DEF Inv
<1>3. CASE StagePanics \/ CheckPanics
  BY <1>3, LookPanic
<1>4. CASE CollectNext \/ CollectNextCheck \/ EndNext \/ EndScores
  BY <1>4, LookLists, LookEnds, LookGoesOn
<1>5. CASE Begin \/ Reset
  <2>1. missing = {}
    BY <1>1 DEF LookInv, PanicEnds
  <2> QED
    BY <1>1, <1>5, <2>1 DEF Begin, Reset, LookInv, AheadDone, AheadListed, AheadCalled, PanicEnds,
       PanicOnlyUnanswered
<1>6. CASE CallSync \/ CallFails \/ CallPushed \/ CallRefused
  <2>1. pc' = "call" /\ missing' = {}
    BY <1>1, <1>6 DEF CallSync, CallFails, CallPushed, CallRefused, Calling, LookInv, PanicEnds
  <2> QED
    BY <1>1, <1>6, <2>1, AheadCall DEF LookInv, AheadDone, AheadListed, PanicEnds, PanicOnlyUnanswered
<1>7. CASE BeginStage \/ EndChecks
  <2>1. CASE pc' = "next"
    BY <1>7, <2>1, LookStarts
  <2>2. CASE pc' # "next"
    <3>1. ~Reset /\ ~Begin /\ pc = "stage" /\ pc' = "checks" /\ UNCHANGED <<ctx, stage, missing, jobs>>
      BY <1>7, <2>2 DEF BeginStage, EndChecks, Reset, Begin
    <3> QED
      BY <1>1, <1>2, <3>1, LookFrame
  <2> QED
    BY <2>1, <2>2
<1>8. CASE CallLock \/ EndCalls \/ Wait \/ SpuriousWakeup
  <2>1. ~Reset /\ ~Begin /\ UNCHANGED <<ctx, stage, missing, jobs, dicts>>
    BY <1>8 DEF CallLock, Calling, EndCalls, Wait, SpuriousWakeup, Reset, Begin
  <2>2. \/ pc = "call" /\ pc' = "push" /\ i' = i
        \/ pc = "call" /\ pc' = "wait" /\ i > Len(dicts)
        \/ pc \in {"wait", "blocked"} /\ pc' \in {"wait", "blocked", "score"}
    BY <1>8 DEF CallLock, Calling, EndCalls, Wait, SpuriousWakeup
  <2>3. i > Len(dicts) => ToCall = {}
    BY DEF ToCall, Inv, TypeInv, TypeOK
  <2> QED
    BY <1>1, <1>2, <2>1, <2>2, <2>3, LookFrame
<1>9. ASSUME NEW d \in Dicts, Job(d) PROVE LookInv'
  <2>1. ~Reset /\ ~Begin
    BY <1>9 DEF Job, JobCheck, JobUnlock, Reset, Begin, Inv, WriterInv, Settled, Outstanding, ReadsResult
  <2>2. \A e \in Dicts : jobs[e] = "queued" => Answered(e)' \/ jobs'[e] = "queued"
    <3>1. \A e \in Dicts \ {d} : jobs'[e] = jobs[e]
      BY <1>9 DEF Job, JobCheck, JobUnlock, Inv, TypeInv, TypeOK
    <3>2. jobs[d] = "queued" => Answered(d)'
      BY <1>9 DEF Job, JobCheck, JobUnlock, Answer, Answered, Inv, TypeInv, TypeOK
    <3> QED
      BY <3>1, <3>2
  <2>3. pc' = pc /\ i' = i /\ j' = j /\ UNCHANGED <<ctx, stage, missing, dicts>>
    BY <1>9 DEF Job, JobCheck, JobUnlock
  <2> QED
    BY <1>1, <1>2, <2>1, <2>2, <2>3, LookFrame
<1>10. CASE BeginFails \/ BeginCrashes \/ Signal \/ RunDangling
  <2>1. /\ ~Reset /\ ~Begin /\ UNCHANGED <<ctx, stage, missing, jobs, dicts, i, j>>
        /\ pc' = pc \/ pc' = "crashed" \/ (pc = "blocked" /\ pc' = "wait")
    BY <1>10 DEF BeginFails, BeginCrashes, Signal, RunDangling, Reset, Begin
  <2> QED
    BY <1>1, <1>2, <2>1, LookFrame
<1>11. CASE CollectCheck \/ EndStages \/ Score \/ Reply \/ UpdateStats
  <2>1. /\ ~Reset /\ ~Begin /\ UNCHANGED <<ctx, stage, missing, jobs>>
        /\ pc \notin {"next", "call", "push"}
        /\ pc' = pc \/ pc' \in {"reply", "stats", "reset"}
    BY <1>11 DEF CollectCheck, EndStages, Score, Scoring, Reply, UpdateStats, Reset, Begin
  <2> QED
    BY <1>1, <1>2, <2>1, LookFrame
<1> QED
  BY <1>3, <1>4, <1>5, <1>6, <1>7, <1>8, <1>9, <1>10, <1>11 DEF Next, Worker

(* The worker never panics for a dict that a check depends on and that     *)
(* was not asked: whatever the stages, the dicts that answer ahead of      *)
(* them, the pushes that are refused and the order of the jobs, looking    *)
(* ahead has asked it.  What is left are the dicts asked in vain and       *)
(* those a whole stage depends on.                                         *)
THEOREM PanicSafety == Spec => []PanicOnlyUnanswered
<1>1. Init => LookInv
  BY DEF Init, LookInv, JobsAnswer, AheadDone, AheadListed, AheadCalled, PanicEnds, PanicOnlyUnanswered
<1>2. ASSUME Inv, LookInv, [Next]_vars PROVE LookInv'
  <2>1. CASE Next
    BY <1>2, <2>1, LookNext
  <2>2. CASE UNCHANGED vars
    <3>1. nstages' = nstages /\ \A s : Depends(s)' = Depends(s) /\ Checks(s)' = Checks(s)
      BY <2>2 DEF vars, nstages, Depends, Checks
    <3>2. UNCHANGED vars
      BY <2>2
    <3> QED
      BY <1>2, <2>2, <3>1 DEF vars, loop, result, async, LookInv, JobsAnswer, AheadDone, AheadListed,
         AheadCalled, PanicEnds, PanicOnlyUnanswered, Answered, Listed, ToCall, Elements
  <2> QED
    BY <1>2, <2>1, <2>2
<1>3. LookInv => PanicOnlyUnanswered
  BY DEF LookInv
<1> QED
  BY <1>1, <1>2, <1>3, InvAlways, PTL DEF Spec

-----------------------------------------------------------------------------
(* What is known of how often each check was counted: of a stage that was  *)
(* evaluated everything, of one to come that it was not; of the stage the  *)
(* worker is in that a check it has looked at was counted or has its dict  *)
(* on the list, until the list is scored.  Whether a check that was looked *)
(* at is due does not change any more.                                     *)
Decided(check) == Due(check) \/ NoneScored(check.depends)
Final(s, c) ==
  /\ counted[s][c] \in {0, 1} /\ Decided(Checks(s)[c])
  /\ Due(Checks(s)[c]) => counted[s][c] = 1
  /\ counted[s][c] = 1 => Due(Checks(s)[c]) \/ AskedAnyway(s, Checks(s)[c])
Looked(s, c) ==
  /\ counted[s][c] \in {0, 1} /\ Decided(Checks(s)[c])
  /\ counted[s][c] = 1 => Due(Checks(s)[c])
  /\ Due(Checks(s)[c]) => counted[s][c] = 1 \/ Checks(s)[c].dict \in Elements(dicts)

InStage == {"checks", "next", "call", "push", "wait", "blocked", "score"}
InRequest == InStage \cup {"stage", "reply"}
ForStage(d) == stage \in 1..nstages /\ \E c \in 1..Len(Checks(stage)) : Checks(stage)[c].dict = d /\ Due(Checks(stage)[c])
ForNext(d) == stage < nstages /\ d \in Depends(stage + 1)

CountType == DOMAIN counted = 1..nstages /\ \A s \in 1..nstages : DOMAIN counted[s] = 1..Len(Checks(s))
Past ==
  /\ pc = "reply" => stage > nstages
  /\ pc \in InRequest => \A s \in 1..nstages : s < stage => \A c \in 1..Len(Checks(s)) : Final(s, c)
Future ==
  pc \in InRequest =>
    \A s \in 1..nstages : s > stage \/ (s = stage /\ pc = "stage") =>
      \A c \in 1..Len(Checks(s)) : counted[s][c] = 0
Asked == pc \in InStage => \A d \in Elements(dicts) : ForStage(d) \/ ForNext(d)
Free(s, c) ==
  counted[s][c] = 1 => IF pc \in {"checks", "next"} THEN ready[Checks(s)[c].dict]
                       ELSE Checks(s)[c].dict \notin Elements(dicts)
Present ==
  pc \in InStage =>
    \A s \in 1..nstages : s = stage =>
      \A c \in 1..Len(Checks(s)) :
        /\ pc = "checks" /\ c >= i => counted[s][c] = 0
        /\ pc = "score" /\ c < i => Final(s, c)
        /\ ~(pc = "checks" /\ c >= i) /\ ~(pc = "score" /\ c < i) => Looked(s, c) /\ Free(s, c)
CountInv == CountType /\ Past /\ Future /\ Asked /\ Present

LEMMA DueKept ==
  ASSUME TypeInv, Stands, UNCHANGED ctx
  PROVE  \A s \in 1..nstages : \A c \in 1..Len(Checks(s)) :
           /\ Due(Checks(s)[c]) => Due(Checks(s)[c])'
           /\ Decided(Checks(s)[c]) =>
                Decided(Checks(s)[c])' /\ (Due(Checks(s)[c])' => Due(Checks(s)[c]))
<1> SUFFICES ASSUME NEW s \in 1..nstages, NEW c \in 1..Len(Checks(s))
             PROVE  /\ Due(Checks(s)[c]) => Due(Checks(s)[c])'
                    /\ Decided(Checks(s)[c]) =>
                         Decided(Checks(s)[c])' /\ (Due(Checks(s)[c])' => Due(Checks(s)[c]))
  OBVIOUS
<1>1. Checks(s)[c].depends \in Seq(Dicts)
  BY ContextFacts DEF TypeInv, TypeOK
<1>2. PICK depends \in Seq(Dicts) : depends = Checks(s)[c].depends
  BY <1>1
<1>3. UNCHANGED Checks(s)
  BY DEF Checks
<1>4. \A k \in 1..(Len(depends) + 1) : Reaches(depends, k) => Reaches(depends, k)'
  BY DEF Reaches, Stands
<1>5. Scored(depends) => Scored(depends)'
  BY <1>4 DEF Scored, Stands
<1>6. NoneScored(depends) => NoneScored(depends)'
  BY <1>4 DEF NoneScored
<1>7. NoneScored(depends)' => ~Scored(depends)'
  BY DEF NoneScored, Scored, Reaches
<1>8. /\ Due(Checks(s)[c]) <=> depends = << >> \/ Scored(depends)
      /\ Due(Checks(s)[c])' <=> depends = << >> \/ Scored(depends)'
      /\ Decided(Checks(s)[c]) <=> Due(Checks(s)[c]) \/ NoneScored(depends)
      /\ Decided(Checks(s)[c])' <=> Due(Checks(s)[c])' \/ NoneScored(depends)'
  BY <1>2, <1>3 DEF Due, Decided, Scored, NoneScored, Reaches
<1> QED
  BY <1>5, <1>6, <1>7, <1>8

LEMMA CheckTypes ==
  ASSUME TypeInv, NEW s \in 1..nstages
  PROVE  /\ Len(Checks(s)) \in Nat
         /\ \A c \in 1..Len(Checks(s)) :
              Checks(s)[c].dict \in Dicts /\ Checks(s)[c].depends \in Seq(Dicts)
  BY ContextFacts DEF TypeInv, TypeOK

LEMMA AskedKept ==
  ASSUME TypeInv, Stands, UNCHANGED ctx
  PROVE  \A s \in 1..nstages : \A c \in 1..Len(Checks(s)) :
           AskedAnyway(s, Checks(s)[c]) => AskedAnyway(s, Checks(s)[c])'
<1> SUFFICES ASSUME NEW s \in 1..nstages, NEW c \in 1..Len(Checks(s)), AskedAnyway(s, Checks(s)[c])
             PROVE  AskedAnyway(s, Checks(s)[c])'
  OBVIOUS
<1>1. UNCHANGED <<nstages, Checks(s), Checks(s + 1)>> /\ nstages \in Int /\ s \in Int
  BY ContextFacts DEF nstages, Checks, TypeInv, TypeOK
<1>2. CASE \E x \in 1..Len(Checks(s)) : Checks(s)[x].dict = Checks(s)[c].dict /\ Due(Checks(s)[x])
  BY <1>1, <1>2, DueKept DEF AskedAnyway
<1>3. CASE s < nstages /\ \E x \in 1..Len(Checks(s + 1)) :
             Checks(s)[c].dict \in Elements(Checks(s + 1)[x].depends)
  BY <1>1, <1>3 DEF AskedAnyway
<1> QED
  BY <1>2, <1>3 DEF AskedAnyway

LEMMA FinalKept ==
  ASSUME TypeInv, Stands, UNCHANGED ctx
  PROVE  \A s \in 1..nstages : \A c \in 1..Len(Checks(s)) :
           Final(s, c) /\ counted'[s][c] = counted[s][c] => Final(s, c)'
<1>1. \A s \in 1..nstages : UNCHANGED Checks(s)
  BY DEF Checks
<1> QED
  BY <1>1, DueKept, AskedKept DEF Final

LEMMA LookedKept ==
  ASSUME TypeInv, Stands, UNCHANGED ctx, Elements(dicts) \subseteq Elements(dicts)'
  PROVE  \A s \in 1..nstages : \A c \in 1..Len(Checks(s)) :
           Looked(s, c) /\ counted'[s][c] = counted[s][c] => Looked(s, c)'
<1>1. \A s \in 1..nstages : UNCHANGED Checks(s)
  BY DEF Checks
<1> QED
  BY <1>1, DueKept DEF Looked

LEMMA ForKept ==
  ASSUME TypeInv, Stands, UNCHANGED <<ctx, stage>>
  PROVE  \A d \in Dicts : (ForStage(d) => ForStage(d)') /\ (ForNext(d) => ForNext(d)')
<1>1. UNCHANGED <<nstages, Checks(stage), Depends(stage + 1)>>
  BY DEF nstages, Checks, Depends
<1>2. \A d \in Dicts : ForStage(d) => ForStage(d)'
  BY <1>1, DueKept DEF ForStage
<1> QED
  BY <1>1, <1>2 DEF ForNext

(* What is counted for the stages before and those to come does not change *)
(* while the worker is in a stage.                                         *)
LEMMA StagesKept ==
  ASSUME TypeInv, CountInv, Stands, UNCHANGED <<ctx, stage>>,
         \A s \in 1..nstages : s # stage => counted'[s] = counted[s],
         pc \in InStage /\ pc' \in InStage
  PROVE  Past' /\ Future'
<1>1. UNCHANGED nstages /\ \A s \in 1..nstages : UNCHANGED Checks(s)
  BY DEF nstages, Checks
<1>2. nstages \in Nat /\ stage \in Nat
  BY ContextFacts DEF TypeInv, TypeOK
<1>3. ASSUME NEW s \in 1..nstages, s < stage, NEW c \in 1..Len(Checks(s)) PROVE Final(s, c)'
  <2>1. Final(s, c) /\ counted'[s][c] = counted[s][c]
    BY <1>2, <1>3 DEF CountInv, Past, InRequest
  <2> QED
    BY <2>1, FinalKept
<1>4. Past'
  BY <1>1, <1>3 DEF Past, InStage
<1>5. Future'
  BY <1>1, <1>2 DEF CountInv, Future, InRequest, InStage
<1> QED
  BY <1>4, <1>5

(* A step that counts nothing and leaves the list alone.                   *)
LEMMA CountFrame ==
  ASSUME TypeInv, CountInv, Stands, UNCHANGED <<ctx, stage, counted, dicts>>,
         \/ pc' = pc /\ pc \in InStage /\ (i' = i \/ pc \notin {"checks", "score"})
         \/ pc \in {"call", "push", "wait", "blocked"} /\ pc' \in {"call", "push", "wait", "blocked"}
         \/ pc = "wait" /\ pc' = "score" /\ i' = 1
  PROVE  CountInv'
<1>1. UNCHANGED nstages /\ \A s \in 1..nstages : UNCHANGED Checks(s)
  BY DEF nstages, Checks
<1>2. CountType'
  BY <1>1 DEF CountInv, CountType
<1>3. Past' /\ Future'
  BY StagesKept DEF InStage
<1>4. Elements(dicts)' = Elements(dicts) /\ Elements(dicts) \subseteq Dicts
  BY DEF Elements, TypeInv, TypeOK
<1>5. Asked'
  BY <1>4, ForKept DEF CountInv, Asked, InStage
<1>6. Present'
  <2> SUFFICES ASSUME NEW s \in 1..nstages, s = stage, NEW c \in 1..Len(Checks(s))
               PROVE  /\ pc' = "checks" /\ c >= i' => counted'[s][c] = 0
                      /\ pc' = "score" /\ c < i' => Final(s, c)'
                      /\ ~(pc' = "checks" /\ c >= i') /\ ~(pc' = "score" /\ c < i') =>
                           Looked(s, c)' /\ Free(s, c)'
    BY <1>1 DEF Present
  <2>1. c \in Nat \ {0} /\ Checks(s)[c].dict \in Dicts
    BY CheckTypes
  <2>2. CASE pc' = "checks" /\ c >= i'
    BY <2>2 DEF CountInv, Present, InStage
  <2>3. CASE pc' = "score" /\ c < i'
    <3>1. Final(s, c)
      BY <2>1, <2>3 DEF CountInv, Present, InStage
    <3> QED
      BY <2>3, <3>1, FinalKept
  <2>4. CASE ~(pc' = "checks" /\ c >= i') /\ ~(pc' = "score" /\ c < i')
    <3>1. Looked(s, c) /\ Free(s, c)
      BY <2>1, <2>4 DEF CountInv, Present, InStage
    <3>2. Looked(s, c)'
      BY <1>4, <3>1, LookedKept
    <3>3. Free(s, c)'
      BY <1>1, <1>4, <2>1, <3>1 DEF Free, Stands
    <3> QED
      BY <2>4, <3>2, <3>3
  <2> QED
    BY <2>2, <2>3, <2>4
<1> QED
  BY <1>2, <1>3, <1>5, <1>6 DEF CountInv

LEMMA CountStep ==
  ASSUME CountType, NEW s \in 1..nstages, NEW c \in 1..Len(Checks(s)), Count(s, c), UNCHANGED ctx
  PROVE  /\ CountType' /\ counted'[s][c] = counted[s][c] + 1
         /\ \A x \in 1..Len(Checks(s)) : x # c => counted'[s][x] = counted[s][x]
         /\ \A t \in 1..nstages : t # s => counted'[t] = counted[t]
  BY DEF CountType, Count, nstages, Checks

LEMMA AppendElements ==
  ASSUME TypeInv, NEW d \in Dicts, dicts' = Append(dicts, d)
  PROVE  Elements(dicts)' = Elements(dicts) \cup {d}
<1>1. /\ dicts \in Seq(Dicts) /\ Len(dicts) \in Nat /\ Len(dicts') = Len(dicts) + 1
      /\ dicts'[Len(dicts) + 1] = d /\ \A k \in 1..Len(dicts) : dicts'[k] = dicts[k]
  BY DEF TypeInv, TypeOK
<1>2. \A k \in 1..Len(dicts') : k \in 1..Len(dicts) \/ k = Len(dicts) + 1
  BY <1>1
<1>3. \A k \in 1..Len(dicts) : k \in 1..Len(dicts')
  BY <1>1
<1>4. Len(dicts) + 1 \in 1..Len(dicts')
  BY <1>1
<1> QED
  BY <1>1, <1>2, <1>3, <1>4 DEF Elements

LEMMA CountCollect ==
  ASSUME TypeInv, CountInv, CollectCheck
  PROVE  CountInv'
<1>1. /\ pc = "checks" /\ pc' = "checks" /\ i' = i + 1
      /\ UNCHANGED <<ctx, stage, ready, points>> /\ Stands
  BY DEF CollectCheck, Unchanged_Collect, result, Stands, TypeInv, TypeOK
<1>2. PICK s \in 1..nstages : s = stage
  BY <1>1, ContextFacts DEF TypeInv, TypeOK, InLoop
<1>3. i \in 1..Len(Checks(s)) /\ i \in Nat
  BY <1>2, CheckTypes DEF CollectCheck, TypeInv, TypeOK
<1>4. PICK c \in 1..Len(Checks(s)) : c = i
  BY <1>3
<1>5. counted[s][c] = 0
  BY <1>1, <1>2, <1>3, <1>4 DEF CountInv, Present, InStage
<1>6. UNCHANGED nstages /\ \A t \in 1..nstages : UNCHANGED Checks(t)
  BY <1>1 DEF nstages, Checks
<1>7. Checks(s)[c].dict \in Dicts /\ Checks(s)[c].depends \in Seq(Dicts)
  BY CheckTypes
<1>8. \/ /\ Due(Checks(s)[c]) /\ Count(s, c) /\ UNCHANGED dicts
         /\ ready[Checks(s)[c].dict]
      \/ /\ Due(Checks(s)[c]) /\ UNCHANGED counted
         /\ dicts' = Append(dicts, Checks(s)[c].dict)
      \/ /\ UNCHANGED <<dicts, counted>> /\ Decided(Checks(s)[c])
         /\ Due(Checks(s)[c]) => Checks(s)[c].dict \in Elements(dicts)
  <2>1. NoneScored(Checks(s)[c].depends) /\ Checks(s)[c].depends # << >> => ~Due(Checks(s)[c])
    BY <1>7 DEF NoneScored, Due, Scored, Reaches
  <2> QED
    BY <1>2, <1>4, <2>1 DEF CollectCheck, CollectScores, CollectAppends, verdict, Decided
<1>9. /\ CountType' /\ counted'[s][c] \in {0, 1}
      /\ counted'[s][c] = 1 => Due(Checks(s)[c]) /\ ready[Checks(s)[c].dict]
      /\ Decided(Checks(s)[c])
      /\ Due(Checks(s)[c]) => counted'[s][c] = 1 \/ Checks(s)[c].dict \in Elements(dicts)'
      /\ \A x \in 1..Len(Checks(s)) : x # c => counted'[s][x] = counted[s][x]
      /\ \A t \in 1..nstages : t # s => counted'[t] = counted[t]
      /\ Elements(dicts) \subseteq Elements(dicts)'
      /\ \A d \in Elements(dicts)' : d \in Elements(dicts) \/ ForStage(d)
  <2>1. CASE Due(Checks(s)[c]) /\ Count(s, c) /\ UNCHANGED dicts /\ ready[Checks(s)[c].dict]
    BY <1>1, <1>5, <2>1, CountStep DEF CountInv, Decided, Elements
  <2>2. CASE Due(Checks(s)[c]) /\ UNCHANGED counted /\ dicts' = Append(dicts, Checks(s)[c].dict)
    <3>1. Elements(dicts)' = Elements(dicts) \cup {Checks(s)[c].dict}
      BY <1>7, <2>2, AppendElements
    <3>2. ForStage(Checks(s)[c].dict)
      BY <1>2, <2>2 DEF ForStage
    <3>3. CountType'
      BY <1>6, <2>2 DEF CountInv, CountType
    <3> QED
      BY <1>5, <2>2, <3>1, <3>2, <3>3 DEF Decided
  <2>3. CASE /\ UNCHANGED <<dicts, counted>> /\ Decided(Checks(s)[c])
             /\ Due(Checks(s)[c]) => Checks(s)[c].dict \in Elements(dicts)
    <3>1. CountType'
      BY <1>6, <2>3 DEF CountInv, CountType
    <3>2. Elements(dicts)' = Elements(dicts)
      BY <2>3 DEF Elements
    <3> QED
      BY <1>5, <2>3, <3>1, <3>2
  <2> QED
    BY <1>8, <2>1, <2>2, <2>3
<1>10. Past' /\ Future'
  BY <1>1, <1>2, <1>9, StagesKept DEF InStage
<1>11. Asked'
  <2>1. Elements(dicts)' \subseteq Dicts
    <3>1. Elements(dicts) \subseteq Dicts
      BY DEF Elements, TypeInv, TypeOK
    <3>2. \A d : ForStage(d) => d \in Dicts
      BY CheckTypes DEF ForStage
    <3> QED
      BY <1>9, <3>1, <3>2
  <2>2. \A d \in Elements(dicts)' : ForStage(d) \/ ForNext(d)
    BY <1>1, <1>9 DEF CountInv, Asked, InStage
  <2> QED
    BY <1>1, <2>1, <2>2, ForKept DEF Asked
<1>12. ASSUME NEW x \in 1..Len(Checks(s)), x < i' PROVE Looked(s, x)' /\ Free(s, x)'
  <2>1. CASE x = c
    <3>1. Due(Checks(s)[c])' <=> Due(Checks(s)[c])
      BY <1>1, <1>9, DueKept
    <3>2. Decided(Checks(s)[c])'
      BY <1>1, <1>9, DueKept
    <3>3. UNCHANGED Checks(s)
      BY <1>6
    <3> QED
      BY <1>1, <1>9, <2>1, <3>1, <3>2, <3>3 DEF Looked, Free
  <2>2. CASE x # c
    <3>1. Looked(s, x) /\ Free(s, x)
      BY <1>1, <1>2, <1>3, <1>4, <1>12, <2>2 DEF CountInv, Present, InStage
    <3>2. Looked(s, x)'
      BY <1>1, <1>9, <2>2, <3>1, LookedKept
    <3>3. Free(s, x)'
      BY <1>1, <1>6, <1>9, <2>2, <3>1 DEF Free
    <3> QED
      BY <3>2, <3>3
  <2> QED
    BY <2>1, <2>2
<1>13. ASSUME NEW x \in 1..Len(Checks(s)), x >= i' PROVE counted'[s][x] = 0
  BY <1>1, <1>2, <1>3, <1>4, <1>9, <1>13 DEF CountInv, Present, InStage
<1>14. Present'
  BY <1>1, <1>2, <1>6, <1>12, <1>13 DEF Present
<1> QED
  BY <1>9, <1>10, <1>11, <1>14 DEF CountInv

LEMMA CountScore ==
  ASSUME TypeInv, CountInv, Score
  PROVE  CountInv'
<1>1. /\ pc = "score" /\ pc' = "score" /\ i' = i + 1
      /\ UNCHANGED <<ctx, stage, ready, points, dicts>> /\ Stands
  BY DEF Score, Scoring, Unchanged_Collect, result, Stands, TypeInv, TypeOK
<1>2. PICK s \in 1..nstages : s = stage
  BY <1>1, ContextFacts DEF Score, Scoring, TypeInv, TypeOK, InLoop
<1>3. i \in 1..Len(Checks(s)) /\ i \in Nat
  BY <1>2, CheckTypes DEF Score, Scoring, TypeInv, TypeOK
<1>4. PICK c \in 1..Len(Checks(s)) : c = i
  BY <1>3
<1>5. UNCHANGED nstages /\ \A t \in 1..nstages : UNCHANGED Checks(t)
  BY <1>1 DEF nstages, Checks
<1>6. Looked(s, c) /\ Free(s, c)
  BY <1>1, <1>2, <1>3, <1>4 DEF CountInv, Present, InStage
<1>7. Checks(s)[c].dict \in Elements(dicts) => AskedAnyway(s, Checks(s)[c])
  <2> SUFFICES ASSUME Checks(s)[c].dict \in Elements(dicts) PROVE AskedAnyway(s, Checks(s)[c])
    OBVIOUS
  <2>1. ForStage(Checks(s)[c].dict) \/ ForNext(Checks(s)[c].dict)
    BY <1>1 DEF CountInv, Asked, InStage
  <2> QED
    BY <1>2, <2>1 DEF ForStage, ForNext, AskedAnyway, Depends
<1>8. /\ CountType'
      /\ counted'[s][c] \in {0, 1}
      /\ Due(Checks(s)[c]) => counted'[s][c] = 1
      /\ counted'[s][c] = 1 => Due(Checks(s)[c]) \/ AskedAnyway(s, Checks(s)[c])
      /\ \A x \in 1..Len(Checks(s)) : x # c => counted'[s][x] = counted[s][x]
      /\ \A t \in 1..nstages : t # s => counted'[t] = counted[t]
  <2>1. CASE Checks(s)[c].dict \in Elements(dicts)
    <3>1. Count(s, c)
      BY <1>2, <1>4, <2>1 DEF Score
    <3>2. counted[s][c] = 0
      BY <1>1, <1>6, <2>1 DEF Looked, Free
    <3> QED
      BY <1>1, <1>7, <2>1, <3>1, <3>2, CountStep DEF CountInv
  <2>2. CASE Checks(s)[c].dict \notin Elements(dicts)
    <3>1. UNCHANGED counted
      BY <1>2, <1>4, <2>2 DEF Score, verdict
    <3>2. CountType'
      BY <1>5, <3>1 DEF CountInv, CountType
    <3> QED
      BY <1>6, <2>2, <3>1, <3>2 DEF Looked
  <2> QED
    BY <2>1, <2>2
<1>9. Past' /\ Future'
  BY <1>1, <1>2, <1>8, StagesKept DEF InStage
<1>10. Asked'
  <2>1. Elements(dicts)' = Elements(dicts) /\ Elements(dicts) \subseteq Dicts
    BY <1>1 DEF Elements, TypeInv, TypeOK
  <2> QED
    BY <1>1, <2>1, ForKept DEF CountInv, Asked, InStage
<1>11. ASSUME NEW x \in 1..Len(Checks(s)), x < i' PROVE Final(s, x)'
  <2>1. CASE x = c
    <3>1. Decided(Checks(s)[c])
      BY <1>6 DEF Looked
    <3>2. /\ Decided(Checks(s)[c])' /\ (Due(Checks(s)[c])' <=> Due(Checks(s)[c]))
      BY <1>1, <3>1, DueKept
    <3>3. AskedAnyway(s, Checks(s)[c]) => AskedAnyway(s, Checks(s)[c])'
      BY <1>1, AskedKept
    <3> QED
      BY <1>5, <1>8, <2>1, <3>2, <3>3 DEF Final
  <2>2. CASE x # c
    <3>1. Final(s, x)
      BY <1>1, <1>2, <1>3, <1>4, <1>11, <2>2 DEF CountInv, Present, InStage
    <3> QED
      BY <1>1, <1>8, <2>2, <3>1, FinalKept
  <2> QED
    BY <2>1, <2>2
<1>12. ASSUME NEW x \in 1..Len(Checks(s)), x >= i' PROVE Looked(s, x)' /\ Free(s, x)'
  <2>1. x # c /\ Looked(s, x) /\ Free(s, x)
    BY <1>1, <1>2, <1>3, <1>4, <1>12 DEF CountInv, Present, InStage
  <2>2. Elements(dicts)' = Elements(dicts)
    BY <1>1 DEF Elements
  <2>3. Looked(s, x)'
    BY <1>1, <1>8, <2>1, <2>2, LookedKept
  <2>4. Free(s, x)'
    BY <1>1, <1>5, <1>8, <2>1, <2>2 DEF Free
  <2> QED
    BY <2>3, <2>4
<1>13. Present'
  <2>1. \A x \in 1..Len(Checks(s)) : x < i' \/ x >= i'
    BY <1>1, <1>3, CheckTypes
  <2>2. \A x \in 1..Len(Checks(s)) : x \in Nat
    OBVIOUS
  <2>3. i' \in Nat
    BY <1>1, <1>3
  <2>4. \A x \in 1..Len(Checks(s)) : ~(x < i' /\ x >= i')
    BY <2>2, <2>3
  <2> QED
    BY <1>1, <1>2, <1>5, <1>11, <1>12, <2>1, <2>4 DEF Present
<1> QED
  BY <1>8, <1>9, <1>10, <1>13 DEF CountInv

LEMMA CountEndScores ==
  ASSUME TypeInv, CountInv, EndScores
  PROVE  CountInv'
<1>1. /\ pc = "score" /\ pc' = "stage" /\ ~Scoring /\ stage' = stage + 1
      /\ UNCHANGED <<ctx, ready, points, dicts, counted>> /\ Stands
  BY DEF EndScores, Unchanged_Collect, result, verdict, Goto, Stands, TypeInv, TypeOK
<1>2. UNCHANGED nstages /\ \A t \in 1..nstages : UNCHANGED Checks(t)
  BY <1>1 DEF nstages, Checks
<1>3. stage \in Nat /\ nstages \in Nat /\ i \in Nat
  BY ContextFacts DEF TypeInv, TypeOK
<1>4. ASSUME NEW s \in 1..nstages, s < stage + 1, NEW c \in 1..Len(Checks(s)) PROVE Final(s, c)'
  <2>1. Final(s, c)
    <3>1. CASE s < stage
      BY <1>1, <3>1 DEF CountInv, Past, InRequest, InStage
    <3>2. CASE s = stage
      <4>1. c < i
        BY <1>1, <1>3, <3>2, CheckTypes DEF Scoring
      <4> QED
        BY <1>1, <3>2, <4>1 DEF CountInv, Present, InStage
    <3> QED
      BY <1>3, <1>4, <3>1, <3>2
  <2> QED
    BY <1>1, <2>1, FinalKept
<1>5. Future'
  BY <1>1, <1>2, <1>3 DEF CountInv, Future, InRequest, InStage
<1>6. Past' /\ CountType'
  BY <1>1, <1>2, <1>4 DEF Past, CountInv, CountType
<1> QED
  BY <1>1, <1>5, <1>6 DEF CountInv, Asked, Present, InStage

LEMMA CountNextStage ==
  ASSUME Inv, CountInv, CollectNext \/ CollectNextCheck
  PROVE  CountInv'
<1>1. /\ pc = "next" /\ pc' = "next" /\ LookingAhead
      /\ UNCHANGED <<ctx, stage, ready, points, counted>> /\ Stands
  BY DEF CollectNext, CollectNextCheck, LookingAhead, Unchanged_Collect, result, verdict, Stands,
     Inv, TypeInv, TypeOK
<1>2. CASE UNCHANGED dicts
  BY <1>1, <1>2, CountFrame DEF Inv, InStage
<1>3. CASE dicts' # dicts
  <2>1. PICK d \in Dicts : ForNext(d) /\ dicts' = Append(dicts, d)
    <3>1. CollectNext
      BY <1>3 DEF CollectNextCheck
    <3>2. stage + 1 \in 1..nstages /\ i \in 1..Len(Checks(stage + 1))
      BY <1>1, NextStageType, ContextFacts DEF LookingAhead, Inv, TypeInv, TypeOK
    <3>3. j \in 1..Len(Checks(stage + 1)[i].depends)
      BY <3>1, <3>2, CheckTypes DEF CollectNext, Inv, TypeInv, TypeOK
    <3>4. /\ Checks(stage + 1)[i].depends[j] \in Dicts
          /\ Checks(stage + 1)[i].depends[j] \in Depends(stage + 1)
      BY <3>2, <3>3, DependsType DEF Inv
    <3> QED
      BY <1>1, <1>3, <3>1, <3>4 DEF CollectNext, ForNext, LookingAhead
  <2>2. Elements(dicts)' = Elements(dicts) \cup {d} /\ Elements(dicts) \subseteq Dicts
    BY <2>1, AppendElements DEF Inv, TypeInv, TypeOK, Elements
  <2>3. UNCHANGED nstages /\ \A s \in 1..nstages : UNCHANGED Checks(s)
    BY <1>1 DEF nstages, Checks
  <2>4. Past' /\ Future'
    BY <1>1, StagesKept DEF Inv, InStage
  <2>5. Asked'
    BY <1>1, <2>1, <2>2, ForKept DEF CountInv, Asked, InStage, Inv
  <2>6. Present'
    <3> SUFFICES ASSUME NEW s \in 1..nstages, s = stage, NEW c \in 1..Len(Checks(s))
                 PROVE  Looked(s, c)' /\ Free(s, c)'
      BY <1>1, <2>3 DEF Present
    <3>1. Looked(s, c) /\ Free(s, c)
      BY <1>1 DEF CountInv, Present, InStage
    <3>2. Looked(s, c)'
      BY <1>1, <2>2, <3>1, LookedKept DEF Inv
    <3>3. Free(s, c)'
      BY <1>1, <2>3, <3>1 DEF Free
    <3> QED
      BY <3>2, <3>3
  <2> QED
    BY <1>1, <2>3, <2>4, <2>5, <2>6 DEF CountInv, CountType
<1> QED
  BY <1>2, <1>3

LEMMA CountPhases ==
  ASSUME Inv, CountInv, EndChecks \/ EndNext
  PROVE  CountInv'
<1>1. /\ UNCHANGED <<ctx, stage, ready, points, counted, dicts>> /\ Stands
      /\ \/ pc = "checks" /\ pc' = "next" /\ i > Len(Checks(stage))
         \/ pc = "next" /\ pc' = "call"
  BY DEF EndChecks, EndNext, Unchanged_Collect, result, verdict, Goto, Stands, Inv, TypeInv, TypeOK
<1>2. UNCHANGED nstages /\ \A s \in 1..nstages : UNCHANGED Checks(s)
  BY <1>1 DEF nstages, Checks
<1>3. Elements(dicts)' = Elements(dicts) /\ Elements(dicts) \subseteq Dicts
  BY <1>1 DEF Elements, Inv, TypeInv, TypeOK
<1>4. Past' /\ Future'
  BY <1>1, StagesKept DEF Inv, InStage
<1>5. Asked'
  BY <1>1, <1>3, ForKept DEF CountInv, Asked, InStage, Inv
<1>6. Present'
  <2> SUFFICES ASSUME NEW s \in 1..nstages, s = stage, NEW c \in 1..Len(Checks(s))
               PROVE  Looked(s, c)' /\ Free(s, c)'
    BY <1>1, <1>2 DEF Present
  <2>1. Looked(s, c) /\ Free(s, c)
    <3>1. pc = "checks" => ~(c >= i)
      BY <1>1, CheckTypes DEF Inv, TypeInv, TypeOK
    <3> QED
      BY <1>1, <3>1 DEF CountInv, Present, InStage
  <2>2. Looked(s, c)'
    BY <1>1, <1>3, <2>1, LookedKept DEF Inv
  <2>3. Free(s, c)'
    <3>1. pc \in {"checks", "next"} /\ counted[s][c] = 1 => ready[Checks(s)[c].dict]
      BY <2>1 DEF Free
    <3>2. \A d \in Elements(dicts) : ~ready[d]
      BY <1>1 DEF Inv, ListInv, Elements
    <3> QED
      BY <1>1, <1>2, <1>3, <3>1, <3>2 DEF Free
  <2> QED
    BY <2>2, <2>3
<1> QED
  BY <1>1, <1>2, <1>4, <1>5, <1>6 DEF CountInv, CountType

LEMMA CountStages ==
  ASSUME TypeInv, CountInv, BeginStage \/ EndStages \/ Begin
  PROVE  CountInv'
<1>1. stage \in Nat /\ nstages \in Nat
  BY ContextFacts DEF TypeInv, TypeOK
<1>2. CASE Begin
  <2>1. stage' = 0 /\ pc' = "stage" /\ UNCHANGED ctx /\ counted' = Tally
    BY <1>2 DEF Begin, Goto
  <2>2. UNCHANGED nstages /\ \A s \in 1..nstages : UNCHANGED Checks(s)
    BY <2>1 DEF nstages, Checks
  <2>3. CountType' /\ \A s \in 1..nstages : \A c \in 1..Len(Checks(s)) : counted'[s][c] = 0
    BY <2>1, <2>2 DEF CountType, Tally
  <2>4. Past' /\ Future'
    BY <2>1, <2>2, <2>3 DEF Past, Future
  <2> QED
    BY <2>1, <2>3, <2>4 DEF CountInv, Asked, Present, InStage
<1>3. CASE BeginStage
  <2>1. /\ pc = "stage" /\ UNCHANGED <<ctx, stage, counted, ready, points>> /\ dicts' = << >> /\ i' = 1
        /\ Stands
        /\ \/ stage = 0 /\ pc' = "next"
           \/ stage > 0 /\ pc' = "checks"
    BY <1>3 DEF BeginStage, Unchanged_Collect, result, verdict, Goto, Stands, TypeInv, TypeOK
  <2>2. UNCHANGED nstages /\ \A s \in 1..nstages : UNCHANGED Checks(s)
    BY <2>1 DEF nstages, Checks
  <2>3. Elements(dicts)' = {}
    BY <2>1 DEF Elements
  <2>4. Past'
    BY <2>1, <2>2, FinalKept DEF CountInv, Past, InRequest
  <2>5. Future'
    BY <2>1, <2>2 DEF CountInv, Future, InRequest
  <2>6. Present'
    <3>1. \A c \in Nat \ {0} : c >= i'
      BY <2>1
    <3>2. \A s \in 1..nstages : \A c \in 1..Len(Checks(s)) : c \in Nat \ {0}
      BY CheckTypes
    <3> QED
      BY <1>1, <2>1, <2>2, <3>1, <3>2 DEF CountInv, Future, Present, InRequest
  <2> QED
    BY <2>1, <2>2, <2>3, <2>4, <2>5, <2>6 DEF CountInv, CountType, Asked
<1>4. CASE EndStages
  <2>1. /\ pc = "stage" /\ pc' = "reply" /\ stage > nstages
        /\ UNCHANGED <<ctx, stage, counted, ready, points>> /\ Stands
    BY <1>4 DEF EndStages, Unchanged_Collect, result, verdict, loop, Goto, Stands, TypeInv, TypeOK
  <2>2. UNCHANGED nstages /\ \A s \in 1..nstages : UNCHANGED Checks(s)
    BY <2>1 DEF nstages, Checks
  <2>3. Past'
    BY <2>1, <2>2, FinalKept DEF CountInv, Past, InRequest
  <2> QED
    BY <1>1, <2>1, <2>2, <2>3 DEF CountInv, CountType, Future, Asked, Present, InRequest, InStage
<1> QED
  BY <1>2, <1>3, <1>4

(* Outside a request nothing is known but the shape.                       *)
LEMMA CountIdle ==
  ASSUME CountInv, UNCHANGED <<ctx, counted>>, pc' \notin InRequest
  PROVE  CountInv'
<1>1. UNCHANGED nstages /\ \A s \in 1..nstages : UNCHANGED Checks(s)
  BY DEF nstages, Checks
<1> QED
  BY <1>1 DEF CountInv, CountType, Past, Future, Asked, Present, InRequest, InStage

(* A step beside the request that the worker is in, at its start.          *)
LEMMA CountBeside ==
  ASSUME TypeInv, CountInv, Stands, UNCHANGED <<ctx, stage, counted>>,
         pc \in {"stage", "reply"}, pc' = pc
  PROVE  CountInv'
<1>1. UNCHANGED nstages /\ \A s \in 1..nstages : UNCHANGED Checks(s)
  BY DEF nstages, Checks
<1>2. Past'
  BY <1>1, FinalKept DEF CountInv, Past, InRequest
<1> QED
  BY <1>1, <1>2 DEF CountInv, CountType, Future, Asked, Present, InRequest, InStage

LEMMA CountNext ==
  ASSUME Inv, CountInv, Next
  PROVE  CountInv'
<1> USE DEF Unchanged_Collect, Unchanged_Call, Unchanged_Job, result, async, loop, verdict, Goto,
            InStage, InRequest
<1>1. Stands \/ pc = "reset"
  BY AnswersStep
<1>2. CASE CollectCheck \/ Score \/ EndScores \/ CollectNext \/ CollectNextCheck \/ EndChecks \/ EndNext
           \/ BeginStage \/ EndStages \/ Begin
  BY <1>2, CountCollect, CountScore, CountEndScores, CountNextStage, CountPhases, CountStages DEF Inv
<1>3. CASE CallSync \/ CallFails \/ CallLock \/ CallPushed \/ CallRefused \/ EndCalls \/ Wait \/ SpuriousWakeup
  <2>1. /\ UNCHANGED <<ctx, stage, counted, dicts>> /\ pc \in {"call", "push", "wait", "blocked"}
        /\ \/ pc' \in {"call", "push", "wait", "blocked"}
           \/ pc = "wait" /\ pc' = "score" /\ i' = 1
    BY <1>3 DEF CallSync, CallFails, CallLock, Calling, CallPushed, CallRefused, EndCalls, Wait, SpuriousWakeup
  <2> QED
    BY <1>1, <2>1, CountFrame DEF Inv
<1>4. CASE BeginFails \/ BeginCrashes \/ StagePanics \/ CheckPanics \/ RunDangling
           \/ Reply \/ UpdateStats \/ Reset
  <2>1. UNCHANGED <<ctx, counted>> /\ pc' \notin InRequest
    BY <1>4 DEF BeginFails, BeginCrashes, StagePanics, CheckPanics, Panic, RunDangling, Reply, UpdateStats, Reset
  <2> QED
    BY <2>1, CountIdle
<1>5. CASE Signal \/ \E d \in Dicts : Job(d)
  <2>1. /\ UNCHANGED <<ctx, stage, counted, dicts, i>>
        /\ pc' = pc \/ (pc = "blocked" /\ pc' = "wait")
    BY <1>5 DEF Signal, Job, JobCheck, JobUnlock
  <2>2. CASE \/ pc = "blocked" /\ pc' = "wait"
             \/ pc' = pc /\ pc \in InStage
    BY <1>1, <2>1, <2>2, CountFrame DEF Inv
  <2>3. CASE pc' = pc /\ pc \in {"stage", "reply"}
    BY <1>1, <2>1, <2>3, CountBeside DEF Inv
  <2>4. CASE pc' = pc /\ pc \notin InRequest
    BY <2>1, <2>4, CountIdle
  <2> QED
    BY <2>1, <2>2, <2>3, <2>4
<1> QED
  BY <1>2, <1>3, <1>4, <1>5 DEF Next, Worker

THEOREM CountAlways == Spec => []CountInv
<1>1. ASSUME Init PROVE CountInv
  <2>1. CountType
    BY <1>1 DEF Init, CountType, Tally
  <2> QED
    BY <1>1, <2>1 DEF Init, CountInv, Past, Future, Asked, Present, InRequest, InStage
<1>2. ASSUME Inv, CountInv, [Next]_vars PROVE CountInv'
  <2>1. CASE Next
    BY <1>2, <2>1, CountNext
  <2>2. CASE UNCHANGED vars
    <3>1. UNCHANGED <<ctx, stage, counted, dicts, pc, i>> /\ (Stands \/ pc = "reset")
      BY <1>2, <2>2, AnswersStep DEF vars, loop, verdict
    <3>2. CASE pc \in InStage
      BY <1>2, <3>1, <3>2, CountFrame DEF Inv, InStage
    <3>3. CASE pc \in {"stage", "reply"}
      BY <1>2, <3>1, <3>3, CountBeside DEF Inv
    <3>4. CASE pc \notin InRequest
      BY <1>2, <3>1, <3>4, CountIdle
    <3> QED
      BY <3>2, <3>3, <3>4 DEF InRequest
  <2> QED
    BY <1>2, <2>1, <2>2
<1> QED
  BY <1>1, <1>2, InvAlways, PTL DEF Spec

(* When the worker replies every check that was due has been added to the  *)
(* score once, and no check was that was not due, unless its dict was      *)
(* asked all the same: for any stages, checks and dependencies, any dicts  *)
(* that never answer and any order of the jobs.                            *)
THEOREM CountedSafety == Spec => []CountedRight
<1>1. ASSUME Inv, CountInv PROVE CountedRight
  <2>1. stage \in Nat /\ nstages \in Nat
    BY <1>1, ContextFacts DEF Inv, TypeInv, TypeOK
  <2> QED
    BY <1>1, <2>1 DEF CountInv, Past, Final, CountedRight, InRequest
<1> QED
  BY <1>1, InvAlways, CountAlways, PTL
-----------------------------------------------------------------------------
(* A sum over a set, as the library defines it: of one element that is     *)
(* chosen, and of the rest.  What is shown for the empty set, and for a    *)
(* set if it holds without that element, holds of every finite set.        *)
Pick(T) == CHOOSE x \in T : TRUE

LEMMA SetsByPick ==
  ASSUME NEW S, IsFiniteSet(S), NEW Good, {} \in Good,
         \A T \in SUBSET S : T # {} /\ T \ {Pick(T)} \in Good => T \in Good
  PROVE  SUBSET S \subseteq Good
<1> DEFINE Bad == (SUBSET S) \ Good
<1> SUFFICES ASSUME Bad # {} PROVE FALSE
  OBVIOUS
<1>1. PICK T \in Bad : \A U \in Bad : ~(<<U, T>> \in StrictSubsetOrdering(S))
  <2>1. IsWellFoundedOn(StrictSubsetOrdering(S), FiniteSubsetsOf(S))
    BY FS_StrictSubsetOrderingWellFounded
  <2>2. Bad \subseteq FiniteSubsetsOf(S) /\ Bad # {}
    BY FS_FiniteSubsetsOfFinite
  <2> HIDE DEF Bad
  <2> QED
    BY <2>1, <2>2, WFMin
<1>2. T # {} /\ T \in SUBSET S
  BY <1>1
<1>3. Pick(T) \in T
  BY <1>2 DEF Pick
<1>4. T \ {Pick(T)} \in SUBSET S /\ T \ {Pick(T)} # T
  BY <1>2, <1>3
<1>5. T \ {Pick(T)} \notin Bad
  BY <1>1, <1>2, <1>4 DEF StrictSubsetOrdering
<1> QED
  BY <1>1, <1>2, <1>4, <1>5

Adds(g, f, T) == IF T = {} THEN 0 ELSE f[Pick(T)] + g[T \ {Pick(T)}]
IsSum(g, f, S) == g = [T \in SUBSET S |-> Adds(g, f, T)]

LEMMA SumIs ==
  ASSUME NEW g, NEW f, NEW S, IsSum(g, f, S)
  PROVE  \A T \in SUBSET S : g[T] = Adds(g, f, T)
BY DEF IsSum

LEMMA SumExists ==
  ASSUME NEW f, NEW S, IsFiniteSet(S)
  PROVE  \E g : IsSum(g, f, S)
<1> DEFINE D(n) == {T \in SUBSET S : Cardinality(T) <= n}
           Good == {U \in SUBSET S : \E g : g = [T \in D(Cardinality(U)) |-> Adds(g, f, T)]}
<1>1. \A T \in SUBSET S : IsFiniteSet(T) /\ Cardinality(T) \in Nat /\ Cardinality(T) <= Cardinality(S)
  BY FS_Subset, FS_CardinalityType
<1>2. \A T \in SUBSET S : T # {} =>
        /\ Pick(T) \in T /\ T \ {Pick(T)} \in SUBSET S
        /\ Cardinality(T \ {Pick(T)}) = Cardinality(T) - 1
  <2> SUFFICES ASSUME NEW T \in SUBSET S, T # {}
               PROVE  /\ Pick(T) \in T /\ T \ {Pick(T)} \in SUBSET S
                      /\ Cardinality(T \ {Pick(T)}) = Cardinality(T) - 1
    OBVIOUS
  <2>1. Pick(T) \in T
    BY DEF Pick
  <2> QED
    BY <1>1, <2>1, FS_RemoveElement
<1>3. {} \in Good
  <2>1. D(Cardinality({})) = {{}}
    BY <1>1, FS_EmptySet
  <2> DEFINE g == [T \in {{}} |-> 0]
  <2>2. \A T \in {{}} : Adds(g, f, T) = 0
    BY DEF Adds
  <2>3. g = [T \in {{}} |-> Adds(g, f, T)]
    BY <2>2
  <2> HIDE DEF g
  <2> QED
    BY <2>1, <2>3
<1>4. ASSUME NEW U \in SUBSET S, U # {}, U \ {Pick(U)} \in Good PROVE U \in Good
  <2>1. PICK n : n = Cardinality(U)
    OBVIOUS
  <2>2. n \in Nat /\ n - 1 \in Nat /\ Cardinality(U \ {Pick(U)}) = n - 1
    BY <1>1, <1>2, <1>4, <2>1
  <2>3. PICK g : g = [T \in D(n - 1) |-> Adds(g, f, T)]
    BY <1>4, <2>2
  <2> DEFINE h == [T \in D(n) |-> IF T \in D(n - 1) THEN g[T] ELSE Adds(g, f, T)]
  <2>4. \A T \in D(n - 1) : g[T] = Adds(g, f, T)
    BY <2>3
  <2>5. \A T \in D(n) : T # {} => T \ {Pick(T)} \in D(n - 1) /\ T \ {Pick(T)} \in D(n)
    BY <1>1, <1>2, <2>2
  <2>6. \A T \in D(n) : h[T] = Adds(g, f, T)
    BY <2>4
  <2>7. \A T \in D(n) : T # {} => h[T \ {Pick(T)}] = g[T \ {Pick(T)}]
    BY <2>5
  <2>8. \A T \in D(n) : h[T] = Adds(h, f, T)
    <3> HIDE DEF h, D
    <3> QED
      BY <2>6, <2>7 DEF Adds
  <2>9. h = [T \in D(n) |-> Adds(h, f, T)]
    <3>1. h = [T \in D(n) |-> h[T]]
      OBVIOUS
    <3> HIDE DEF h, D
    <3> QED
      BY <2>8, <3>1
  <2> HIDE DEF h, D
  <2> QED
    BY <2>1, <2>9
<1>5. S \in Good
  <2> HIDE DEF Good
  <2> QED
    BY <1>3, <1>4, SetsByPick
<1>6. D(Cardinality(S)) = SUBSET S
  BY <1>1
<1> HIDE DEF D
<1> QED
  BY <1>5, <1>6 DEF IsSum

(* Sums of the same are the same, and a sum of numbers is a number.        *)
LEMMA SumOfSame ==
  ASSUME NEW S, IsFiniteSet(S), NEW f, NEW g, NEW h, NEW e, IsSum(g, f, S), IsSum(h, e, S),
         \A x \in S : f[x] = e[x] /\ f[x] \in Int
  PROVE  g[S] = h[S] /\ g[S] \in Int
<1> DEFINE Good == {T \in SUBSET S : g[T] = h[T] /\ g[T] \in Int}
<1>1. \A T \in SUBSET S : g[T] = Adds(g, f, T) /\ h[T] = Adds(h, e, T)
  BY SumIs
<1>2. {} \in Good
  <2>1. {} \in SUBSET S /\ g[{}] = 0 /\ h[{}] = 0
    BY <1>1 DEF Adds
  <2> QED
    BY <2>1
<1>3. ASSUME NEW T \in SUBSET S, T # {}, T \ {Pick(T)} \in Good PROVE T \in Good
  <2>1. Pick(T) \in T
    BY <1>3 DEF Pick
  <2>2. PICK c \in T : c = Pick(T)
    BY <2>1
  <2>3. /\ g[T] = f[c] + g[T \ {c}] /\ h[T] = e[c] + h[T \ {c}]
        /\ f[c] = e[c] /\ f[c] \in Int
        /\ g[T \ {c}] = h[T \ {c}] /\ g[T \ {c}] \in Int
    BY <1>1, <1>3, <2>2 DEF Adds
  <2> QED
    BY <2>3
<1>4. SUBSET S \subseteq Good
  <2> HIDE DEF Good
  <2> QED
    BY <1>2, <1>3, SetsByPick
<1> QED
  BY <1>4

(* If one summand grows, the sum grows by as much.                         *)
LEMMA SumGrows ==
  ASSUME NEW S, IsFiniteSet(S), NEW f, NEW g, NEW h, NEW e, IsSum(g, f, S), IsSum(h, e, S),
         NEW a \in S, NEW d \in Int, \A x \in S : f[x] \in Int,
         e[a] = f[a] + d, \A x \in S \ {a} : e[x] = f[x]
  PROVE  h[S] = g[S] + d
<1> DEFINE Good == {T \in SUBSET S : g[T] \in Int /\ h[T] = IF a \in T THEN g[T] + d ELSE g[T]}
<1>1. \A T \in SUBSET S : g[T] = Adds(g, f, T) /\ h[T] = Adds(h, e, T)
  BY SumIs
<1>2. {} \in Good
  <2>1. {} \in SUBSET S /\ g[{}] = 0 /\ h[{}] = 0
    BY <1>1 DEF Adds
  <2> QED
    BY <2>1
<1>3. ASSUME NEW T \in SUBSET S, T # {}, T \ {Pick(T)} \in Good PROVE T \in Good
  <2>1. Pick(T) \in T /\ Pick(T) \in S
    BY <1>3 DEF Pick
  <2>2. PICK c \in T : c = Pick(T)
    BY <2>1
  <2>3. /\ g[T] = f[c] + g[T \ {c}] /\ h[T] = e[c] + h[T \ {c}]
        /\ f[c] \in Int /\ g[T \ {c}] \in Int
        /\ h[T \ {c}] = IF a \in T \ {c} THEN g[T \ {c}] + d ELSE g[T \ {c}]
    BY <1>1, <1>3, <2>2 DEF Adds
  <2>4. CASE c = a
    BY <2>3, <2>4
  <2>5. CASE c # a
    <3>1. e[c] = f[c]
      BY <2>5
    <3> QED
      BY <2>3, <2>5, <3>1
  <2> QED
    BY <2>4, <2>5
<1>4. SUBSET S \subseteq Good
  <2> HIDE DEF Good
  <2> QED
    BY <1>2, <1>3, SetsByPick
<1> QED
  BY <1>4

(* The sum of nothing but zeros.                                           *)
LEMMA SumOfZeros ==
  ASSUME NEW S, IsFiniteSet(S), NEW f, NEW g, IsSum(g, f, S), \A x \in S : f[x] = 0
  PROVE  g[S] = 0
<1> DEFINE Good == {T \in SUBSET S : g[T] = 0}
<1>1. \A T \in SUBSET S : g[T] = Adds(g, f, T)
  BY SumIs
<1>2. {} \in Good
  BY <1>1 DEF Adds
<1>3. ASSUME NEW T \in SUBSET S, T # {}, T \ {Pick(T)} \in Good PROVE T \in Good
  <2>1. f[Pick(T)] = 0
    BY <1>3 DEF Pick
  <2> QED
    BY <1>1, <1>3, <2>1 DEF Adds
<1>4. SUBSET S \subseteq Good
  <2> HIDE DEF Good
  <2> QED
    BY <1>2, <1>3, SetsByPick
<1> QED
  BY <1>4

(* The value of a sum, when its terms are given, and what becomes of it.   *)
SumsTo(v, f, S) == IsFiniteSet(S) /\ \E g : IsSum(g, f, S) /\ v = g[S]
Same(f, e, S) == \A x \in S : f[x] \in Int /\ e[x] = f[x]
Grows(f, e, S, a, d) ==
  /\ a \in S /\ d \in Int
  /\ \A x \in S : f[x] \in Int
  /\ e[a] = f[a] + d
  /\ \A x \in S \ {a} : e[x] = f[x]

LEMMA SameSum ==
  ASSUME NEW S, NEW f, NEW e, NEW v, NEW w, SumsTo(v, f, S), SumsTo(w, e, S), Same(f, e, S)
  PROVE  w = v /\ v \in Int
<1>1. PICK g : IsSum(g, f, S) /\ v = g[S]
  BY DEF SumsTo
<1>2. PICK h : IsSum(h, e, S) /\ w = h[S]
  BY DEF SumsTo
<1>3. g[S] = h[S] /\ g[S] \in Int
  BY <1>1, <1>2, SumOfSame DEF SumsTo, Same
<1> QED
  BY <1>1, <1>2, <1>3

LEMMA GrownSum ==
  ASSUME NEW S, NEW f, NEW e, NEW v, NEW w, NEW a, NEW d,
         SumsTo(v, f, S), SumsTo(w, e, S), Grows(f, e, S, a, d)
  PROVE  w = v + d
<1>1. PICK g : IsSum(g, f, S) /\ v = g[S]
  BY DEF SumsTo
<1>2. PICK h : IsSum(h, e, S) /\ w = h[S]
  BY DEF SumsTo
<1>3. h[S] = g[S] + d
  BY <1>1, <1>2, SumGrows DEF SumsTo, Grows
<1> QED
  BY <1>1, <1>2, <1>3

LEMMA ZeroSum ==
  ASSUME NEW S, NEW f, NEW v, SumsTo(v, f, S), \A x \in S : f[x] = 0
  PROVE  v = 0
<1>1. PICK g : IsSum(g, f, S) /\ v = g[S]
  BY DEF SumsTo
<1> QED
  BY <1>1, SumOfZeros DEF SumsTo
-----------------------------------------------------------------------------
(* The two sums of the score: over the checks of a stage, over the stages. *)
StageRange(cx) == 1..Len(cx.stages)
CheckRange(cx, s) == 1..Len(cx.stages[s].checks)
Share(cnt, pts, cx, s, c) == cnt[s][c] * pts[cx.stages[s].checks[c].dict]
Shares(cnt, pts, cx, s) == [c \in CheckRange(cx, s) |-> Share(cnt, pts, cx, s, c)]
StageSum(cnt, pts, cx, s) ==
  MapThenSumSet(LAMBDA k : cnt[s][k] * pts[cx.stages[s].checks[k].dict], 1..Len(cx.stages[s].checks))
StageSums(cnt, pts, cx) == [s \in StageRange(cx) |-> StageSum(cnt, pts, cx, s)]
ScoreSum(cnt, pts, cx) == MapThenSumSet(LAMBDA s : StageSum(cnt, pts, cx, s), 1..Len(cx.stages))
Finite(cx) == Len(cx.stages) \in Nat /\ \A s \in StageRange(cx) : Len(cx.stages[s].checks) \in Nat

LEMMA StageSumIs ==
  ASSUME NEW cnt, NEW pts, NEW cx, Finite(cx), NEW s \in StageRange(cx)
  PROVE  SumsTo(StageSum(cnt, pts, cx, s), Shares(cnt, pts, cx, s), CheckRange(cx, s))
<1> DEFINE S == CheckRange(cx, s)
           f == Shares(cnt, pts, cx, s)
           e(g, T) == IF T = {} THEN 0
                      ELSE cnt[s][CHOOSE x \in T : TRUE] * pts[cx.stages[s].checks[CHOOSE x \in T : TRUE].dict]
                           + g[T \ {CHOOSE x \in T : TRUE}]
           IsIt(g) == g = [T \in SUBSET S |-> e(g, T)]
<1>1. IsFiniteSet(S)
  <2>1. Len(cx.stages[s].checks) \in Int
    BY DEF Finite
  <2> QED
    BY <2>1, FS_Interval DEF CheckRange
<1>2. StageSum(cnt, pts, cx, s) = (CHOOSE g : IsIt(g))[S]
  BY DEF StageSum, MapThenSumSet, MapThenFoldSet, CheckRange
<1>3. ASSUME NEW g PROVE IsIt(g) <=> IsSum(g, f, S)
  <2>1. ASSUME NEW T \in SUBSET S PROVE e(g, T) = Adds(g, f, T)
    <3>1. CASE T = {}
      BY <3>1 DEF Adds
    <3>2. CASE T # {}
      <4>1. Pick(T) \in S /\ Pick(T) = CHOOSE x \in T : TRUE
        BY <3>2 DEF Pick
      <4>2. f[Pick(T)] = Share(cnt, pts, cx, s, Pick(T))
        BY <4>1 DEF Shares
      <4> HIDE DEF f
      <4> QED
        BY <3>2, <4>1, <4>2 DEF Adds, Share
    <3> QED
      BY <3>1, <3>2
  <2> HIDE DEF e
  <2> QED
    BY <2>1 DEF IsSum
<1> HIDE DEF IsIt
<1>4. \E g : IsIt(g)
  <2> HIDE DEF f, S
  <2> QED
    BY <1>1, <1>3, SumExists
<1>5. PICK h : h = CHOOSE g : IsIt(g)
  OBVIOUS
<1>6. IsIt(h)
  BY <1>4, <1>5
<1> QED
  BY <1>1, <1>2, <1>3, <1>5, <1>6 DEF SumsTo

LEMMA ScoreSumIs ==
  ASSUME NEW cnt, NEW pts, NEW cx, Finite(cx)
  PROVE  SumsTo(ScoreSum(cnt, pts, cx), StageSums(cnt, pts, cx), StageRange(cx))
<1> DEFINE S == StageRange(cx)
           f == StageSums(cnt, pts, cx)
           e(g, T) == IF T = {} THEN 0
                      ELSE StageSum(cnt, pts, cx, CHOOSE x \in T : TRUE) + g[T \ {CHOOSE x \in T : TRUE}]
           IsIt(g) == g = [T \in SUBSET S |-> e(g, T)]
<1>1. IsFiniteSet(S)
  BY FS_Interval DEF Finite, StageRange
<1>2. ScoreSum(cnt, pts, cx) = (CHOOSE g : IsIt(g))[S]
  BY DEF ScoreSum, MapThenSumSet, MapThenFoldSet, StageRange
<1>3. ASSUME NEW g PROVE IsIt(g) <=> IsSum(g, f, S)
  <2>1. ASSUME NEW T \in SUBSET S PROVE e(g, T) = Adds(g, f, T)
    <3>1. CASE T = {}
      BY <3>1 DEF Adds
    <3>2. CASE T # {}
      <4>1. Pick(T) \in S /\ Pick(T) = CHOOSE x \in T : TRUE
        BY <3>2 DEF Pick
      <4>2. f[Pick(T)] = StageSum(cnt, pts, cx, Pick(T))
        BY <4>1 DEF StageSums
      <4> HIDE DEF f
      <4> QED
        BY <3>2, <4>1, <4>2 DEF Adds
    <3> QED
      BY <3>1, <3>2
  <2> HIDE DEF e
  <2> QED
    BY <2>1 DEF IsSum
<1> HIDE DEF IsIt
<1>4. \E g : IsIt(g)
  <2> HIDE DEF f, S
  <2> QED
    BY <1>1, <1>3, SumExists
<1>5. PICK h : h = CHOOSE g : IsIt(g)
  OBVIOUS
<1>6. IsIt(h)
  BY <1>4, <1>5
<1> QED
  BY <1>1, <1>2, <1>3, <1>5, <1>6 DEF SumsTo

(* The score when nothing has been counted, when no share changes, and     *)
(* when one grows.                                                         *)
LEMMA ScoreOfNothing ==
  ASSUME NEW cnt, NEW pts, NEW cx, Finite(cx),
         \A s \in StageRange(cx) : \A c \in CheckRange(cx, s) : Share(cnt, pts, cx, s, c) = 0
  PROVE  ScoreSum(cnt, pts, cx) = 0
<1>1. ASSUME NEW s \in StageRange(cx) PROVE StageSum(cnt, pts, cx, s) = 0
  <2>1. \A c \in CheckRange(cx, s) : Shares(cnt, pts, cx, s)[c] = 0
    BY DEF Shares
  <2> QED
    BY <2>1, StageSumIs, ZeroSum
<1>2. \A s \in StageRange(cx) : StageSums(cnt, pts, cx)[s] = 0
  BY <1>1 DEF StageSums
<1> QED
  BY <1>2, ScoreSumIs, ZeroSum

LEMMA StageOfSame ==
  ASSUME NEW cnt, NEW pts, NEW cnt2, NEW pts2, NEW cx, Finite(cx), NEW s \in StageRange(cx),
         \A c \in CheckRange(cx, s) :
           Share(cnt, pts, cx, s, c) \in Int /\ Share(cnt2, pts2, cx, s, c) = Share(cnt, pts, cx, s, c)
  PROVE  StageSum(cnt2, pts2, cx, s) = StageSum(cnt, pts, cx, s) /\ StageSum(cnt, pts, cx, s) \in Int
<1>1. Same(Shares(cnt, pts, cx, s), Shares(cnt2, pts2, cx, s), CheckRange(cx, s))
  BY DEF Same, Shares
<1>2. /\ SumsTo(StageSum(cnt, pts, cx, s), Shares(cnt, pts, cx, s), CheckRange(cx, s))
      /\ SumsTo(StageSum(cnt2, pts2, cx, s), Shares(cnt2, pts2, cx, s), CheckRange(cx, s))
  BY StageSumIs
<1> QED
  BY <1>1, <1>2, SameSum

LEMMA ScoreOfSame ==
  ASSUME NEW cnt, NEW pts, NEW cnt2, NEW pts2, NEW cx, Finite(cx),
         \A s \in StageRange(cx) : \A c \in CheckRange(cx, s) :
           Share(cnt, pts, cx, s, c) \in Int /\ Share(cnt2, pts2, cx, s, c) = Share(cnt, pts, cx, s, c)
  PROVE  ScoreSum(cnt2, pts2, cx) = ScoreSum(cnt, pts, cx)
<1>1. \A s \in StageRange(cx) :
        StageSum(cnt2, pts2, cx, s) = StageSum(cnt, pts, cx, s) /\ StageSum(cnt, pts, cx, s) \in Int
  BY StageOfSame
<1>2. Same(StageSums(cnt, pts, cx), StageSums(cnt2, pts2, cx), StageRange(cx))
  BY <1>1 DEF Same, StageSums
<1>3. /\ SumsTo(ScoreSum(cnt, pts, cx), StageSums(cnt, pts, cx), StageRange(cx))
      /\ SumsTo(ScoreSum(cnt2, pts2, cx), StageSums(cnt2, pts2, cx), StageRange(cx))
  BY ScoreSumIs
<1> QED
  BY <1>2, <1>3, SameSum

LEMMA ScoreGrows ==
  ASSUME NEW cnt, NEW pts, NEW cnt2, NEW pts2, NEW cx, Finite(cx),
         NEW t \in StageRange(cx), NEW a \in CheckRange(cx, t), NEW d \in Int,
         \A s \in StageRange(cx) : \A c \in CheckRange(cx, s) :
           /\ Share(cnt, pts, cx, s, c) \in Int
           /\ s # t \/ c # a => Share(cnt2, pts2, cx, s, c) = Share(cnt, pts, cx, s, c),
         Share(cnt2, pts2, cx, t, a) = Share(cnt, pts, cx, t, a) + d
  PROVE  ScoreSum(cnt2, pts2, cx) = ScoreSum(cnt, pts, cx) + d
<1>1. StageSum(cnt2, pts2, cx, t) = StageSum(cnt, pts, cx, t) + d
  <2>1. Grows(Shares(cnt, pts, cx, t), Shares(cnt2, pts2, cx, t), CheckRange(cx, t), a, d)
    BY DEF Grows, Shares
  <2>2. /\ SumsTo(StageSum(cnt, pts, cx, t), Shares(cnt, pts, cx, t), CheckRange(cx, t))
        /\ SumsTo(StageSum(cnt2, pts2, cx, t), Shares(cnt2, pts2, cx, t), CheckRange(cx, t))
    BY StageSumIs
  <2> QED
    BY <2>1, <2>2, GrownSum
<1>2. ASSUME NEW s \in StageRange(cx)
      PROVE  /\ StageSum(cnt, pts, cx, s) \in Int
             /\ s # t => StageSum(cnt2, pts2, cx, s) = StageSum(cnt, pts, cx, s)
  <2>1. StageSum(cnt, pts, cx, s) \in Int
    BY StageOfSame
  <2>2. ASSUME s # t PROVE StageSum(cnt2, pts2, cx, s) = StageSum(cnt, pts, cx, s)
    BY <2>2, StageOfSame
  <2> QED
    BY <2>1, <2>2
<1>3. Grows(StageSums(cnt, pts, cx), StageSums(cnt2, pts2, cx), StageRange(cx), t, d)
  BY <1>1, <1>2 DEF Grows, StageSums
<1>4. /\ SumsTo(ScoreSum(cnt, pts, cx), StageSums(cnt, pts, cx), StageRange(cx))
      /\ SumsTo(ScoreSum(cnt2, pts2, cx), StageSums(cnt2, pts2, cx), StageRange(cx))
  BY ScoreSumIs
<1> QED
  BY <1>3, <1>4, GrownSum
-----------------------------------------------------------------------------
(* A dict on the list, once the list is complete, has answered, has a job, *)
(* or is still to be called, unless it was asked in vain.  If no dict was, *)
(* the checks that were counted have dicts that have answered, which no    *)
(* later step changes, and the score is what these answers add up to.      *)
CallPhases == {"call", "push", "wait", "blocked", "score"}
DictsCalled ==
  pc \in CallPhases =>
    \A d \in Elements(dicts) : \/ Answered(d) \/ jobs[d] = "queued"
                               \/ pc \in {"call", "push"} /\ d \in ToCall
Backed == \A s \in 1..nstages : \A c \in 1..Len(Checks(s)) : counted[s][c] # 0 => ready[Checks(s)[c].dict]
ScoreRight == score = ScoreSum(counted, points, ctx)
SumRight == pc \in InRequest /\ unanswered = {} => Backed /\ ScoreRight

LEMMA CalledFrame ==
  ASSUME Inv, DictsCalled,
         \A d \in Dicts : Answered(d) => Answered(d)',
         \A d \in Dicts : jobs[d] = "queued" => Answered(d)' \/ jobs'[d] = "queued",
         UNCHANGED dicts,
         \/ pc' = pc /\ i' = i
         \/ pc' = pc /\ pc \notin {"call", "push"}
         \/ pc = "call" /\ pc' = "push" /\ i' = i
         \/ pc = "call" /\ pc' = "wait" /\ ToCall = {}
         \/ pc \in {"wait", "blocked", "score"} /\ pc' \in {"wait", "blocked", "score"}
  PROVE  DictsCalled'
<1> SUFFICES ASSUME pc' \in CallPhases, NEW d \in Elements(dicts)
             PROVE  \/ Answered(d)' \/ jobs'[d] = "queued"
                    \/ pc' \in {"call", "push"} /\ d \in ToCall'
  <2>1. Elements(dicts)' = Elements(dicts)
    BY DEF Elements
  <2> QED
    BY <2>1 DEF DictsCalled
<1>1. d \in Dicts
  BY DEF Elements, Inv, TypeInv, TypeOK
<1>2. \/ Answered(d) \/ jobs[d] = "queued"
      \/ pc \in {"call", "push"} /\ d \in ToCall
  BY DEF DictsCalled, CallPhases
<1>3. pc \in {"call", "push"} /\ pc' \in {"call", "push"} => ToCall' = ToCall
  BY DEF ToCall
<1> QED
  BY <1>1, <1>2, <1>3

LEMMA CalledCall ==
  ASSUME Inv, DictsCalled, CallSync \/ CallFails \/ CallPushed \/ CallRefused
  PROVE  DictsCalled'
<1>1. /\ pc \in {"call", "push"} /\ pc' = "call" /\ i' = i + 1
      /\ i \in 1..Len(dicts) /\ UNCHANGED dicts /\ Called \in Dicts
  BY DEF Inv, TypeInv, TypeOK, AsyncPushed, CallSync, CallFails, CallPushed, CallRefused,
         Calling, Called, Goto, Unchanged_Call
<1>. PICK e \in Dicts : e = Called
  BY <1>1
<1>2. Answered(e)' \/ jobs'[e] = "queued"
  BY <1>1 DEF CallSync, CallFails, CallPushed, CallRefused, Answer, Answered, Inv, TypeInv, TypeOK
<1>3. \A d \in Dicts : (Answered(d) => Answered(d)') /\ (jobs[d] = "queued" => jobs'[d] = "queued")
  <2>1. Next /\ ~Reset /\ ~Begin
    BY <1>1 DEF Next, Worker, Reset, Begin
  <2>2. \A d \in Dicts : jobs[d] = "queued" => jobs'[d] = "queued"
    BY DEF CallSync, CallFails, CallPushed, CallRefused, async, Inv, TypeInv, TypeOK
  <2> QED
    BY <2>1, <2>2, AnsweredStays DEF Inv
<1>4. \A d \in ToCall : d = e \/ d \in ToCall'
  <2>1. \A k \in i..Len(dicts) : k = i \/ k \in (i + 1)..Len(dicts)
    BY <1>1
  <2> QED
    BY <1>1, <2>1 DEF ToCall, Called
<1>5. Elements(dicts)' = Elements(dicts) /\ Elements(dicts) \subseteq Dicts
  BY <1>1 DEF Elements, Inv, TypeInv, TypeOK
<1>6. ASSUME NEW d \in Elements(dicts)
      PROVE  Answered(d)' \/ jobs'[d] = "queued" \/ d \in ToCall'
  <2>1. Answered(d) \/ jobs[d] = "queued" \/ d \in ToCall
    BY <1>1, <1>6 DEF DictsCalled, CallPhases
  <2> QED
    BY <1>2, <1>3, <1>4, <1>5, <2>1
<1> QED
  BY <1>1, <1>5, <1>6 DEF DictsCalled

LEMMA CalledNext ==
  ASSUME Inv, DictsCalled, Next
  PROVE  DictsCalled'
<1> USE DEF Unchanged_Collect, Unchanged_Call, Unchanged_Job, async, loop, Goto, CallPhases
<1>1. ASSUME ~Reset, ~Begin PROVE \A d \in Dicts : Answered(d) => Answered(d)'
  BY <1>1, AnsweredStays DEF Inv
<1>2. CASE CallSync \/ CallFails \/ CallPushed \/ CallRefused
  BY <1>2, CalledCall
<1>3. CASE pc' \notin CallPhases
  BY <1>3 DEF DictsCalled
<1>4. CASE EndNext
  <2>1. pc' = "call" /\ i' = 1 /\ UNCHANGED dicts
    BY <1>4 DEF EndNext
  <2>2. Elements(dicts)' = ToCall'
    BY <2>1 DEF Elements, ToCall
  <2> QED
    BY <2>1, <2>2 DEF DictsCalled
<1>5. CASE CallLock \/ EndCalls \/ Wait \/ SpuriousWakeup \/ Score
  <2>1. ~Reset /\ ~Begin /\ UNCHANGED <<jobs, dicts>>
    BY <1>5 DEF CallLock, Calling, EndCalls, Wait, SpuriousWakeup, Score, Scoring, Reset, Begin
  <2>2. \/ pc = "call" /\ pc' = "push" /\ i' = i
        \/ pc = "call" /\ pc' = "wait" /\ i > Len(dicts)
        \/ pc \in {"wait", "blocked", "score"} /\ pc' \in {"wait", "blocked", "score"}
    BY <1>5 DEF CallLock, Calling, EndCalls, Wait, SpuriousWakeup, Score, Scoring
  <2>3. i > Len(dicts) => ToCall = {}
    BY DEF ToCall, Inv, TypeInv, TypeOK
  <2> QED
    BY <1>1, <2>1, <2>2, <2>3, CalledFrame
<1>6. ASSUME NEW d \in Dicts, Job(d) PROVE DictsCalled'
  <2>1. ~Reset /\ ~Begin
    BY <1>6 DEF Job, JobCheck, JobUnlock, Reset, Begin, Inv, WriterInv, Settled, Outstanding, ReadsResult
  <2>2. \A e \in Dicts : jobs[e] = "queued" => Answered(e)' \/ jobs'[e] = "queued"
    <3>1. \A e \in Dicts \ {d} : jobs'[e] = jobs[e]
      BY <1>6 DEF Job, JobCheck, JobUnlock, Inv, TypeInv, TypeOK
    <3>2. jobs[d] = "queued" => Answered(d)'
      BY <1>6 DEF Job, JobCheck, JobUnlock, Answer, Answered, Inv, TypeInv, TypeOK
    <3> QED
      BY <3>1, <3>2
  <2>3. pc' = pc /\ i' = i /\ UNCHANGED dicts
    BY <1>6 DEF Job, JobCheck, JobUnlock
  <2> QED
    BY <1>1, <2>1, <2>2, <2>3, CalledFrame
<1>7. CASE Signal
  <2>1. /\ ~Reset /\ ~Begin /\ UNCHANGED <<jobs, dicts, i>>
        /\ pc' = pc \/ (pc = "blocked" /\ pc' = "wait")
    BY <1>7 DEF Signal, Reset, Begin
  <2> QED
    BY <1>1, <2>1, CalledFrame
<1>8. CASE Begin \/ BeginFails \/ BeginCrashes \/ BeginStage \/ EndStages \/ StagePanics \/ CheckPanics \/ EndScores
           \/ CollectCheck \/ EndChecks \/ CollectNext \/ CollectNextCheck \/ Reply \/ UpdateStats \/ Reset \/ RunDangling
  <2>1. pc' \notin CallPhases
    BY <1>8 DEF Begin, BeginFails, BeginCrashes, BeginStage, EndStages, StagePanics, CheckPanics, Panic,
       EndScores, CollectCheck, EndChecks, CollectNext, CollectNextCheck, LookingAhead, Reply, UpdateStats,
       Reset, RunDangling
  <2> QED
    BY <1>3, <2>1
<1> QED
  BY <1>2, <1>4, <1>5, <1>6, <1>7, <1>8 DEF Next, Worker

LEMMA CountBits ==
  ASSUME Inv, CountInv, pc \in InRequest, NEW s \in 1..nstages, NEW c \in 1..Len(Checks(s))
  PROVE  counted[s][c] \in {0, 1}
<1>1. stage \in Nat /\ nstages \in Nat /\ i \in Nat /\ c \in Nat
  BY ContextFacts, CheckTypes DEF Inv, TypeInv, TypeOK
<1>2. CASE s < stage
  BY <1>2 DEF CountInv, Past, Final
<1>3. CASE s > stage
  BY <1>3 DEF CountInv, Future
<1>4. CASE s = stage
  <2>1. CASE pc = "stage"
    BY <1>4, <2>1 DEF CountInv, Future
  <2>2. CASE pc = "reply"
    BY <1>1, <1>4, <2>2 DEF CountInv, Past
  <2>3. CASE pc \in InStage
    BY <1>4, <2>3 DEF CountInv, Present, Final, Looked
  <2> QED
    BY <2>1, <2>2, <2>3 DEF InRequest
<1> QED
  BY <1>1, <1>2, <1>3, <1>4

LEMMA Ranges ==
  ASSUME Inv
  PROVE  /\ Finite(ctx) /\ StageRange(ctx) = 1..nstages
         /\ \A s \in 1..nstages : CheckRange(ctx, s) = 1..Len(Checks(s))
         /\ \A cnt, pts, s, c : Share(cnt, pts, ctx, s, c) = cnt[s][c] * pts[Checks(s)[c].dict]
<1>1. StageRange(ctx) = 1..nstages /\ \A s : CheckRange(ctx, s) = 1..Len(Checks(s))
  BY DEF StageRange, CheckRange, nstages, Checks
<1>2. nstages \in Nat /\ \A s \in 1..nstages : Len(Checks(s)) \in Nat
  BY ContextFacts DEF Inv, TypeInv, TypeOK
<1>3. Finite(ctx)
  BY <1>1, <1>2 DEF Finite, nstages, Checks
<1>4. \A cnt, pts, s, c : Share(cnt, pts, ctx, s, c) = cnt[s][c] * pts[Checks(s)[c].dict]
  BY DEF Share, Checks
<1> QED
  BY <1>1, <1>3, <1>4

LEMMA PointsIntNext ==
  ASSUME Inv, [Next]_vars
  PROVE  \A d \in Dicts : points'[d] \in Int
<1>1. TypeInv'
  BY TypeNext DEF Inv
<1>2. points' \in [Dicts -> Points \cup {0}]
  BY <1>1 DEF TypeInv, TypeOK
<1>3. Points \cup {0} \subseteq Int
  BY EvaluationAssumption
<1> QED
  BY <1>2, <1>3

(* A step that counts nothing leaves the sum alone: what was counted has   *)
(* been answered, and answers stand.                                       *)
LEMMA SumFrame ==
  ASSUME Inv, CountInv, SumRight, [Next]_vars, Stands, UNCHANGED <<ctx, score, counted>>,
         unanswered \subseteq unanswered', pc \in InRequest
  PROVE  SumRight'
<1> SUFFICES ASSUME unanswered' = {} PROVE Backed' /\ ScoreRight'
  BY DEF SumRight
<1>1. Backed /\ ScoreRight
  BY DEF SumRight
<1>2. UNCHANGED nstages /\ \A s \in 1..nstages : UNCHANGED Checks(s)
  BY DEF nstages, Checks
<1>3. \A s \in 1..nstages : \A c \in 1..Len(Checks(s)) : Checks(s)[c].dict \in Dicts
  BY CheckTypes DEF Inv
<1>4. Backed'
  BY <1>1, <1>2, <1>3 DEF Backed, Stands
<1>5. ASSUME NEW s \in StageRange(ctx), NEW c \in CheckRange(ctx, s)
      PROVE  /\ Share(counted, points, ctx, s, c) \in Int
             /\ Share(counted', points', ctx, s, c) = Share(counted, points, ctx, s, c)
  <2>1. s \in 1..nstages /\ c \in 1..Len(Checks(s))
    BY <1>5, Ranges
  <2>2. PICK d \in Dicts : d = Checks(s)[c].dict
    BY <1>3, <2>1
  <2>3. points[d] \in Int /\ points'[d] \in Int
    BY PointsInt, PointsIntNext DEF Inv, TypeInv
  <2>4. /\ Share(counted, points, ctx, s, c) = counted[s][c] * points[d]
        /\ Share(counted', points', ctx, s, c) = counted[s][c] * points'[d]
    BY <2>2, Ranges
  <2>5. counted[s][c] \in {0, 1}
    BY <2>1, CountBits
  <2>6. counted[s][c] = 1 => points'[d] = points[d]
    BY <1>1, <2>1, <2>2 DEF Backed, Stands
  <2> QED
    BY <2>3, <2>4, <2>5, <2>6
<1>6. ScoreSum(counted', points', ctx) = ScoreSum(counted, points, ctx)
  <2>1. PICK cnt, pts, cx : cnt = counted' /\ cnt = counted /\ pts = points' /\ cx = ctx
    OBVIOUS
  <2>2. Finite(cx)
    BY <2>1, Ranges
  <2>3. \A s \in StageRange(cx) : \A c \in CheckRange(cx, s) :
          /\ Share(cnt, points, cx, s, c) \in Int
          /\ Share(cnt, pts, cx, s, c) = Share(cnt, points, cx, s, c)
    BY <1>5, <2>1
  <2>4. ScoreSum(cnt, pts, cx) = ScoreSum(cnt, points, cx)
    BY <2>2, <2>3, ScoreOfSame
  <2> QED
    BY <2>1, <2>4
<1> QED
  BY <1>1, <1>4, <1>6 DEF ScoreRight

LEMMA SumBegins ==
  ASSUME Inv, Begin
  PROVE  SumRight'
<1>1. counted' = Tally /\ score' = 0 /\ UNCHANGED <<ctx, points>>
  BY DEF Begin, result
<1>2. UNCHANGED nstages /\ \A s \in 1..nstages : UNCHANGED Checks(s)
  BY <1>1 DEF nstages, Checks
<1>3. \A s \in 1..nstages : \A c \in 1..Len(Checks(s)) : counted'[s][c] = 0
  BY <1>1 DEF Tally
<1>4. ASSUME NEW s \in StageRange(ctx), NEW c \in CheckRange(ctx, s)
      PROVE  Share(counted', points, ctx, s, c) = 0
  <2>1. s \in 1..nstages /\ c \in 1..Len(Checks(s))
    BY <1>4, Ranges
  <2>2. PICK d \in Dicts : d = Checks(s)[c].dict
    BY <2>1, CheckTypes DEF Inv
  <2>3. points[d] \in Int /\ counted'[s][c] = 0
    BY <1>3, <2>1, PointsInt DEF Inv, TypeInv
  <2>4. Share(counted', points, ctx, s, c) = counted'[s][c] * points[d]
    BY <2>2, Ranges
  <2> QED
    BY <2>3, <2>4
<1>5. ScoreSum(counted', points, ctx) = 0
  BY <1>4, Ranges, ScoreOfNothing
<1> QED
  BY <1>1, <1>2, <1>3, <1>5 DEF SumRight, Backed, ScoreRight

(* A check whose dict has answered, and that was not counted before.       *)
LEMMA SumCounts ==
  ASSUME Inv, CountInv, SumRight, pc \in InRequest,
         NEW t \in 1..nstages, NEW a \in 1..Len(Checks(t)), Count(t, a), counted[t][a] = 0,
         unanswered = {} => ready[Checks(t)[a].dict],
         score' = score + points[Checks(t)[a].dict], UNCHANGED <<ctx, ready, points, unanswered>>
  PROVE  SumRight'
<1> SUFFICES ASSUME unanswered = {} PROVE Backed' /\ ScoreRight'
  BY DEF SumRight
<1>1. Backed /\ ScoreRight
  BY DEF SumRight
<1>2. UNCHANGED nstages /\ \A s \in 1..nstages : UNCHANGED Checks(s)
  BY DEF nstages, Checks
<1>3. /\ counted'[t][a] = 1
      /\ \A s \in 1..nstages : \A c \in 1..Len(Checks(s)) : s # t \/ c # a => counted'[s][c] = counted[s][c]
  BY CountStep DEF CountInv
<1>4. Backed'
  BY <1>1, <1>2, <1>3 DEF Backed
<1>5. PICK d \in Int : d = points[Checks(t)[a].dict]
  BY CheckTypes, PointsInt DEF Inv, TypeInv
<1>6. ASSUME NEW s \in StageRange(ctx), NEW c \in CheckRange(ctx, s)
      PROVE  /\ Share(counted, points, ctx, s, c) \in Int
             /\ s # t \/ c # a => Share(counted', points, ctx, s, c) = Share(counted, points, ctx, s, c)
  <2>1. s \in 1..nstages /\ c \in 1..Len(Checks(s))
    BY <1>6, Ranges
  <2>2. PICK e \in Dicts : e = Checks(s)[c].dict
    BY <2>1, CheckTypes DEF Inv
  <2>3. points[e] \in Int /\ counted[s][c] \in {0, 1}
    BY <2>1, PointsInt, CountBits DEF Inv, TypeInv
  <2>4. /\ Share(counted, points, ctx, s, c) = counted[s][c] * points[e]
        /\ Share(counted', points, ctx, s, c) = counted'[s][c] * points[e]
    BY <2>2, Ranges
  <2> QED
    BY <1>3, <2>1, <2>3, <2>4
<1>7. Share(counted', points, ctx, t, a) = Share(counted, points, ctx, t, a) + d
  <2>1. /\ Share(counted, points, ctx, t, a) = counted[t][a] * d
        /\ Share(counted', points, ctx, t, a) = counted'[t][a] * d
    BY <1>5, Ranges
  <2> QED
    BY <1>3, <2>1
<1>8. ScoreSum(counted', points, ctx) = ScoreSum(counted, points, ctx) + d
  <2>1. t \in StageRange(ctx) /\ a \in CheckRange(ctx, t) /\ Finite(ctx)
    BY Ranges
  <2> QED
    BY <1>6, <1>7, <2>1, ScoreGrows
<1> QED
  BY <1>1, <1>4, <1>5, <1>8 DEF ScoreRight

LEMMA SumCollects ==
  ASSUME Inv, CountInv, SumRight, CollectCheck
  PROVE  SumRight'
<1>1. pc = "checks" /\ UNCHANGED <<ctx, ready, points, unanswered>> /\ Stands /\ [Next]_vars
  BY DEF CollectCheck, Unchanged_Collect, result, Stands, Next, Worker
<1>2. CASE UNCHANGED verdict
  BY <1>1, <1>2, SumFrame DEF verdict, InRequest, InStage
<1>3. CASE CollectScores
  <2>1. PICK s \in 1..nstages : s = stage
    BY <1>1, ContextFacts DEF Inv, TypeInv, TypeOK, InLoop
  <2>2. i \in 1..Len(Checks(s)) /\ i \in Nat
    BY <2>1, CheckTypes DEF CollectCheck, Inv, TypeInv, TypeOK
  <2>3. PICK c \in 1..Len(Checks(s)) : c = i
    BY <2>2
  <2>4. counted[s][c] = 0
    BY <1>1, <2>1, <2>2, <2>3 DEF CountInv, Present, InStage
  <2>5. Count(s, c) /\ ready[Checks(s)[c].dict] /\ score' = score + points[Checks(s)[c].dict]
    BY <1>3, <2>1, <2>3 DEF CollectScores
  <2> QED
    BY <1>1, <2>4, <2>5, SumCounts DEF InRequest, InStage
<1> QED
  BY <1>2, <1>3 DEF CollectCheck, CollectAppends

(* The list is scored when its jobs are through: those that were not asked *)
(* in vain have answered.                                                  *)
LEMMA SumScores ==
  ASSUME Inv, CountInv, DictsCalled, SumRight, Score
  PROVE  SumRight'
<1>1. pc = "score" /\ UNCHANGED <<ctx, ready, points, unanswered>> /\ Stands /\ [Next]_vars
  BY DEF Score, Scoring, Unchanged_Collect, result, Stands, Next, Worker
<1>2. CASE UNCHANGED verdict
  BY <1>1, <1>2, SumFrame DEF verdict, InRequest, InStage
<1>3. CASE ~UNCHANGED verdict
  <2>1. PICK s \in 1..nstages : s = stage
    BY <1>1, ContextFacts DEF Score, Scoring, Inv, TypeInv, TypeOK, InLoop
  <2>2. i \in 1..Len(Checks(s)) /\ i \in Nat
    BY <2>1, CheckTypes DEF Score, Scoring, Inv, TypeInv, TypeOK
  <2>3. PICK c \in 1..Len(Checks(s)) : c = i
    BY <2>2
  <2>4. /\ Checks(s)[c].dict \in Elements(dicts)
        /\ Count(s, c) /\ score' = score + points[Checks(s)[c].dict]
    BY <1>3, <2>1, <2>3 DEF Score
  <2>5. counted[s][c] = 0
    <3>1. Looked(s, c) /\ Free(s, c)
      BY <1>1, <2>1, <2>2, <2>3 DEF CountInv, Present, InStage
    <3> QED
      BY <1>1, <2>4, <3>1 DEF Looked, Free
  <2>6. unanswered = {} => ready[Checks(s)[c].dict]
    <3>1. Checks(s)[c].dict \in Dicts
      BY CheckTypes DEF Inv
    <3>2. jobs[Checks(s)[c].dict] = "none"
      BY <1>1, <3>1 DEF Inv, WriterInv, Settled, Outstanding, ReadsResult
    <3> QED
      BY <1>1, <2>4, <3>2 DEF DictsCalled, CallPhases, Answered
  <2> QED
    BY <1>1, <2>4, <2>5, <2>6, SumCounts DEF InRequest, InStage
<1> QED
  BY <1>2, <1>3

LEMMA SumNext ==
  ASSUME Inv, CountInv, DictsCalled, SumRight, Next
  PROVE  SumRight'
<1> USE DEF Unchanged_Collect, Unchanged_Call, Unchanged_Job, loop, verdict, Goto, InRequest, InStage
<1>1. CASE Begin \/ CollectCheck \/ Score
  BY <1>1, SumBegins, SumCollects, SumScores
<1>2. CASE BeginFails \/ BeginCrashes \/ StagePanics \/ CheckPanics \/ RunDangling
           \/ Reply \/ UpdateStats \/ Reset
  <2>1. pc' \notin InRequest
    BY <1>2 DEF BeginFails, BeginCrashes, StagePanics, CheckPanics, Panic, RunDangling, Reply, UpdateStats, Reset
  <2> QED
    BY <2>1 DEF SumRight
<1>3. ASSUME UNCHANGED <<ctx, score, counted>>, unanswered \subseteq unanswered',
             pc' \in InRequest => pc \in InRequest
      PROVE  SumRight'
  <2>1. CASE pc \in InRequest
    <3>1. Stands
      BY <2>1, AnswersStep
    <3> QED
      BY <1>3, <2>1, <3>1, SumFrame
  <2>2. CASE pc' \notin InRequest
    BY <2>2 DEF SumRight
  <2> QED
    BY <1>3, <2>1, <2>2
<1>4. CASE BeginStage \/ EndStages \/ EndChecks \/ CollectNext \/ CollectNextCheck \/ EndNext \/ EndScores
  <2>1. UNCHANGED <<ctx, score, counted, unanswered>> /\ pc \in InRequest
    BY <1>4 DEF BeginStage, EndStages, EndChecks, CollectNext, CollectNextCheck, LookingAhead, EndNext, EndScores
  <2> QED
    BY <1>3, <2>1
<1>5. CASE CallSync \/ CallFails \/ CallLock \/ CallPushed \/ CallRefused \/ EndCalls \/ Wait \/ SpuriousWakeup
  <2>1. UNCHANGED <<ctx, score, counted>> /\ unanswered \subseteq unanswered' /\ pc \in InRequest
    BY <1>5 DEF CallSync, CallFails, CallLock, Calling, CallPushed, CallRefused, EndCalls, Wait,
       SpuriousWakeup, Answer
  <2> QED
    BY <1>3, <2>1
<1>6. CASE Signal \/ \E d \in Dicts : Job(d)
  <2>1. /\ UNCHANGED <<ctx, score, counted>> /\ unanswered \subseteq unanswered'
        /\ pc' = pc \/ pc = "blocked"
    BY <1>6 DEF Signal, Job, JobCheck, JobUnlock, Answer
  <2> QED
    BY <1>3, <2>1
<1> QED
  BY <1>1, <1>2, <1>4, <1>5, <1>6 DEF Next, Worker

(* If every dict that was asked has answered, the score the worker replies *)
(* with is the sum of what the dicts of the counted checks answered: for   *)
(* any stages, checks and points, no answer is added before it was written *)
(* (the jobs are waited for), none twice, and none is changed after it was *)
(* added.                                                                  *)
THEOREM SumSafety == Spec => []ScoreIsSum
<1>1. ASSUME Init PROVE DictsCalled /\ SumRight
  BY <1>1 DEF Init, DictsCalled, CallPhases, SumRight, InRequest, InStage
<1>2. ASSUME Inv, CountInv, DictsCalled, SumRight, [Next]_vars PROVE DictsCalled' /\ SumRight'
  <2>1. CASE Next
    BY <1>2, <2>1, CalledNext, SumNext
  <2>2. CASE UNCHANGED vars
    <3>1. UNCHANGED <<ctx, pc, i, dicts, jobs, ready, points, unanswered, score, counted>>
      BY <2>2 DEF vars, loop, result, async, verdict
    <3>2. DictsCalled'
      BY <1>2, <3>1, CalledFrame DEF Answered
    <3>3. SumRight'
      <4>1. UNCHANGED <<nstages, Backed>>
        BY <3>1 DEF nstages, Checks, Backed
      <4> QED
        BY <1>2, <3>1, <4>1 DEF SumRight, ScoreRight
    <3> QED
      BY <3>2, <3>3
  <2> QED
    BY <1>2, <2>1, <2>2
<1>3. ASSUME SumRight PROVE ScoreIsSum
  <2> SUFFICES ASSUME pc = "reply", unanswered = {} PROVE ScoreIsSum
    BY DEF ScoreIsSum
  <2>1. score = ScoreSum(counted, points, ctx)
    BY <1>3 DEF SumRight, ScoreRight, InRequest
  <2> QED
    BY <2>1 DEF ScoreIsSum, ScoreSum, StageSum, Checks, nstages
<1> QED
  BY <1>1, <1>2, <1>3, InvAlways, CountAlways, PTL DEF Spec
=============================================================================
