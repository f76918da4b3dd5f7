----------------------------- MODULE Evaluation -----------------------------
(***************************************************************************)
(* How a worker thread evaluates a request: vt_worker of src/worker.c, the *)
(* result it collects (src/result.c) and the dicts that answer from a pool *)
(* of their own (vt_async_dict_check and _worker of src/dict.c).           *)
(*                                                                         *)
(* The request and the result belong to the thread (pthread_getspecific),  *)
(* so one worker is enough; what runs beside it are the jobs it has handed *)
(* to asynchronous dicts.  Results are written and read without a lock:    *)
(* vt_result_lock counts the writers, vt_result_wait waits for them.       *)
(*                                                                         *)
(* A definition whose name ends in _Bug is the one that follows it with a  *)
(* slip in it; no specification uses it.                                   *)
(***************************************************************************)
EXTENDS Integers, Sequences, FiniteSets, FiniteSetsExt

CONSTANTS Dicts,         \* positions in ctx->dicts
          Async,         \* those whose check_func is vt_async_dict_check
          Silent,        \* those that may return without vt_result_update
          Points,        \* weights a dict can answer with
          Contexts,      \* the configurations to look at
          MaxRequests    \* bound: requests the worker is given

(* A check has a dict and dicts it depends on, a stage has checks and such *)
(* dicts, too.  Both kinds of dependencies are looked at in order.         *)
CheckType == [dict : Dicts, depends : Seq(Dicts)]
StageType == [depends : Seq(Dicts), checks : Seq(CheckType)]
ContextType ==
  [stages : Seq(StageType), block_threshold : Int, delay_threshold : Int]

ASSUME EvaluationAssumption ==
  /\ IsFiniteSet(Dicts)
  /\ Async \subseteq Dicts /\ Silent \subseteq Dicts
  /\ Points \subseteq Int
  /\ \A c \in Contexts : c \in ContextType
  /\ MaxRequests \in Nat

VARIABLES
  ctx,
  pc,            \* where vt_worker is
  stage,         \* stageno + 1
  i, j,          \* loop counters
  dicts,         \* dicts[0] .. dicts[ndicts - 1]
  ready, points, \* res->results
  score, reply,
  missing,       \* the dict a "not ready" panic names
  writers,       \* res->writers
  jobs,          \* how far the job given to an asynchronous dict has come
  dangling,      \* refused jobs, freed by the caller, still in the pool's list
  signals,       \* pthread_cond_signal calls about to be made
  served, hits,  \* requests begun; stats->cntrs[].hits
  refused,       \* history: pushes that failed
  unanswered,    \* history: dicts asked in vain for this request
  counted        \* history: how often each check was added to the score

result == <<ready, points>>
loop == <<stage, i, j, dicts>>
async == <<writers, jobs, dangling, signals, refused>>
verdict == <<score, counted>>
vars == <<ctx, pc, loop, result, verdict, reply, missing, async, served, hits,
          unanswered>>

Elements(s) == {s[k] : k \in 1..Len(s)}
nstages == Len(ctx.stages)
Checks(s) == ctx.stages[s].checks
Tally == [s \in 1..nstages |-> [c \in 1..Len(Checks(s)) |-> 0]]
Count(s, c) == counted' = [counted EXCEPT ![s][c] = @ + 1]
Goto(l) == pc' = l

-----------------------------------------------------------------------------
Init ==
  /\ ctx \in Contexts
  /\ pc = "idle"
  /\ stage = 0 /\ i = 1 /\ j = 1 /\ dicts = << >>
  /\ ready = [d \in Dicts |-> FALSE]
  /\ points = [d \in Dicts |-> 0]
  /\ score = 0 /\ counted = Tally
  /\ reply = "none"
  /\ missing = {} /\ unanswered = {}
  /\ writers = 0 /\ signals = 0 /\ refused = 0
  /\ jobs = [d \in Dicts |-> "none"]
  /\ dangling = {}
  /\ served = 0
  /\ hits = [d \in Dicts |-> 0]

(* A connection arrives.  Without memory for the request, the result or    *)
(* the array of dicts, and when the request cannot be parsed, the worker   *)
(* returns at once and leaves the result alone; without memory for the     *)
(* array it does not even answer.                                          *)
BeginFails ==
  /\ pc = "idle" /\ served < MaxRequests
  /\ served' = served + 1
  /\ reply' \in {"error", "none"}
  /\ UNCHANGED <<ctx, pc, loop, result, verdict, missing, async, hits, unanswered>>

(* The thread has no store yet, gets no memory for one and uses it anyway. *)
BeginCrashes ==
  /\ pc = "idle" /\ served = 0 /\ MaxRequests > 0
  /\ served' = 1
  /\ Goto("crashed")
  /\ UNCHANGED <<ctx, loop, result, verdict, reply, missing, async, hits, unanswered>>

Begin ==
  /\ pc = "idle" /\ served < MaxRequests
  /\ served' = served + 1
  /\ Goto("stage")
  /\ stage' = 0 /\ score' = 0 /\ counted' = Tally
  /\ reply' = "none" /\ unanswered' = {}
  /\ UNCHANGED <<ctx, i, j, dicts, result, missing, async, hits>>

-----------------------------------------------------------------------------
(* vt_panic ends the process.                                              *)
Panic(d) ==
  /\ Goto("panicked")
  /\ missing' = {d}
  /\ UNCHANGED <<ctx, loop, result, verdict, reply, async, served, hits, unanswered>>

Unchanged_Collect ==
  UNCHANGED <<ctx, result, reply, missing, async, served, hits, unanswered>>

(* The top of the for loop; stage 0 only looks ahead to stage 1.  What the *)
(* dicts a stage depends on say does not keep it from being evaluated, but *)
(* they must be there.                                                     *)
BeginStage ==
  /\ pc = "stage" /\ stage <= nstages
  /\ \/ stage = 0 /\ Goto("next")
     \/ /\ stage > 0
        /\ \A d \in Elements(ctx.stages[stage].depends) : ready[d]
        /\ Goto("checks")
  /\ i' = 1 /\ j' = 1 /\ dicts' = << >>
  /\ UNCHANGED <<stage, verdict>> /\ Unchanged_Collect

StagePanics ==
  /\ pc = "stage" /\ stage \in 1..nstages
  /\ LET depends == ctx.stages[stage].depends IN
     \E k \in 1..Len(depends) :
       /\ \A l \in 1..(k - 1) : ready[depends[l]]
       /\ ~ready[depends[k]]
       /\ Panic(depends[k])

EndStages ==
  /\ pc = "stage" /\ stage > nstages
  /\ Goto("reply")
  /\ UNCHANGED <<loop, verdict>> /\ Unchanged_Collect

(* The loop over the dicts a check depends on goes on until one scored.    *)
Reaches(depends, k) == \A l \in 1..(k - 1) : ready[depends[l]] /\ points[depends[l]] = 0
Scored(depends) ==
  \E k \in 1..Len(depends) :
    Reaches(depends, k) /\ ready[depends[k]] /\ points[depends[k]] # 0
NoneScored(depends) == Reaches(depends, Len(depends) + 1)
Due(check) == check.depends = << >> \/ Scored(check.depends)

(* A check that is not due, or whose dict was put on the list for another  *)
(* one, is passed over; a dict with an answer scores again for free.       *)
CollectScores ==
  /\ ready[Checks(stage)[i].dict]
  /\ score' = score + points[Checks(stage)[i].dict]
  /\ Count(stage, i)
  /\ UNCHANGED dicts

CollectAppends_Bug ==
  /\ ~ready[Checks(stage)[i].dict]
  /\ dicts' = Append(dicts, Checks(stage)[i].dict)
  /\ Count(stage, i) /\ UNCHANGED score
CollectAppends ==
  /\ ~ready[Checks(stage)[i].dict]
  /\ dicts' = Append(dicts, Checks(stage)[i].dict)
  /\ UNCHANGED verdict

CollectCheck ==
  /\ pc = "checks" /\ i <= Len(Checks(stage))
  /\ LET check == Checks(stage)[i] IN
     \/ /\ Due(check) /\ check.dict \notin Elements(dicts)
        /\ CollectScores \/ CollectAppends
     \/ /\ \/ Due(check) /\ check.dict \in Elements(dicts)
           \/ check.depends # << >> /\ NoneScored(check.depends)
        /\ UNCHANGED <<dicts, verdict>>
  /\ i' = i + 1
  /\ UNCHANGED <<pc, stage, j>> /\ Unchanged_Collect

CheckPanics ==
  /\ pc = "checks" /\ i <= Len(Checks(stage))
  /\ LET depends == Checks(stage)[i].depends IN
     \E k \in 1..Len(depends) :
       Reaches(depends, k) /\ ~ready[depends[k]] /\ Panic(depends[k])

EndChecks ==
  /\ pc = "checks" /\ i > Len(Checks(stage))
  /\ Goto("next")
  /\ i' = 1 /\ j' = 1
  /\ UNCHANGED <<stage, dicts, verdict>> /\ Unchanged_Collect

(* The dicts on which the checks of the next stage depend.                 *)
LookingAhead_Bug == pc = "next" /\ stage + 1 < nstages /\ i <= Len(Checks(stage + 1))
LookingAhead == pc = "next" /\ stage < nstages /\ i <= Len(Checks(stage + 1))
Wanted_Bug(d) == d \notin Elements(dicts)
Listed_Bug(d) == ~ready[d]
Wanted(d) == d \notin Elements(dicts) /\ ~ready[d]

CollectNext ==
  /\ LookingAhead /\ j <= Len(Checks(stage + 1)[i].depends)
  /\ LET d == Checks(stage + 1)[i].depends[j] IN
     dicts' = IF Wanted(d) THEN Append(dicts, d) ELSE dicts
  /\ j' = j + 1
  /\ UNCHANGED <<pc, stage, i, verdict>> /\ Unchanged_Collect

CollectNextCheck ==
  /\ LookingAhead /\ j > Len(Checks(stage + 1)[i].depends)
  /\ i' = i + 1 /\ j' = 1
  /\ UNCHANGED <<pc, stage, dicts, verdict>> /\ Unchanged_Collect

EndNext ==
  /\ pc = "next" /\ ~LookingAhead
  /\ Goto("call")
  /\ i' = 1
  /\ UNCHANGED <<stage, j, dicts, verdict>> /\ Unchanged_Collect

-----------------------------------------------------------------------------
(* vt_dict_check.  A dict updates the result or returns without an answer. *)
Answer(d) ==
  \/ /\ ready' = [ready EXCEPT ![d] = TRUE]
     /\ \E p \in Points : points' = [points EXCEPT ![d] = p]
     /\ UNCHANGED unanswered
  \/ /\ d \in Silent
     /\ UNCHANGED result
     /\ unanswered' = unanswered \cup {d}

Called == dicts[i]
Calling == pc = "call" /\ i <= Len(dicts)
Unchanged_Call == UNCHANGED <<ctx, stage, j, dicts, verdict, reply, missing, served, hits>>

CallSync ==
  /\ Calling /\ Called \notin Async
  /\ Answer(Called)
  /\ i' = i + 1
  /\ UNCHANGED <<pc, async>> /\ Unchanged_Call

(* vt_async_dict_check: no memory, or one more writer.                     *)
CallFails ==
  /\ Calling /\ Called \in Async
  /\ unanswered' = unanswered \cup {Called}
  /\ i' = i + 1
  /\ UNCHANGED <<pc, result, async>> /\ Unchanged_Call

CallLock_Bug ==
  /\ Calling /\ Called \in Async
  /\ Goto("push")
  /\ UNCHANGED <<i, result, async, unanswered>> /\ Unchanged_Call
CallLock ==
  /\ Calling /\ Called \in Async
  /\ writers' = writers + 1
  /\ Goto("push")
  /\ UNCHANGED <<i, result, jobs, dangling, signals, refused, unanswered>> /\ Unchanged_Call

CallPushed ==
  /\ pc = "push"
  /\ jobs' = [jobs EXCEPT ![Called] = "queued"]
  /\ Goto("call") /\ i' = i + 1
  /\ UNCHANGED <<result, writers, dangling, signals, refused, unanswered>> /\ Unchanged_Call

(* vt_thread_pool_push fails; the argument is freed and the result is not  *)
(* unlocked.  The pool may keep the task it could not start a thread for.  *)
CallRefused ==
  /\ pc = "push"
  /\ refused' = refused + 1
  /\ dangling' \in {dangling, dangling \cup {Called}}
  /\ unanswered' = unanswered \cup {Called}
  /\ Goto("call") /\ i' = i + 1
  /\ UNCHANGED <<result, writers, jobs, signals>> /\ Unchanged_Call

EndCalls ==
  /\ pc = "call" /\ i > Len(dicts)
  /\ Goto("wait")
  /\ UNCHANGED <<i, result, async, unanswered>> /\ Unchanged_Call

-----------------------------------------------------------------------------
(* A thread of an asynchronous dict's pool: vt_async_dict_worker, in which *)
(* vt_result_unlock signals when it has let go of the lock.                *)
Alive == pc \notin {"panicked", "crashed"}
Unchanged_Job == UNCHANGED <<ctx, loop, verdict, reply, missing, served, hits>>

JobCheck(d) ==
  /\ Alive /\ jobs[d] = "queued"
  /\ Answer(d)
  /\ jobs' = [jobs EXCEPT ![d] = "checked"]
  /\ UNCHANGED <<pc, writers, dangling, signals, refused>> /\ Unchanged_Job

JobUnlock_Bug(d) ==
  /\ Alive /\ jobs[d] = "checked"
  /\ jobs' = [jobs EXCEPT ![d] = "none"]
  /\ writers' = IF writers > 0 THEN writers - 1 ELSE writers
  /\ signals' = IF writers < 1 THEN signals + 1 ELSE signals
  /\ UNCHANGED <<pc, result, dangling, refused, unanswered>> /\ Unchanged_Job
JobUnlock(d) ==
  /\ Alive /\ jobs[d] = "checked"
  /\ jobs' = [jobs EXCEPT ![d] = "none"]
  /\ writers' = IF writers > 0 THEN writers - 1 ELSE writers
  /\ signals' = IF writers' < 1 THEN signals + 1 ELSE signals
  /\ UNCHANGED <<pc, result, dangling, refused, unanswered>> /\ Unchanged_Job

Signal ==
  /\ Alive /\ signals > 0
  /\ signals' = signals - 1
  /\ IF pc = "blocked" THEN Goto("wait") ELSE UNCHANGED pc
  /\ UNCHANGED <<result, writers, jobs, dangling, refused, unanswered>> /\ Unchanged_Job

(* The pool runs a task whose argument was freed: undefined, taken to end  *)
(* the process.                                                            *)
RunDangling ==
  /\ Alive /\ dangling # {}
  /\ Goto("crashed")
  /\ UNCHANGED <<result, async, unanswered>> /\ Unchanged_Job

-----------------------------------------------------------------------------
(* vt_result_wait.                                                         *)
Wait_Bug ==
  /\ pc = "wait"
  /\ Goto("score") /\ i' = 1
  /\ UNCHANGED <<result, async, unanswered>> /\ Unchanged_Call
Wait ==
  /\ pc = "wait"
  /\ IF writers > 0 THEN Goto("blocked") /\ UNCHANGED i ELSE Goto("score") /\ i' = 1
  /\ UNCHANGED <<result, async, unanswered>> /\ Unchanged_Call

SpuriousWakeup ==
  /\ pc = "blocked"
  /\ Goto("wait")
  /\ UNCHANGED <<i, result, async, unanswered>> /\ Unchanged_Call

(* Every check of the stage whose dict was on the list.                    *)
Scoring == pc = "score" /\ stage > 0 /\ i <= Len(Checks(stage))

Score ==
  /\ Scoring
  /\ LET d == Checks(stage)[i].dict IN
     IF d \in Elements(dicts)
     THEN score' = score + points[d] /\ Count(stage, i)
     ELSE UNCHANGED verdict
  /\ i' = i + 1
  /\ UNCHANGED <<pc, stage, j, dicts>> /\ Unchanged_Collect

EndScores ==
  /\ pc = "score" /\ ~Scoring
  /\ Goto("stage")
  /\ stage' = stage + 1
  /\ UNCHANGED <<i, j, dicts, verdict>> /\ Unchanged_Collect

-----------------------------------------------------------------------------
Exceeds(threshold) == threshold # 0 /\ score >= threshold

Reply ==
  /\ pc = "reply"
  /\ \/ reply' = "block" /\ Exceeds(ctx.block_threshold)
     \/ reply' = "delay" /\ ~Exceeds(ctx.block_threshold) /\ Exceeds(ctx.delay_threshold)
     \/ reply' = "allow" /\ ~Exceeds(ctx.block_threshold) /\ ~Exceeds(ctx.delay_threshold)
  /\ Goto("stats")
  /\ UNCHANGED <<ctx, loop, result, verdict, missing, async, served, hits, unanswered>>

(* vt_stats_update, which reads the result without a lock.                 *)
UpdateStats ==
  /\ pc = "stats"
  /\ hits' = [d \in Dicts |-> IF points[d] # 0 THEN hits[d] + 1 ELSE hits[d]]
  /\ Goto("reset")
  /\ UNCHANGED <<ctx, loop, result, verdict, reply, missing, async, served, unanswered>>

(* vt_result_reset.                                                        *)
Reset_Bug ==
  /\ pc = "reset"
  /\ points' = [d \in Dicts |-> 0]
  /\ Goto("idle")
  /\ UNCHANGED <<ctx, loop, ready, verdict, reply, missing, async, served, hits, unanswered>>
Reset ==
  /\ pc = "reset"
  /\ ready' = [d \in Dicts |-> FALSE]
  /\ points' = [d \in Dicts |-> 0]
  /\ Goto("idle")
  /\ UNCHANGED <<ctx, loop, verdict, reply, missing, async, served, hits, unanswered>>

-----------------------------------------------------------------------------
Worker ==
  \/ BeginStage \/ StagePanics \/ EndStages
  \/ CollectCheck \/ CheckPanics \/ EndChecks
  \/ CollectNext \/ CollectNextCheck \/ EndNext
  \/ CallSync \/ CallFails \/ CallLock \/ CallPushed \/ CallRefused \/ EndCalls
  \/ Wait \/ Score \/ EndScores
  \/ Reply \/ UpdateStats \/ Reset
Job(d) == JobCheck(d) \/ JobUnlock(d)
Next ==
  \/ Begin \/ BeginFails \/ BeginCrashes \/ Worker \/ SpuriousWakeup
  \/ \E d \in Dicts : Job(d)
  \/ Signal \/ RunDangling
Spec == Init /\ [][Next]_vars

(* The thread runs, and the pools run the jobs they accepted, which is what *)
(* ThreadPool shows of a pool none of whose threads times out.  Nothing    *)
(* makes a client send a request, a wait wake without reason or a freed    *)
(* argument be looked at.                                                  *)
Fairness == WF_vars(Worker) /\ WF_vars(Signal) /\ \A d \in Dicts : WF_vars(Job(d))
FairSpec == Spec /\ Fairness

-----------------------------------------------------------------------------
Outstanding == {d \in Dicts : jobs[d] # "none"}
Phases == {"idle", "stage", "checks", "next", "call", "push", "wait", "blocked",
           "score", "reply", "stats", "reset", "panicked", "crashed"}

(* Type invariant.                                                         *)
TypeOK ==
  /\ ctx \in Contexts /\ pc \in Phases
  /\ stage \in 0..(nstages + 1) /\ i \in Nat \ {0} /\ j \in Nat \ {0}
  /\ dicts \in Seq(Dicts)
  /\ ready \in [Dicts -> BOOLEAN] /\ points \in [Dicts -> Points \cup {0}]
  /\ score \in Int
  /\ reply \in {"none", "error", "allow", "delay", "block"}
  /\ missing \subseteq Dicts /\ unanswered \subseteq Dicts /\ dangling \subseteq Async
  /\ writers \in Nat /\ signals \in Nat /\ refused \in Nat
  /\ jobs \in [Dicts -> {"none", "queued", "checked"}]
  /\ served \in 0..MaxRequests /\ hits \in [Dicts -> Nat]

(* "We're only supposed to reach this point after all checks are done. I   *)
(* didn't implement locking of the result here because of that" (src/      *)
(* stats.c:136): whenever the worker reads or clears the result no job of  *)
(* an asynchronous dict can still write to it, and none of them was lost.  *)
ReadsResult == {"idle", "stage", "checks", "next", "score", "reply", "stats", "reset"}
WaitedMeansDone == pc \in ReadsResult => Outstanding = {} /\ refused = 0

(* The result is kept for the thread's next request: nothing of this one   *)
(* is left in it, even when the worker returns early or a job is late.     *)
CleanBetween == pc = "idle" => \A d \in Dicts : ~ready[d] /\ points[d] = 0

(* "it's impossible to check more dicts per iteration than the maximum     *)
(* number of dicts configured" (src/worker.c:121): the array the list of   *)
(* dicts is written to, without a check, is never too short.               *)
DictsFit == Len(dicts) <= Cardinality(Dicts)

(* A dict that has answered is not asked again for the same request, nor   *)
(* does a late job replace its answer.                                     *)
AnswersStand ==
  [][\A d \in Dicts : ready[d] => \/ ready'[d] /\ points'[d] = points[d]
                                 \/ pc = "reset"]_vars

(* When the worker replies it has added every check that was due to the    *)
(* score, once: whether its dict was asked for this check, for an earlier  *)
(* one of the stage, ahead of the stage, or in a stage before.  A check    *)
(* that was not due is only added when its dict was asked all the same.    *)
AskedAnyway(s, check) ==
  \/ \E c \in 1..Len(Checks(s)) : Checks(s)[c].dict = check.dict /\ Due(Checks(s)[c])
  \/ s < nstages /\ \E c \in 1..Len(Checks(s + 1)) : check.dict \in Elements(Checks(s + 1)[c].depends)
CountedRight ==
  pc = "reply" =>
    \A s \in 1..nstages : \A c \in 1..Len(Checks(s)) :
      /\ counted[s][c] \in {0, 1}
      /\ Due(Checks(s)[c]) => counted[s][c] = 1
      /\ counted[s][c] = 1 => Due(Checks(s)[c]) \/ AskedAnyway(s, Checks(s)[c])

(* If every dict that was asked has answered, the score is the sum of what *)
(* the dicts of the counted checks answered: no answer is added before it  *)
(* was written, or twice.                                                  *)
ScoreIsSum ==
  pc = "reply" /\ unanswered = {} =>
    score = MapThenSumSet(LAMBDA s :
              MapThenSumSet(LAMBDA k : counted[s][k] * points[Checks(s)[k].dict],
                            1..Len(Checks(s))), 1..nstages)

(* The worker panics only for want of a dict that was asked in vain or     *)
(* that a whole stage depends on: looking ahead has asked every other one. *)
PanicOnlyUnanswered ==
  \A d \in missing : d \in unanswered \/ d \in Elements(ctx.stages[stage].depends)

(* "don't evaluate stage if dependencies failed" (src/worker.c:163): a     *)
(* stage is evaluated only when a dict it depends on has scored.           *)
StageSkipped ==
  pc = "checks" =>
    LET depends == ctx.stages[stage].depends IN
    depends = << >> \/ \E d \in Elements(depends) : points[d] # 0

(* If no push is refused, every request comes to its end: vt_result_wait   *)
(* misses no signal and no job is forgotten.                               *)
RequestEnds == [](refused = 0) => (pc = "stage" ~> pc \in {"idle", "panicked"})
=============================================================================
