---------------------------- MODULE ContextBuild ----------------------------
(***************************************************************************)
(* context.c: what the configuration says is made one thing after another, *)
(* strings, dicts, stages and their checks; whatever fails undoes, from    *)
(* the inside out, what its own function has made, and vt_context_destroy  *)
(* the rest.  vt_dict_create and vt_async_dict_destroy of dict.c are part  *)
(* of it, their thread pool is one thing that is made and destroyed.       *)
(*                                                                         *)
(* Plan is the order in which things are made and names are looked up;     *)
(* memory may run out at each of them.                                     *)
(***************************************************************************)
EXTENDS Integers, SequencesExt

CONSTANT Configs
\* [strings : the ones it has, dicts : sequence of [name, type],
\*  staged : whether it has stages, or checks only, which become the one stage,
\*  stages : sequence of [checks : sequence of [dict, depends], depends]]
\* A type is sync, async, none (left out) or unknown.

ASSUME ContextAssumption ==
  \A c \in Configs :
    /\ c.dicts \in Seq([name : STRING, type : {"sync", "async", "none", "unknown"}])
    /\ c.stages \in Seq([checks : Seq([dict : STRING, depends : Seq(STRING)]), depends : Seq(STRING)])

VARIABLES
  conf,      \* the configuration
  builder,   \* make; check, stage, stages, dicts, context: what is being undone;
             \* ready, gone, died
  step,      \* the place in the plan
  life,      \* thing -> none, live, gone
  ctxDicts, ctxStages,   \* whether the context's fields are set
  twice      \* something was freed that was not alive

buildVars == <<conf, builder, step, life, ctxDicts, ctxStages, twice>>

Strings == <<"port", "bind_address", "pid_file", "syslog_ident", "allow_resp",
             "block_resp", "delay_resp", "error_resp">>
Context == <<"ctx">>
Dicts == <<"dicts">>
Stages == <<"stages">>

\* A dict with a pool is two dicts, one inside the other, and the pool.
DictThings(i) ==
  <<<<"dict", i>>>> \o (IF conf.dicts[i].type = "async" THEN <<<<"outer", i>>, <<"pool", i>>>> ELSE <<>>)

CheckPlan(s, c) ==
  LET check == conf.stages[s].checks[c] IN
  <<<<"check", s, c>>, <<"pos", s, c, check.dict>>>>
  \o (IF check.depends = <<>> THEN <<>> ELSE <<<<"depends", s, c>>>>)
  \o [d \in DOMAIN check.depends |-> <<"pos", s, c, check.depends[d]>>]

StagePlan(s) ==
  LET stage == conf.stages[s] IN
  <<<<"stage", s>>, <<"checks", s>>>>
  \o FlattenSeq([c \in DOMAIN stage.checks |-> CheckPlan(s, c)])
  \* checks that are not in a stage have no stage to depend on something
  \o (IF ~conf.staged \/ stage.depends = <<>> THEN <<>>
      ELSE <<<<"sdepends", s>>>> \o [d \in DOMAIN stage.depends |-> <<"spos", s, stage.depends[d]>>])

\* vt_context_create
Plan ==
  <<Context>> \o [k \in DOMAIN Strings |-> <<"str", Strings[k]>>]
  \o <<Dicts>> \o FlattenSeq([i \in DOMAIN conf.dicts |-> DictThings(i)])
  \o <<Stages>> \o FlattenSeq([s \in DOMAIN conf.stages |-> StagePlan(s)])

Item == Plan[step]
IsLookup(item) == item[1] \in {"pos", "spos"}
Things == {Plan[k] : k \in {j \in DOMAIN Plan : ~IsLookup(Plan[j])}}

BuildStart(c) ==
  /\ conf = c
  /\ builder = "make" /\ step = 1 /\ twice = FALSE
  /\ ctxDicts = FALSE /\ ctxStages = FALSE
  /\ life = [t \in Things |-> "none"]
BuildInit == \E c \in Configs : BuildStart(c)

\* vt_context_get_dict_pos: a dict without a type has left its slot empty, and its name
\* is asked for all the same.
Same(name) == {i \in DOMAIN conf.dicts : conf.dicts[i].name = name}
Empty == {i \in DOMAIN conf.dicts : conf.dicts[i].type = "none"}
Found(name) == \E i \in Same(name) : \A j \in 1..i : j \notin Empty
NotFound(name) == Same(name) \cup Empty = {}

Wanted == IF Item[1] = "pos" THEN Item[4] ELSE Item[3]

\* A dict without a type is passed over; vt_dict_create ends the process for a type that
\* is unknown: the search goes on behind the last type.
Type == conf.dicts[Item[2]].type
Skipped == Item[1] = "dict" /\ Type = "none"
Possible ==
  /\ Item[1] = "str" => Item[2] \in conf.strings
  /\ Item = Dicts => conf.dicts # <<>>
  /\ Item = Stages => conf.stages # <<>>
  /\ Item[1] = "dict" => Type # "unknown"

\* ctx->dicts is set when vt_context_dicts_init is through, ctx->stages likewise.
Made ==
  /\ step' = step + 1
  /\ ctxDicts' = (ctxDicts \/ (step < Len(Plan) /\ Plan[step + 1] = Stages))
  /\ ctxStages' = (ctxStages \/ step = Len(Plan))
  /\ builder' = IF step = Len(Plan) THEN "ready" ELSE "make"
  /\ UNCHANGED <<conf, twice>>

Make ==
  /\ builder = "make" /\ ~IsLookup(Item) /\ Possible
  /\ life' = IF Skipped THEN life ELSE [life EXCEPT ![Item] = "live"]
  /\ Made

Resolve ==
  /\ builder = "make" /\ IsLookup(Item) /\ Found(Wanted)
  /\ UNCHANGED life
  /\ Made

\* The function whose part failed.
Function ==
  CASE Item[1] \in {"check", "pos", "depends"}         -> "check"
    [] Item[1] \in {"stage", "checks", "sdepends", "spos"} -> "stage"
    [] Item[1] \in {"dict", "outer", "pool"}           -> "dicts"
    [] OTHER                                           -> "context"

\* No memory, or a name that is nobody's, or something the configuration lacks.  A dict
\* that could not be made is NULL, and its destructor is looked for in it.
MakeFails ==
  /\ builder = "make" /\ ~Skipped
  /\ IsLookup(Item) => NotFound(Wanted)
  /\ builder' = IF Item[1] = "dict" THEN "died" ELSE Function
  /\ UNCHANGED <<conf, step, life, ctxDicts, ctxStages, twice>>

\* A slot without a dict is looked into.
ResolveDies ==
  /\ builder = "make" /\ IsLookup(Item) /\ ~Found(Wanted) /\ ~NotFound(Wanted)
  /\ builder' = "died"
  /\ UNCHANGED <<conf, step, life, ctxDicts, ctxStages, twice>>

(***************************************************************************)
(* Undoing                                                                 *)
(***************************************************************************)

Ever(S) == {t \in S \cap Things : life[t] # "none"}
Free(S) ==
  /\ life' = [t \in Things |-> IF t \in S THEN "gone" ELSE life[t]]
  /\ twice' = (twice \/ \E t \in S : life[t] # "live")

\* vt_check_destroy, vt_stage_destroy, for what their fields point to
CheckFree(s, c) == Ever({<<"check", s, c>>, <<"depends", s, c>>})
StageFree(s, checks) ==
  Ever({<<"stage", s>>, <<"checks", s>>, <<"sdepends", s>>}) \cup UNION {CheckFree(s, c) : c \in checks}
Checks(s) == DOMAIN conf.stages[s].checks

\* vt_dict_destroy.  When the pool is destroyed, which is 0, vt_async_dict_destroy takes
\* it for a failure: the dict inside is never destroyed; the outer one never is.
DictFree(i) ==
  IF Ever({<<"outer", i>>}) # {} THEN Ever({<<"pool", i>>}) ELSE Ever({<<"dict", i>>})

\* vt_async_dict_create's failure and vt_dict_create's; then vt_context_dicts_init's,
\* whose slots hold the dicts before this one.
UndoDicts ==
  /\ builder = "dicts"
  /\ LET i == Item[2] IN
     Free(Ever({<<"outer", i>>, <<"dict", i>>, Dicts}) \cup UNION {DictFree(j) : j \in 1..(i - 1)})
  /\ builder' = "context"
  /\ UNCHANGED <<conf, step, ctxDicts, ctxStages>>

UndoCheck ==
  /\ builder = "check"
  /\ Free(CheckFree(Item[2], Item[3]))
  /\ builder' = "stage"
  /\ UNCHANGED <<conf, step, ctxDicts, ctxStages>>

\* The check that failed is not in its slot.
ChecksBefore == IF Function = "check" THEN 1..(Item[3] - 1) ELSE Checks(Item[2])
UndoStage ==
  /\ builder = "stage"
  /\ Free(StageFree(Item[2], ChecksBefore))
  /\ builder' = "stages"
  /\ UNCHANGED <<conf, step, ctxDicts, ctxStages>>

\* vt_context_stages_init: the stages before this one
StagesBefore_Bug == 1..Item[2]
StagesBefore == 1..(Item[2] - 1)
UndoStages ==
  /\ builder = "stages"
  /\ Free({Stages} \cup UNION {StageFree(s, Checks(s)) : s \in StagesBefore})
  /\ builder' = "context"
  /\ UNCHANGED <<conf, step, ctxDicts, ctxStages>>

\* vt_context_destroy: the port, the answer that allows and the context itself stay.
Kept == {<<"str", "port">>, <<"str", "allow_resp">>, Context}
DestroyContext ==
  /\ builder \in {"context", "ready"}
  /\ Free(Ever({<<"str", Strings[k]>> : k \in DOMAIN Strings} \ Kept)
          \cup (IF ctxStages THEN {Stages} \cup UNION {StageFree(s, Checks(s)) : s \in DOMAIN conf.stages} ELSE {})
          \cup (IF ctxDicts THEN {Dicts} \cup UNION {DictFree(i) : i \in DOMAIN conf.dicts} ELSE {}))
  /\ builder' = "gone" /\ ctxDicts' = FALSE /\ ctxStages' = FALSE
  /\ UNCHANGED <<conf, step>>

BuildNext ==
  \/ Make \/ Resolve \/ MakeFails \/ ResolveDies
  \/ UndoDicts \/ UndoCheck \/ UndoStage \/ UndoStages \/ DestroyContext
BuildSpec == BuildInit /\ [][BuildNext]_buildVars

(***************************************************************************)
(* Property                                                                *)
(***************************************************************************)

(* context.c, wherever making a context fails, and when it is destroyed:   *)
(* nothing is freed twice; nothing stays but the context, two strings and, *)
(* of a dict with a pool that was finished, the two dicts.  A context that *)
(* is ready has everything its configuration says, and its checks know     *)
(* dicts that were made.                                                   *)
Finished(i) == <<"pool", i>> \in Things /\ life[<<"pool", i>>] # "none"
Remains == Kept \cup UNION {{<<"dict", i>>, <<"outer", i>>} : i \in {j \in DOMAIN conf.dicts : Finished(j)}}
Refs == UNION {{conf.stages[s].checks[c].dict : c \in Checks(s)} : s \in DOMAIN conf.stages}
BuiltOnce ==
  /\ ~twice
  /\ builder = "gone" => \A t \in Things : life[t] = "live" => t \in Remains
  /\ builder = "ready" =>
       /\ \A t \in Things : life[t] = "live" \/ (t[1] = "dict" /\ conf.dicts[t[2]].type = "none")
       /\ \A name \in Refs : \E i \in Same(name) : life[<<"dict", i>>] = "live"
=============================================================================
