---------------------------- MODULE MCEvaluation ----------------------------
(* Three dicts, one of them synchronous, in four configurations.           *)
EXTENDS Evaluation

CONSTANTS a, b, c

Check(d, depends) == [dict |-> d, depends |-> depends]
Stage(depends, checks) == [depends |-> depends, checks |-> checks]
Context(stages) == [stages |-> stages, block_threshold |-> 3, delay_threshold |-> 1]

MCContexts ==
  { \* a dict asked ahead, asked for the stage, and answered by an earlier stage,
    \* which the next stage depends on as well
    Context(<<Stage(<< >>, <<Check(a, << >>), Check(b, <<c>>)>>),
              Stage(<< >>, <<Check(c, <<a, b>>), Check(b, <<c>>)>>)>>),
    \* the same dict in two checks; a stage that depends on an answered dict;
    \* the same dicts wanted ahead more than once
    Context(<<Stage(<< >>, <<Check(b, << >>), Check(b, << >>)>>),
              Stage(<<b>>, <<Check(a, <<a, b, c>>), Check(c, <<b, c>>)>>)>>),
    \* a stage that depends on a dict asked ahead, one that depends on nothing
    Context(<<Stage(<<a>>, <<Check(b, <<a>>), Check(c, << >>)>>),
              Stage(<< >>, <<Check(a, << >>)>>)>>),
    \* a stage that depends on a dict nobody asks
    Context(<<Stage(<<c>>, <<Check(a, << >>)>>)>>) }
=============================================================================
