------------------------------- MODULE Config -------------------------------
(***************************************************************************)
(* config.c, from the file to the tree and its use: the file is read in    *)
(* blocks, the tokens are parsed by three functions that call one another, *)
(* what the file left out gets its default, duplicates are looked for, and *)
(* the caller then reads and changes the tree.                             *)
(*                                                                         *)
(* Tokens come from the lexer, one by one and in any order; Schema is the  *)
(* array of vt_config_def_t, one sequence of definitions per level, with   *)
(* the level of a section's own options in `opts`.  Memory may run out at  *)
(* every allocation.  What the code does after it read or freed what it    *)
(* must not is not followed: `why` then names the cause.                   *)
(***************************************************************************)
EXTENDS ConfigTree

CONSTANTS
  Schema,         \* levels of definitions, the file's own first
  Words,          \* names, titles and strings a token may carry
  Blocks,         \* whole blocks of BUFLEN bytes in a file, at most
  MaxTokens,      \* tokens before the end of the file
  CallTokens,     \* tokens of a file whose tree is then changed by calls
  MaxCalls        \* calls that change a tree

\* The definitions of a section's own options are on a later level.
ASSUME SchemaAssumption ==
  /\ Len(Schema) \in Nat \ {0} /\ DOMAIN Schema = 1..Len(Schema)
  /\ \A l \in DOMAIN Schema :
       /\ Len(Schema[l]) \in Nat /\ DOMAIN Schema[l] = 1..Len(Schema[l])
       /\ \A d \in DOMAIN Schema[l] :
            \/ Schema[l][d].type = "opt"
            \/ Schema[l][d].type = "sec" /\ Schema[l][d].opts \in (l + 1)..Len(Schema)

\* No two definitions of a level take the same name; a section does not tell names
\* apart that differ in case only.
ASSUME NamesAssumption ==
  \A l \in DOMAIN Schema : \A d, e \in DOMAIN Schema[l] :
    SameName(Schema[l][d].name, Schema[l][e].name) => d = e

\* Where a caller gives no name, the name is "".
ASSUME WordsAssumption == "" \notin Words

VARIABLES
  phase,     \* read, parse, defaults, validate, done, failed, closed
  left,      \* blocks still to be read
  got,       \* something was read
  errno,     \* of the last read that failed
  heap, root,
  stack,     \* the calls that are running, the innermost last
  pending,   \* the token vt_config_parse_opt gave back, to be inspected again
  ntok, ncalls,
  said,      \* per section, the names the file declared in it, in order
  dropped,   \* a value that did not fit into memory was passed over
  why        \* none; moved, twice, stale, assert: the accident that ended the run

tree == <<heap, root, said, dropped, why>>
reading == <<left, got, errno>>
vars == <<phase, reading, tree, stack, pending, ntok, ncalls>>

None == 0
Token(t, v) == [t |-> t, v |-> v]
NoToken == Token("NONE", "")
EndOfFile == Token("EOF", "")
Scalars == {"BOOL", "INT", "FLOAT"}
Symbols == {"ERROR", "COMMENT", "LCURLY", "RCURLY", "EQUAL", "COMMA", "OTHER"}
ValueTypes == Scalars \cup {"STR"}
Values(type) == IF type = "STR" THEN Words ELSE {type}
Tokens == {Token(t, "") : t \in Symbols} \cup {Token(t, t) : t \in Scalars}
          \cup {Token("STR", w) : w \in Words}

\* One call: the function, the node it fills, its level of definitions and the
\* place in it; what vt_config_parse_opt expects; of vt_config_defaults, the number
\* of entries it found, whether it added one, and whether the node is still its own.
Frame(fn, node, level, def) ==
  [fn |-> fn, node |-> node, level |-> level, def |-> def, expect |-> "EQUAL",
   nopts |-> 0, grown |-> FALSE, fresh |-> FALSE]
DefaultsFrame(node, level, nopts, fresh) ==
  [fn |-> "defaults", node |-> node, level |-> level, def |-> 1, expect |-> "NONE",
   nopts |-> nopts, grown |-> FALSE, fresh |-> fresh]

Top == stack[Len(stack)]
Pop == SubSeq(stack, 1, Len(stack) - 1)
Push(frame) == Append(stack, frame)
Continue(frame) == [stack EXCEPT ![Len(stack)] = frame]
Def == Schema[Top.level][Top.def]
Opts(sec) == heap[sec].opts
First(S) == CHOOSE d \in S : \A e \in S : d <= e

\* strcmp_func: a definition's names are compared as its flag says
Matches(def, a, b) == IF "NOCASE" \in def.flags THEN SameName(a, b) ELSE a = b

ConfigInit ==
  /\ phase = "read" /\ left \in 0..Blocks /\ got = FALSE /\ errno = "none"
  /\ heap = [i \in Ids |-> Unused] /\ root = None
  /\ stack = <<>> /\ pending = NoToken /\ ntok = 0 /\ ncalls = 0
  /\ said = [i \in Ids |-> <<>>] /\ dropped = FALSE /\ why = "none"

(***************************************************************************)
(* vt_config_parse_file                                                    *)
(***************************************************************************)

\* A full block: errno is not looked at.
ReadBlock ==
  /\ phase = "read" /\ left > 0
  /\ left' = left - 1 /\ got' = TRUE
  /\ UNCHANGED <<phase, errno, tree, stack, pending, ntok, ncalls>>

\* read is interrupted and tried again; errno, cleared once before the loop, stays.
ReadInterrupted ==
  /\ phase = "read"
  /\ errno' = "EINTR"
  /\ UNCHANGED <<phase, left, got, tree, stack, pending, ntok, ncalls>>

\* Another error, and no memory for the buffer (which is not freed, nor the file closed).
ReadFails ==
  /\ phase = "read"
  /\ phase' = "failed"
  /\ UNCHANGED <<reading, tree, stack, pending, ntok, ncalls>>

\* Less than a block, or nothing: the end, unless errno still says EINTR.
\* vt_config_parse_str then asserts that there is something to parse.
ReadEnd ==
  /\ phase = "read" /\ left = 0
  /\ \E some \in BOOLEAN : got' = (got \/ some)
  /\ UNCHANGED <<left, errno, said, dropped, pending, ntok, ncalls>>
  /\ CASE errno = "EINTR" -> UNCHANGED <<phase, heap, root, stack, why>>
       [] errno = "none" /\ ~got' -> why' = "assert" /\ UNCHANGED <<phase, heap, root, stack>>
       [] OTHER ->
            \/ /\ phase' = "failed" /\ UNCHANGED <<heap, root, stack, why>>
            \/ LET id == NewId(heap) IN
               /\ FreeIds(heap) # {} /\ phase' = "parse"
               /\ root' = id
               /\ heap' = [heap EXCEPT ![id] = Node("file", "", {})]
               /\ stack' = <<Frame("parse", id, 1, 0)>>
               /\ UNCHANGED why

(***************************************************************************)
(* Parsing, one token at a time                                            *)
(***************************************************************************)

\* vt_config_parse_str's error label: the tree is destroyed
Reject ==
  /\ phase' = "failed" /\ stack' = <<>>
  /\ heap' = Destroy(heap, root) /\ root' = None
  /\ UNCHANGED <<said, dropped, why>>

\* A call of vt_config_defaults for a node
Defaults(node, level) == DefaultsFrame(node, level, Len(Opts(node)), FALSE)

\* vt_config_parse meets a name: its definition, an earlier declaration, the new entry
\* at the place sec_getn finds, and the call that parses it.
Declare(name) ==
  LET sec   == Top.node
      defs  == Schema[Top.level]
      found == {d \in DOMAIN defs : Matches(defs[d], defs[d].name, name)}
      def   == defs[First(found)]
      again == \E k \in DOMAIN Opts(sec) : Matches(def, def.name, heap[Opts(sec)[k]].name)
      id    == NewId(heap)
      node  == [Node(def.type, name, def.flags \cup {"NODEFAULT"}) EXCEPT !.vtype = def.vtype]
      put   == SecSetnCmn([heap EXCEPT ![id] = node], sec, id, -1, {"APPEND", "COMPARE"})
  IN  \/ Reject        \* refused below, or no memory
      \/ /\ found # {} /\ FreeIds(heap) # {}
         /\ again => def.type = "sec" /\ "MULTI" \in def.flags
         /\ put.pos >= 0
         /\ heap' = put.heap
         /\ why' = IF put.whole THEN "none" ELSE "moved"
         /\ said' = [said EXCEPT ![sec] = Append(@, name)]
         /\ stack' = Push(Frame(def.type, id, Top.level, First(found)))
         /\ UNCHANGED <<phase, root, dropped>>

\* vt_config_parse
Parse(t) ==
  /\ Top.fn = "parse"
  /\ CASE t.t = "COMMENT" -> UNCHANGED <<phase, tree, stack>>
       [] t.t = "EOF" /\ heap[Top.node].kind = "file" ->
            /\ phase' = "defaults" /\ stack' = <<Defaults(root, 1)>>
            /\ UNCHANGED <<tree>>
       [] t.t = "RCURLY" /\ heap[Top.node].kind = "sec" ->
            stack' = Pop /\ UNCHANGED <<phase, tree>>
       [] t.t = "STR" -> Declare(t.v)
       [] OTHER -> Reject

\* vt_config_parse_sec: the title, then the body, which vt_config_parse reads
ParseSec(t) ==
  LET titled == heap[Top.node].title # ""
      takes  == "TITLE" \in Def.flags
  IN  /\ Top.fn = "sec"
      /\ CASE t.t = "COMMENT" -> UNCHANGED <<phase, tree, stack>>
           [] t.t = "LCURLY" /\ (takes => titled) ->
                /\ stack' = Continue(Frame("parse", Top.node, Def.opts, 0))
                /\ UNCHANGED <<phase, tree>>
           [] t.t = "STR" /\ takes /\ ~titled ->
                /\ heap' = [heap EXCEPT ![Top.node].title = t.v]
                /\ UNCHANGED <<phase, root, said, dropped, why, stack>>
           [] OTHER -> Reject

\* vt_config_parse_opt stores one value; that there was no memory for it is not noticed.
Store(value) ==
  \/ /\ heap' = [heap EXCEPT ![Top.node] = SetnCmn(@, value, -1, {"SET", "APPEND"}).node]
     /\ UNCHANGED dropped
  \/ /\ dropped' = TRUE
     /\ UNCHANGED heap

\* vt_config_parse_opt: the equal sign may be left out; a list goes on after a comma and
\* ends with the name of the next entry, which is handed back.
HandsBack(t) == Top.fn = "opt" /\ Top.expect = "COMMA" /\ t.t \in ValueTypes

ParseOpt(t) ==
  /\ Top.fn = "opt"
  /\ CASE t.t \in {"EQUAL", "COMMA"} /\ Top.expect = t.t ->
            /\ stack' = Continue([Top EXCEPT !.expect = "NONE"])
            /\ UNCHANGED <<phase, tree>>
       [] HandsBack(t) -> stack' = Pop /\ UNCHANGED <<phase, tree>>
       [] t.t = Def.vtype /\ ~HandsBack(t) ->
            /\ Store(t.v)
            /\ stack' = IF "LIST" \in Def.flags THEN Continue([Top EXCEPT !.expect = "COMMA"]) ELSE Pop
            /\ UNCHANGED <<phase, root, said, why>>
       [] OTHER -> Reject

\* The next token from the lexer, but one that was handed back comes first.
ParseStep ==
  /\ phase = "parse"
  /\ \E t \in IF pending # NoToken THEN {pending}
              ELSE {EndOfFile} \cup IF ntok < MaxTokens THEN Tokens ELSE {} :
       /\ Parse(t) \/ ParseSec(t) \/ ParseOpt(t)
       /\ pending' = IF HandsBack(t) THEN t ELSE NoToken
  /\ ntok' = IF pending = NoToken /\ ntok < MaxTokens THEN ntok + 1 ELSE ntok
  /\ UNCHANGED <<reading, ncalls>>

(***************************************************************************)
(* vt_config_defaults                                                      *)
(***************************************************************************)

\* The entries there were at the start that the definition names.  The array they are
\* read from is the one of the start, too.
Present(def) == {k \in 1..Top.nopts : Matches(def, def.name, heap[Opts(Top.node)[k]].name)}
AtDef == phase = "defaults" /\ Top.def <= Len(Schema[Top.level])
NextDef_Bug(frame) == [frame EXCEPT !.def = @ + 2]
NextDef_Stuck(frame) == frame
NextDef(frame) == [frame EXCEPT !.def = @ + 1]
Added(frame) == [NextDef(frame) EXCEPT !.grown = TRUE]
Attach(sec, h, id) == SecSetnCmn(h, sec, id, -1, {"SET", "APPEND"})
inDefaults == <<reading, pending, ntok, ncalls, said, dropped>>

\* An entry of the file: only the first one of that name is looked into.
DefaultPresent ==
  /\ AtDef /\ Present(Def) # {}
  /\ LET entry == Opts(Top.node)[First(Present(Def))] IN
     stack' = IF IsSec(heap[entry]) THEN Push(Defaults(entry, Def.opts))
                                    ELSE Continue(NextDef(Top))
  /\ UNCHANGED <<phase, heap, root, why, inDefaults>>

\* A section the file does not have: it gets its own defaults before it is put in.
DefaultSec ==
  /\ AtDef /\ Present(Def) = {} /\ Def.type = "sec" /\ FreeIds(heap) # {}
  /\ LET id == NewId(heap) IN
     /\ heap' = [heap EXCEPT ![id] = SecNode(Def.name, Def.flags \ {"LIST", "NODEFAULT"})]
     /\ stack' = Push(DefaultsFrame(id, Def.opts, 0, TRUE))
  /\ UNCHANGED <<phase, root, why, inDefaults>>

\* An option the file does not have.
DefaultOpt ==
  /\ AtDef /\ Present(Def) = {} /\ Def.type = "opt" /\ FreeIds(heap) # {}
  /\ LET id   == NewId(heap)
         node == OptNode(Def.name, Def.flags \ {"LIST", "TITLE", "NODEFAULT"}, Def.vtype)
         set  == IF "NODEFAULT" \in Def.flags THEN node ELSE SetnCmn(node, Def.val, -1, {"SET"}).node
         put  == Attach(Top.node, [heap EXCEPT ![id] = set], id)
     IN  /\ put.pos >= 0
         /\ heap' = put.heap
         /\ stack' = Continue(Added(Top))
  /\ UNCHANGED <<phase, root, why, inDefaults>>

\* All definitions of a level are done: the caller puts the section in, if it made it.
DefaultsReturn ==
  /\ phase = "defaults" /\ Top.def > Len(Schema[Top.level])
  /\ UNCHANGED <<root, why, inDefaults>>
  /\ IF Len(stack) = 1
     THEN phase' = "validate" /\ stack' = <<>> /\ UNCHANGED heap
     ELSE LET caller == Pop[Len(Pop)]
              put    == Attach(caller.node, heap, Top.node)
          IN  /\ UNCHANGED phase
              /\ IF Top.fresh
                 THEN /\ put.pos >= 0 /\ heap' = put.heap
                      /\ stack' = [Pop EXCEPT ![Len(Pop)] = Added(caller)]
                 ELSE /\ stack' = [Pop EXCEPT ![Len(Pop)] = NextDef(caller)]
                      /\ UNCHANGED heap

\* No memory, or sec_setn refuses.  Every caller destroys the section it called for, one
\* that is an entry of the tree as well; vt_config_parse_str then destroys the tree.
DefaultsFail ==
  /\ phase = "defaults"
  /\ IF AtDef THEN Present(Def) = {} ELSE Top.fresh
  /\ stack' = <<>> /\ phase' = "failed"
  /\ IF \E k \in 2..Len(stack) : ~stack[k].fresh
     THEN why' = "twice" /\ UNCHANGED <<heap, root>>
     ELSE /\ heap' = [i \in Ids |-> IF heap[i] = Unused THEN Unused ELSE Freed]
          /\ root' = None /\ UNCHANGED why
  /\ UNCHANGED inDefaults

\* The search goes over the array there was before realloc.
DefaultsStale ==
  /\ AtDef /\ Top.grown /\ Top.nopts > 0
  /\ why' = "stale"
  /\ UNCHANGED <<phase, heap, root, stack, inDefaults>>

(***************************************************************************)
(* vt_config_validate: the file's own level only                           *)
(***************************************************************************)

SameTitle(def) ==
  \E i, j \in DOMAIN Opts(root) :
    LET one == heap[Opts(root)[i]]
        other == heap[Opts(root)[j]]
    IN  /\ i < j /\ IsSec(one) /\ IsSec(other)
        /\ Matches(def, def.name, one.name) /\ Matches(def, def.name, other.name)
        /\ Matches(def, one.title, other.title)

\* validate_func, where a definition has one, is the caller's.
Validate ==
  /\ phase = "validate"
  /\ \/ /\ \/ \E d \in DOMAIN Schema[1] :
                {"TITLE", "NODUPES"} \subseteq Schema[1][d].flags /\ SameTitle(Schema[1][d])
           \/ \E d \in DOMAIN Schema[1] : "VALIDATE" \in Schema[1][d].flags
        /\ Reject
     \/ /\ \A d \in DOMAIN Schema[1] :
             {"TITLE", "NODUPES"} \subseteq Schema[1][d].flags => ~SameTitle(Schema[1][d])
        /\ phase' = "done"
        /\ UNCHANGED <<tree, stack>>
  /\ UNCHANGED <<reading, pending, ntok, ncalls>>

(***************************************************************************)
(* What a caller does with the tree                                        *)
(***************************************************************************)

Indices == -2..1
Insts == {{}, {"PREPEND"}, {"APPEND"}}

\* vt_config_getn..., for each type: the value at the index
Getn(opt, idx) == GetnCmn(heap[opt].vals, "", idx, {})
\* vt_config_get...n: the position of the value, whatever the caller asked to put in
Getpos(opt, val, idx, inst) == GetnCmn(heap[opt].vals, val, idx, inst \ (Insert \cup {"SET"}))

\* The result of a call that changes the tree.
Calling == phase = "done" /\ ntok <= CallTokens /\ ncalls < MaxCalls
Changed(h, whole) ==
  /\ heap' = h
  /\ why' = IF whole THEN "none" ELSE "moved"
  /\ ncalls' = ncalls + 1
  /\ UNCHANGED <<phase, reading, root, said, dropped, stack, pending, ntok>>

\* vt_config_setn...: the compare flag is off
Setn(opt, val, idx, inst) ==
  LET set == SetnCmn(heap[opt], val, idx, (inst \cup {"SET"}) \ {"COMPARE"}) IN
  Changed([heap EXCEPT ![opt] = set.node], set.whole)

\* vt_config_unsetn...
Unsetn(opt, idx) ==
  LET unset == UnsetnCmn(heap[opt], "", idx, {}) IN
  Changed([heap EXCEPT ![opt] = unset.node], unset.whole)

\* The functions for one type differ in the type they assert.
ValueCalls(type) ==
  /\ Calling
  /\ \E opt \in Ids, idx \in Indices :
       /\ IsOpt(heap[opt]) /\ heap[opt].vtype = type
       /\ \/ \E val \in Values(type), inst \in Insts : Setn(opt, val, idx, inst)
          \/ Unsetn(opt, idx)
BoolCalls == ValueCalls("BOOL")
IntCalls == ValueCalls("INT")
FloatCalls == ValueCalls("FLOAT")
StrCalls == ValueCalls("STR")

\* vt_config_sec_getnopt, vt_config_sec_getnsec: the name counts if the caller compares;
\* the first keeps the caller's other flags, the second drops them
Sought(name, inst) == IF "COMPARE" \in inst THEN name ELSE ""
GetnOpt(sec, name, idx, inst) ==
  SecGetnCmn(heap, sec, Sought(name, inst), "opt", idx, inst \cup {"COMPARE"})
GetnSec(sec, name, idx, inst) == SecGetnCmn(heap, sec, Sought(name, inst), "sec", idx, {"COMPARE"})

\* vt_config_sec_getnopts, vt_config_sec_getnsecs
GetnOpts(sec) == Len(Opts(sec))
GetnSecs(sec, name) ==
  Cardinality({k \in DOMAIN Opts(sec) :
    LET entry == heap[Opts(sec)[k]] IN entry.kind = "sec" /\ Matches(entry, entry.name, name)})

\* vt_config_sec_getn..., vt_config_sec_setn...: the option of that name, then its value
SecValueCalls(sec) ==
  \E name \in Words :
    LET pos == GetnOpt(sec, name, 0, {"COMPARE"})
        opt == Opts(sec)[pos + 1]
    IN  /\ pos >= 0
        /\ \E idx \in Indices, inst \in Insts, val \in Values(heap[opt].vtype) :
             Setn(opt, val, idx, inst)

\* A new entry is put in, or freed again when there is no place for it.
Offer(sec, node, idx, inst) ==
  LET id  == NewId(heap)
      put == SecSetnCmn([heap EXCEPT ![id] = node], sec, id, idx, inst)
  IN  /\ FreeIds(heap) # {}
      /\ IF put.pos < 0 THEN Changed([heap EXCEPT ![id] = Freed], TRUE)
                        ELSE Changed(put.heap, put.whole)

SecInsts == Insts \cup {inst \cup {"COMPARE"} : inst \in Insts}

\* vt_config_sec_setnopt_bool, _int, _float, _str
SecSetnOpt(sec) ==
  \E name \in Words, type \in ValueTypes, idx \in Indices, inst \in SecInsts :
    \E val \in Values(type) :
      Offer(sec, SetnCmn(OptNode(name, {}, type), val, 0, {"SET"}).node, idx, inst)

\* vt_config_sec_setnsec
SecSetnSec(sec) ==
  \E name \in Words, idx \in Indices, inst \in SecInsts : Offer(sec, SecNode(name, {}), idx, inst)

\* vt_config_sec_unsetnopt, vt_config_sec_unsetnsec: without a name, any
SecUnsetn(sec, kind) ==
  \E name \in Words, idx \in Indices, inst \in {{}, {"COMPARE"}} :
    LET unset == SecUnsetnCmn(heap, sec, Sought(name, inst), kind, idx, inst \cup {"COMPARE"}) IN
    unset.pos >= 0 /\ Changed(unset.heap, unset.whole)
SecUnsetnOpt(sec) == SecUnsetn(sec, "opt")
SecUnsetnSec(sec) == SecUnsetn(sec, "sec")

SecCalls ==
  /\ Calling
  /\ \E sec \in {i \in Ids : IsSec(heap[i])} :
       SecValueCalls(sec) \/ SecSetnOpt(sec) \/ SecSetnSec(sec) \/ SecUnsetnOpt(sec) \/ SecUnsetnSec(sec)

\* vt_config_destroy: the array of an option whose only value was taken out is freed twice
Close ==
  /\ phase = "done" /\ phase' = "closed"
  /\ IF \E i \in Below(heap, root) : heap[i].dangling
     THEN why' = "twice" /\ UNCHANGED <<heap, root>>
     ELSE heap' = Destroy(heap, root) /\ root' = None /\ UNCHANGED why
  /\ UNCHANGED <<reading, said, dropped, stack, pending, ntok, ncalls>>

ReadStep == ReadBlock \/ ReadInterrupted \/ ReadFails \/ ReadEnd
DefaultsStep ==
  \/ DefaultPresent \/ DefaultSec \/ DefaultOpt \/ DefaultsReturn \/ DefaultsFail \/ DefaultsStale
Calls == BoolCalls \/ IntCalls \/ FloatCalls \/ StrCalls \/ SecCalls \/ Close

Load == ReadStep \/ ParseStep \/ DefaultsStep \/ Validate
ConfigNext == why = "none" /\ (Load \/ Calls)
ConfigSpec == ConfigInit /\ [][ConfigNext]_vars
ConfigFair == ConfigSpec /\ WF_vars(why = "none" /\ Load)

(***************************************************************************)
(* Properties                                                              *)
(***************************************************************************)

Live(i) == IsOpt(heap[i]) \/ IsSec(heap[i])

(* The tree is a tree as long as nothing has gone wrong: every entry of a  *)
(* section is alive and is an entry once, every node that was made is an   *)
(* entry, the root, or in the hands of vt_config_defaults; when the parser *)
(* has refused the file, or the tree was closed, nothing is left.          *)
Holders(i) ==
  {p \in Ids \X (1..Cardinality(Ids)) : p[2] \in DOMAIN Opts(p[1]) /\ Opts(p[1])[p[2]] = i}
InHand(i) == \E k \in DOMAIN stack : stack[k].fresh /\ stack[k].node = i
Whole ==
  why = "none" =>
    /\ \A s \in Ids : \A k \in DOMAIN Opts(s) : Opts(s)[k] \in Ids /\ Live(Opts(s)[k])
    /\ \A i \in Ids : Live(i) =>
         Cardinality(Holders(i)) = IF i = root \/ InHand(i) THEN 0 ELSE 1
    /\ phase \in {"failed", "closed"} => \A i \in Ids : ~Live(i)

(* A section has what the file says, in its order, and behind that its     *)
(* defaults; the array of a section is spoilt only if the file comes back  *)
(* to a section's name after another entry.  The other accidents of        *)
(* loading have one cause each: nothing was read; two defaults are added   *)
(* to a section the file began; memory runs out for the default of a       *)
(* section of the file.                                                    *)
FromFile(sec, names) ==
  /\ Len(names) <= Len(Opts(sec))
  /\ \A k \in DOMAIN Opts(sec) :
       LET entry == heap[Opts(sec)[k]] IN
       IF k <= Len(names) THEN "NODEFAULT" \in entry.flags /\ entry.name = names[k]
                          ELSE "NODEFAULT" \notin entry.flags
ComesBack(names) ==
  \E i, j, k \in DOMAIN names :
    i < j /\ j < k /\ SameName(names[i], names[k]) /\ ~SameName(names[i], names[j])
AsWritten ==
  ncalls = 0 =>
    CASE why = "none"   -> \A s \in Ids : IsSec(heap[s]) => FromFile(s, said[s])
      [] why = "moved"  -> \E s \in Ids : ComesBack(said[s])
      [] why = "assert" -> ~got
      [] why = "stale"  -> \E s \in Ids : said[s] # <<>> /\ Len(Opts(s)) > Len(said[s])
      [] why = "twice"  -> phase = "closed" \/ \E s \in Ids : \E n \in DOMAIN said[s] :
                             phase = "failed" /\ \E d \in DOMAIN Schema[1] :
                               Schema[1][d].type = "sec" /\ Matches(Schema[1][d], Schema[1][d].name, said[s][n])

(* What a caller may rely on when a file was accepted.  Sections is every  *)
(* section with its level; Completed those that vt_config_defaults has     *)
(* looked into, which is the first of each name.                           *)
Entries(s, def) == {k \in DOMAIN Opts(s) : Matches(def, def.name, heap[Opts(s)[k]].name)}
SubSections(s, l, firstOnly) ==
  UNION {{<<Opts(s)[k], def.opts>> : k \in IF firstOnly /\ Entries(s, def) # {}
                                           THEN {First(Entries(s, def))} ELSE Entries(s, def)} :
           def \in {Schema[l][d] : d \in {e \in DOMAIN Schema[l] : Schema[l][e].type = "sec"}}}
Sections(firstOnly) ==
  LET reach[n \in 1..Len(Schema)] ==
        IF n = 1 THEN {<<root, 1>>}
        ELSE reach[n - 1] \cup UNION {SubSections(p[1], p[2], firstOnly) : p \in reach[n - 1]}
  IN  reach[Len(Schema)]
Complete(s, l) == \A d \in DOMAIN Schema[l] : Entries(s, Schema[l][d]) # {}
Fits(i, def) ==
  /\ heap[i].kind = def.type
  /\ IsOpt(heap[i]) =>
       /\ heap[i].vtype = def.vtype
       /\ heap[i].vals = <<>> => dropped \/ "NODEFAULT" \in def.flags
       /\ Len(heap[i].vals) > 1 => "LIST" \in def.flags
Accepted ==
  phase = "done" /\ ncalls = 0 =>
    /\ \A p \in Sections(TRUE) : Complete(p[1], p[2])
    /\ \A p \in Sections(FALSE) :
         /\ DOMAIN Opts(p[1]) = UNION {Entries(p[1], Schema[p[2]][d]) : d \in DOMAIN Schema[p[2]]}
         /\ \A d \in DOMAIN Schema[p[2]] :
              LET def == Schema[p[2]][d] IN
              /\ \A k \in Entries(p[1], def) : Fits(Opts(p[1])[k], def)
              /\ def.type = "opt" \/ "MULTI" \notin def.flags => Cardinality(Entries(p[1], def)) <= 1
    /\ \A d \in DOMAIN Schema[1] : {"TITLE", "NODUPES"} \subseteq Schema[1][d].flags =>
         \A j, k \in Entries(root, Schema[1][d]) :
           j # k => heap[Opts(root)[j]].title # heap[Opts(root)[k]].title

(* Indices count from the front from 0, from the back from -1; one that is *)
(* too large finds the last, one that is too small the first, but for the  *)
(* one just before the first, which finds nothing.  The n-th section of a  *)
(* name is found by n, as many as are counted.                             *)
Lookups ==
  why = "none" =>
    /\ \A opt \in {i \in Ids : IsOpt(heap[i])} : \A idx \in -4..3 :
         LET n == Len(heap[opt].vals)
             pos == Getn(opt, idx)
         IN  /\ n = 0 => pos = -1
             /\ n > 0 /\ idx >= n => pos = n - 1
             /\ idx \in 0..(n - 1) => pos = idx
             /\ n > 0 /\ idx \in (-n - 1)..(-1) => pos = n + idx
             /\ n > 0 /\ idx < -n - 1 => pos = 0
    /\ \A sec \in {i \in Ids : IsSec(heap[i])} : \A name \in Words :
         \A k \in 1..GetnSecs(sec, name) :
           LET pos == GetnSec(sec, name, k - 1, {"COMPARE"}) IN
           pos >= 0 => /\ SameName(heap[Opts(sec)[pos + 1]].name, name)
                       /\ Cardinality({j \in 1..(pos + 1) : SameName(heap[Opts(sec)[j]].name, name)}) >= k

(* Loading ends, in a tree or in a refusal, unless a read was interrupted: *)
(* vt_config_parse_file then never stops to read.                          *)
LoadEnds == <>(phase \in {"done", "failed"} \/ why # "none" \/ errno = "EINTR")
=============================================================================
