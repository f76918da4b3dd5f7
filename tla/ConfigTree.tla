----------------------------- MODULE ConfigTree -----------------------------
(***************************************************************************)
(* config.c, the tree: options with their arrays of values, sections with  *)
(* their arrays of options and sections, and the operations that look up,  *)
(* put in and take out an entry by position.                               *)
(*                                                                         *)
(* The tree lives in a heap, a function from identities to nodes, so that  *)
(* an entry that is lost, doubled or freed can be told from one that is    *)
(* in its place.  An array is a sequence; positions are the code's, from   *)
(* 0.  Wild and WildValue stand for what a slot holds that nobody has      *)
(* written, or that points to what was freed.  The flags of a call         *)
(* (VT_CONFIG_INST_...) are a set.  All calls are made from one thread.    *)
(***************************************************************************)
EXTENDS Integers, Sequences, FiniteSets

CONSTANTS
  Ids,      \* the nodes there is memory for, numbers from 1
  Lower     \* strcasecmp: each name in its lower case

Wild == 0
WildValue == "*"

ASSUME IdsAssumption == Ids \subseteq Nat \ {Wild} /\ IsFiniteSet(Ids)

\* vt_config_create, vt_config_opt_create, vt_config_sec_create
Node(kind, name, flags) ==
  [kind |-> kind, name |-> name, flags |-> flags, vtype |-> "NONE", title |-> "",
   vals |-> <<>>, dangling |-> FALSE, opts |-> <<>>]
OptNode(name, flags, type) == [Node("opt", name, flags) EXCEPT !.vtype = type]
SecNode(name, flags) == Node("sec", name, flags)

\* A node that was never made, and one that was freed.
Unused == Node("unused", "", {})
Freed == Node("freed", "", {})

IsOpt(node) == node.kind = "opt"
IsSec(node) == node.kind \in {"file", "sec"}

FreeIds(h) == {i \in Ids : h[i].kind = "unused"}
\* calloc: nodes are told apart by when they were made.
NewId(h) == CHOOSE i \in FreeIds(h) : \A j \in FreeIds(h) : i <= j

(***************************************************************************)
(* Positions                                                               *)
(***************************************************************************)

Insert == {"PREPEND", "APPEND"}

Steps_Bug(n, idx) ==
  IF idx >= 0 THEN (IF idx < n THEN idx + 1 ELSE n)
              ELSE IF -idx > n THEN 1 ELSE n + idx
\* How many of n hits are walked over for an index: from the front, or, when it
\* is negative, from the back.
Steps(n, idx) ==
  IF idx >= 0 THEN (IF idx < n THEN idx + 1 ELSE n)
              ELSE LET back == -idx - 1 IN IF back > n THEN 1 ELSE n - back

\* The length of the shortest prefix that holds m of the hits.
Walk(hits, m, len) ==
  CHOOSE i \in 0..len :
    /\ Cardinality({j \in hits : j <= i}) >= m \/ i = len
    /\ \A k \in 0..(i - 1) : Cardinality({j \in hits : j <= k}) < m

\* The end of both look-ups: n hits were counted, the walk goes over `hits`.
Position(n, hits, idx, inst, len) ==
  IF n = 0
  THEN CASE "APPEND" \in inst -> len
         [] "APPEND" \notin inst /\ inst \cap {"PREPEND", "SET"} # {} -> 0
         [] OTHER -> -1
  ELSE Walk(hits, Steps(n, idx), len) - (IF "APPEND" \in inst THEN 0 ELSE 1)

PutAt_Bug(array, pos, x, wild) ==
  IF pos < Len(array) \/ array = <<>> THEN Append(array, x) ELSE [array EXCEPT ![pos] = x]
\* The array with x at pos (from 0).  realloc makes room; when the entry does not
\* go to the end, memmove takes what is behind pos one place to the front.
PutAt(array, pos, x, wild) ==
  [i \in 1..(Len(array) + 1) |->
     CASE i = pos + 1 -> x
       [] i <= pos    -> array[i]
       [] OTHER       -> IF i < Len(array) THEN array[i + 1] ELSE wild]

\* The array is whole after PutAt only if the entry went to its end.
AtEnd(array, pos) == pos = Len(array)

(***************************************************************************)
(* The values of an option                                                 *)
(***************************************************************************)

\* vt_config_getn_cmn
GetnCmn(vals, val, idx, inst) ==
  LET hits == {i \in DOMAIN vals : "COMPARE" \in inst => vals[i] = val}
  IN  Position(Cardinality(hits), hits, idx, inst, Len(vals))

\* vt_config_setn_cmn: the position, the values, and whether they are still whole
SetnCmn(node, val, idx, inst) ==
  LET pos  == GetnCmn(node.vals, val, idx, inst)
      grow == node.vals = <<>> \/ inst \cap Insert # {}
  IN  IF pos < 0
      THEN [pos |-> -1, node |-> node, whole |-> TRUE]
      ELSE [pos   |-> pos,
            node  |-> [node EXCEPT !.vals = IF grow THEN PutAt(@, pos, val, WildValue)
                                                    ELSE [@ EXCEPT ![pos + 1] = val]],
            \* realloc of an array that was freed
            whole |-> ~node.dangling /\ (grow => AtEnd(node.vals, pos))]

\* vt_config_unsetn_cmn: all but the last value leave a slot that points to freed
\* memory behind, and its neighbour is overwritten in part; the array of the only
\* value is freed and stays where it was.
UnsetnCmn(node, val, idx, inst) ==
  LET pos == GetnCmn(node.vals, val, idx, inst)
      n   == Len(node.vals)
  IN  IF pos < 0
      THEN [pos |-> pos, node |-> node, whole |-> TRUE]
      ELSE [pos   |-> pos,
            node  |-> [node EXCEPT
                         !.vals = [i \in 1..(n - 1) |->
                                     IF i \in {pos + 1, pos + 2} THEN WildValue ELSE @[i]],
                         !.dangling = (n = 1)],
            whole |-> pos = n - 1]

(***************************************************************************)
(* The entries of a section                                                *)
(***************************************************************************)

SameName(a, b) == Lower[a] = Lower[b]

Below_Bug(h, id) == {id} \cup {h[id].opts[k] : k \in DOMAIN h[id].opts}
\* vt_config_destroy: a node and what is below it
Below(h, id) ==
  LET down[S \in SUBSET Ids] ==
        IF S = {} THEN {}
        ELSE S \cup down[UNION {{h[i].opts[k] : k \in DOMAIN h[i].opts} : i \in S}]
  IN  down[{id}]

Destroy(h, id) == LET gone == Below(h, id) IN [i \in Ids |-> IF i \in gone THEN Freed ELSE h[i]]

\* vt_config_sec_getn_cmn: what is looked for is a name ("" for any) and a kind
\* ("none" for any)
SecGetnCmn(h, sec, name, kind, idx, inst) ==
  LET opts    == h[sec].opts
      same    == {i \in DOMAIN opts : SameName(h[opts[i]].name, name)}
      fits    == {i \in DOMAIN opts : kind \in {"none", h[opts[i]].kind}}
      mixed   == \E i, j \in same : h[opts[i]].kind # h[opts[j]].kind
      counted == CASE "COMPARE" \notin inst                -> DOMAIN opts
                   [] "COMPARE" \in inst /\ name # ""      -> same
                   [] OTHER                                -> fits
      hits    == CASE "COMPARE" \notin inst                -> DOMAIN opts
                   [] "COMPARE" \in inst /\ name # ""      -> same \cap fits
                   [] OTHER                                -> {}
      taken   == kind = "opt" /\ "COMPARE" \in inst /\ inst \cap (Insert \cup {"SET"}) # {}
  IN  IF mixed \/ ~(same \subseteq fits) \/ (counted # {} /\ taken)
      THEN -1
      ELSE Position(Cardinality(counted), hits, idx, inst, Len(opts))

\* vt_config_sec_setn_cmn with VT_CONFIG_INST_RECYCLE, which every caller gives: the
\* node `id` of the heap becomes an entry.  An entry that is replaced takes its own
\* entries with it (the values of an option are leaked).
SecSetnCmn(h, sec, id, idx, inst) ==
  LET pos  == SecGetnCmn(h, sec, h[id].name, h[id].kind, idx, inst \cup {"SET"})
      opts == h[sec].opts
      grow == opts = <<>> \/ inst \cap Insert # {}
  IN  IF pos < 0
      THEN [pos |-> -1, heap |-> h, whole |-> TRUE]
      ELSE IF grow
      THEN [pos |-> pos, heap |-> [h EXCEPT ![sec].opts = PutAt(@, pos, id, Wild)], whole |-> AtEnd(opts, pos)]
      ELSE [pos   |-> pos,
            heap  |-> [Destroy(h, opts[pos + 1]) EXCEPT ![sec].opts = [@ EXCEPT ![pos + 1] = id]],
            whole |-> TRUE]

\* vt_config_sec_unsetn_cmn: what is behind the entry is moved one place to the back,
\* so that an entry before the end stays, freed, and its neighbour becomes another
\* pointer to it.
SecUnsetnCmn(h, sec, name, kind, idx, inst) ==
  LET pos  == SecGetnCmn(h, sec, name, kind, idx, inst \ (Insert \cup {"SET"}))
      opts == h[sec].opts
  IN  IF pos < 0
      THEN [pos |-> -1, heap |-> h, whole |-> TRUE]
      ELSE [pos   |-> pos,
            heap  |-> [Destroy(h, opts[pos + 1]) EXCEPT
                         ![sec].opts = [i \in 1..(Len(opts) - 1) |->
                                          IF i <= pos + 1 THEN opts[i] ELSE opts[i - 1]]],
            whole |-> pos = Len(opts) - 1]
=============================================================================
