---------------------------- MODULE ConfigProofs ----------------------------
(***************************************************************************)
(* Proofs about Config, for any schema, any names and any memory: indices  *)
(* find what they say in every array; as long as nothing has gone wrong    *)
(* the tree is a tree, every node of which is freed when the file is       *)
(* refused or the tree is closed; until a call changes the tree, it is     *)
(* what the file and the defaults say; and an accepted file fits its       *)
(* definitions.                                                            *)
(*                                                                         *)
(* The first needs no more than that the nodes are nodes (Heap).  The      *)
(* second is shown with what each phase makes of the tree (Shape): which   *)
(* nodes no section holds yet, and what the calls that are under way have  *)
(* in hand.  An entry is always made after the section it is in, so that   *)
(* what is below a node is well founded.  The last two are shown with what *)
(* each phase has put into the tree (Known): a level of definitions for    *)
(* every section, the names of the file, the sections that have their      *)
(* defaults, and how far each call of vt_config_defaults is.               *)
(***************************************************************************)
EXTENDS Config, FiniteSetTheorems, WellFoundedInduction, TLAPS

(***************************************************************************)
(* Arrays and nodes.  What an array holds makes no difference, that it is  *)
(* one does.                                                               *)
(***************************************************************************)
Array(s) == Len(s) \in Nat /\ DOMAIN s = 1..Len(s) /\ s = [k \in DOMAIN s |-> s[k]]

(* What has the places 1 to n is an array of length n.                     *)
LEMMA ArrayIs ==
  ASSUME NEW n \in Nat, NEW s, DOMAIN s = 1..n, s = [k \in 1..n |-> s[k]]
  PROVE  Array(s) /\ Len(s) = n
<1>1. s \in [1..n -> {s[k] : k \in 1..n}]
  OBVIOUS
<1>2. s \in Seq({s[k] : k \in 1..n})
  BY <1>1
<1> QED
  BY <1>1, <1>2 DEF Array

(* The empty array is an array, without places.                            *)
LEMMA EmptyArray == Array(<<>>) /\ DOMAIN <<>> = {}
  BY ArrayIs DEF Array

(* The empty array is the one without places.                              *)
LEMMA ArrayEmpty ==
  ASSUME NEW s, Array(s)
  PROVE  s = <<>> <=> Len(s) = 0
<1>1. ASSUME Len(s) = 0 PROVE s = <<>>
  <2>1. DOMAIN s = {}
    BY <1>1 DEF Array
  <2> QED
    BY <2>1, EmptyArray DEF Array
<1> QED
  BY <1>1

IsNode(n) ==
  /\ n = [kind |-> n.kind, name |-> n.name, flags |-> n.flags, vtype |-> n.vtype,
          title |-> n.title, vals |-> n.vals, dangling |-> n.dangling, opts |-> n.opts]
  /\ Array(n.vals) /\ Array(n.opts)

(* A node that was just made has no values and no entries.                 *)
LEMMA PlainNodeIs ==
  ASSUME NEW kind, NEW name, NEW flags
  PROVE  /\ IsNode(Node(kind, name, flags)) /\ Node(kind, name, flags).opts = <<>>
         /\ Node(kind, name, flags).vals = <<>> /\ Node(kind, name, flags).kind = kind
         /\ Node(kind, name, flags).name = name /\ Node(kind, name, flags).flags = flags
<1>1. /\ Node(kind, name, flags).opts = <<>> /\ Node(kind, name, flags).vals = <<>>
      /\ Node(kind, name, flags).kind = kind /\ Node(kind, name, flags).name = name
      /\ Node(kind, name, flags).flags = flags
  BY DEF Node
<1>2. IsNode(Node(kind, name, flags))
  BY <1>1, EmptyArray, Zenon DEF IsNode, Node
<1> QED
  BY <1>1, <1>2

(* So have one that is not used yet and one that was freed.                *)
LEMMA UnusedIs ==
  /\ IsNode(Unused) /\ Unused.opts = <<>> /\ Unused.vals = <<>> /\ Unused.kind = "unused"
  /\ IsNode(Freed) /\ Freed.opts = <<>> /\ Freed.vals = <<>> /\ Freed.kind = "freed"
<1>1. /\ Unused.opts = <<>> /\ Unused.vals = <<>> /\ Unused.kind = "unused"
      /\ Freed.opts = <<>> /\ Freed.vals = <<>> /\ Freed.kind = "freed"
  BY DEF Unused, Freed, Node
<1>2. IsNode(Unused) /\ IsNode(Freed)
  BY <1>1, EmptyArray, Zenon DEF IsNode, Unused, Freed, Node
<1> QED
  BY <1>1, <1>2

(* A node keeps its other fields when its type is set.                     *)
LEMMA TypeIs ==
  ASSUME NEW m, IsNode(m), NEW x
  PROVE  LET n == [m EXCEPT !.vtype = x] IN
         /\ IsNode(n) /\ n.kind = m.kind /\ n.opts = m.opts /\ n.name = m.name
         /\ n.flags = m.flags /\ n.vals = m.vals /\ n.vtype = x
  BY DEF IsNode

(* An array that gets an item is one longer, wherever the item goes.       *)
LEMMA PutAtIs ==
  ASSUME NEW s, Array(s), NEW pos, NEW x, NEW wild
  PROVE  Array(PutAt(s, pos, x, wild)) /\ Len(PutAt(s, pos, x, wild)) = Len(s) + 1
<1> DEFINE t == PutAt(s, pos, x, wild)
<1>1. Len(s) + 1 \in Nat /\ DOMAIN t = 1..(Len(s) + 1) /\ t = [k \in 1..(Len(s) + 1) |-> t[k]]
  BY DEF PutAt, Array
<1>2. Array(t) /\ Len(t) = Len(s) + 1
  <2> HIDE DEF t
  <2> QED
    BY <1>1, ArrayIs
<1> QED
  BY <1>2

(* An array in which an item is replaced is as long as before.             *)
LEMMA ReplacedIs ==
  ASSUME NEW s, Array(s), NEW pos, NEW x
  PROVE  Array([s EXCEPT ![pos] = x]) /\ Len([s EXCEPT ![pos] = x]) = Len(s)
<1> DEFINE t == [s EXCEPT ![pos] = x]
<1>1. DOMAIN t = 1..Len(s) /\ t = [k \in 1..Len(s) |-> t[k]] /\ Len(s) \in Nat
  BY DEF Array
<1> HIDE DEF t
<1> QED
  BY <1>1, ArrayIs

(* What a call on the values of an option leaves alone.                    *)
Beside(m, n) ==
  /\ m.kind = n.kind /\ m.name = n.name /\ m.flags = n.flags /\ m.vtype = n.vtype
  /\ m.title = n.title /\ m.opts = n.opts

\* Setting a value of an option leaves a node that differs in its values only.
LEMMA SetnIs ==
  ASSUME NEW node, IsNode(node), NEW val, NEW idx, NEW inst
  PROVE  LET n == SetnCmn(node, val, idx, inst).node IN IsNode(n) /\ Beside(n, node)
<1> DEFINE pos == GetnCmn(node.vals, val, idx, inst)
           grow == node.vals = <<>> \/ inst \cap Insert # {}
           new == IF grow THEN PutAt(node.vals, pos, val, WildValue)
                          ELSE [node.vals EXCEPT ![pos + 1] = val]
<1>1. Array(new)
  BY PutAtIs, ReplacedIs DEF IsNode
<1>2. SetnCmn(node, val, idx, inst).node = IF pos < 0 THEN node ELSE [node EXCEPT !.vals = new]
  BY DEF SetnCmn
<1> HIDE DEF new, pos
<1> QED
  BY <1>1, <1>2 DEF IsNode, Beside

(* Nothing is found in an empty array.                                     *)
LEMMA NoneFound ==
  ASSUME NEW hits, NEW idx, NEW inst, NEW len,
         inst \cap {"PREPEND", "APPEND", "SET"} = {}
  PROVE  Position(0, hits, idx, inst, len) = -1
  BY DEF Position

(* Taking a value out leaves a node that differs in its values only.       *)
LEMMA UnsetnIs ==
  ASSUME NEW node, IsNode(node), NEW val, NEW idx
  PROVE  LET n == UnsetnCmn(node, val, idx, {}).node IN IsNode(n) /\ Beside(n, node)
<1> DEFINE pos == GetnCmn(node.vals, val, idx, {})
           n == Len(node.vals)
           new == [i \in 1..(n - 1) |-> IF i \in {pos + 1, pos + 2} THEN WildValue ELSE node.vals[i]]
<1>1. CASE n = 0
  <2>1. DOMAIN node.vals = {}
    BY <1>1 DEF IsNode, Array
  <2>2. pos = Position(Cardinality({}), {}, idx, {}, n)
    BY <2>1 DEF GetnCmn
  <2>3. pos = -1
    BY <2>2, NoneFound, FS_EmptySet
  <2>4. UnsetnCmn(node, val, idx, {}).node = node
    BY <2>3 DEF UnsetnCmn
  <2> QED
    BY <2>4 DEF Beside
<1>2. CASE n # 0
  <2>1. n - 1 \in Nat /\ DOMAIN new = 1..(n - 1) /\ new = [i \in 1..(n - 1) |-> new[i]]
    BY <1>2 DEF IsNode, Array
  <2>2. Array(new)
    <3> HIDE DEF new, n
    <3> QED BY <2>1, ArrayIs
  <2>3. UnsetnCmn(node, val, idx, {}).node
          = IF pos < 0 THEN node ELSE [node EXCEPT !.vals = new, !.dangling = (n = 1)]
    BY DEF UnsetnCmn
  <2> HIDE DEF new, pos, n
  <2> QED
    BY <2>2, <2>3 DEF IsNode, Beside
<1> QED
  BY <1>1, <1>2

(***************************************************************************)
(* Positions                                                               *)
(***************************************************************************)

(* A set of numbers that is not empty has a least one.                     *)
LEMMA LeastNat ==
  ASSUME NEW S, S \subseteq Nat, S # {}
  PROVE  \E n \in S : \A m \in S : n <= m
<1> DEFINE Upto == {0..n : n \in S}
<1>1. PICK U \in Upto : \A V \in Upto : ~(<<V, U>> \in StrictSubsetOrdering(Nat))
  <2>1. \A n \in S : IsFiniteSet(0..n) /\ 0..n \subseteq Nat
    BY FS_Interval
  <2>2. Upto \subseteq FiniteSubsetsOf(Nat) /\ Upto # {}
    BY <2>1 DEF FiniteSubsetsOf
  <2> QED
    BY <2>2, FS_StrictSubsetOrderingWellFounded, WFMin
<1>2. PICK n \in S : U = 0..n
  BY <1>1
<1>3. ASSUME NEW m \in S, m < n PROVE FALSE
  <2>1. /\ 0..m \in Upto /\ 0..m \subseteq 0..n /\ n \in 0..n /\ n \notin 0..m
        /\ 0..n \subseteq Nat /\ 0..m \subseteq Nat
    BY <1>3
  <2> QED
    BY <1>1, <1>2, <2>1 DEF StrictSubsetOrdering
<1> QED
  BY <1>2, <1>3

\* The hits of a prefix
Upto(hits, k) == {j \in hits : j <= k}
NUpto(hits, k) == Cardinality(Upto(hits, k))

\* The places at which the walk over an array counts, and how many there are.
LEMMA HitsFinite ==
  ASSUME NEW len \in Nat, NEW hits \in SUBSET (1..len)
  PROVE  /\ IsFiniteSet(hits) /\ Cardinality(hits) \in Nat
         /\ Upto(hits, len) = hits /\ Upto(hits, 0) = {}
         /\ \A k : NUpto(hits, k) \in Nat
<1>1. IsFiniteSet(1..len)
  BY FS_Interval
<1>2. \A S \in SUBSET (1..len) : IsFiniteSet(S) /\ Cardinality(S) \in Nat
  BY <1>1, FS_Subset, FS_CardinalityType
<1>3. Upto(hits, len) = hits /\ Upto(hits, 0) = {}
  <2>1. \A j \in hits : j \in 1..len /\ j <= len /\ ~(j <= 0)
    OBVIOUS
  <2> QED
    BY <2>1 DEF Upto
<1>4. \A k : Upto(hits, k) \in SUBSET (1..len)
  BY DEF Upto
<1> QED
  BY <1>2, <1>3, <1>4 DEF NUpto

(* Walk is what it chooses: the shortest prefix with m of the hits, or all *)
(* there is.                                                               *)
LEMMA WalkIs ==
  ASSUME NEW len \in Nat, NEW hits \in SUBSET (1..len), NEW m \in Nat
  PROVE  /\ Walk(hits, m, len) \in 0..len
         /\ NUpto(hits, Walk(hits, m, len)) >= m \/ Walk(hits, m, len) = len
         /\ \A k \in 0..(Walk(hits, m, len) - 1) : NUpto(hits, k) < m
<1> DEFINE Enough(i) == NUpto(hits, i) >= m \/ i = len
           S == {i \in 0..len : Enough(i)}
<1>1. len \in S /\ S \subseteq Nat
  OBVIOUS
<1>2. PICK n \in S : \A k \in S : n <= k
  BY <1>1, LeastNat
<1>3. n \in 0..len /\ Enough(n) /\ \A k \in 0..(n - 1) : NUpto(hits, k) < m
  <2>1. ASSUME NEW k \in 0..(n - 1) PROVE NUpto(hits, k) < m
    <3>1. k \in 0..len /\ k < n
      BY <1>2
    <3>2. ~Enough(k)
      BY <3>1, <1>2
    <3> QED
      BY <3>1, <3>2, HitsFinite
  <2> QED
    BY <1>2, <2>1
<1> DEFINE Least(i) == Enough(i) /\ \A k \in 0..(i - 1) : NUpto(hits, k) < m
<1>4. Walk(hits, m, len) = CHOOSE i \in 0..len : Least(i)
  BY DEF Walk, NUpto, Upto
<1>5. n \in 0..len /\ Least(n)
  BY <1>3
<1>6. Walk(hits, m, len) \in 0..len /\ Least(Walk(hits, m, len))
  <2> HIDE DEF Least
  <2> QED
    BY <1>4, <1>5
<1> QED
  BY <1>6

(* As many hits as there are can be walked to, and each walk ends at one.  *)
LEMMA WalkHits ==
  ASSUME NEW len \in Nat, NEW hits \in SUBSET (1..len), NEW m \in 1..Cardinality(hits)
  PROVE  Walk(hits, m, len) \in hits /\ NUpto(hits, Walk(hits, m, len)) >= m
<1> DEFINE i == Walk(hits, m, len)
<1>0. m \in Nat /\ m >= 1 /\ m <= Cardinality(hits)
  BY HitsFinite
<1>1. /\ i \in 0..len /\ (NUpto(hits, i) >= m \/ i = len)
      /\ \A k \in 0..(i - 1) : NUpto(hits, k) < m
  BY <1>0, WalkIs
<1>2. NUpto(hits, len) = Cardinality(hits) /\ NUpto(hits, 0) = 0
  BY HitsFinite, FS_EmptySet DEF NUpto
<1> HIDE DEF i
<1>3. NUpto(hits, i) >= m
  BY <1>0, <1>1, <1>2
<1>4. i # 0
  BY <1>0, <1>2, <1>3
<1>5. ASSUME i \notin hits PROVE FALSE
  <2>1. i - 1 \in 0..(i - 1)
    BY <1>1, <1>4
  <2>2. Upto(hits, i - 1) = Upto(hits, i)
    <3>1. \A j \in hits : j \in Int /\ (j <= i - 1 <=> j <= i)
      BY <1>1, <1>5
    <3> QED
      BY <3>1 DEF Upto
  <2>3. NUpto(hits, i - 1) = NUpto(hits, i) /\ NUpto(hits, i) \in Nat
    BY <2>2, HitsFinite DEF NUpto
  <2> QED
    BY <1>0, <1>1, <1>3, <2>1, <2>3
<1> QED
  BY <1>3, <1>5 DEF i

(* When everything is a hit, the walk goes as far as it is told.           *)
LEMMA WalkAll ==
  ASSUME NEW n \in Nat, NEW m \in 0..n
  PROVE  Walk(1..n, m, n) = m
<1> DEFINE i == Walk(1..n, m, n)
<1>1. \A k \in 0..n : NUpto(1..n, k) = k
  <2>1. ASSUME NEW k \in 0..n PROVE NUpto(1..n, k) = k
    <3>1. Upto(1..n, k) = 1..k
      BY DEF Upto
    <3>2. Cardinality(1..k) = k
      <4>1. 1 \in Int /\ k \in Int /\ (IF 1 > k THEN 0 ELSE k - 1 + 1) = k
        OBVIOUS
      <4> QED
        BY ONLY <4>1, FS_Interval
    <3> QED
      BY <3>1, <3>2 DEF NUpto
  <2> QED
    BY <2>1
<1>2. /\ i \in 0..n /\ (NUpto(1..n, i) >= m \/ i = n)
      /\ \A k \in 0..(i - 1) : NUpto(1..n, k) < m
  BY WalkIs
<1> HIDE DEF i
<1>3. i >= m
  BY <1>1, <1>2
<1>4. ASSUME i > m PROVE FALSE
  <2>1. m \in 0..(i - 1) /\ m \in 0..n
    BY <1>2, <1>4
  <2> QED
    BY <1>1, <1>2, <2>1
<1> QED
  BY <1>2, <1>3, <1>4 DEF i

(* As many steps as there are entries, at most.                            *)
LEMMA StepsIn ==
  ASSUME NEW n \in Nat \ {0}, NEW idx \in Int
  PROVE  Steps(n, idx) \in 0..n
  BY DEF Steps

(* Where a position is found at all, an entry is there, or it is the end.  *)
LEMMA PositionIn ==
  ASSUME NEW n \in Nat, NEW len \in Nat, NEW hits \in SUBSET (1..len), NEW idx \in Int, NEW inst
  PROVE  LET p == Position(n, hits, idx, inst, len) IN
         p \in -1..len /\ ("APPEND" \notin inst /\ len > 0 => p < len)
<1>1. CASE n = 0
  <2>1. Position(n, hits, idx, inst, len) \in {-1, 0, len}
    BY <1>1, Zenon DEF Position
  <2>2. "APPEND" \notin inst => Position(n, hits, idx, inst, len) \in {-1, 0}
    BY <1>1, Zenon DEF Position
  <2> QED
    BY <2>1, <2>2
<1>2. CASE n # 0
  <2>1. Steps(n, idx) \in Nat
    BY <1>2, StepsIn
  <2>2. Walk(hits, Steps(n, idx), len) \in 0..len
    BY <2>1, WalkIs
  <2>3. Position(n, hits, idx, inst, len)
          = Walk(hits, Steps(n, idx), len) - (IF "APPEND" \in inst THEN 0 ELSE 1)
    BY <1>2, Zenon DEF Position
  <2> QED
    BY <2>2, <2>3
<1> QED
  BY <1>1, <1>2

(***************************************************************************)
(* The heap stays a heap of nodes                                          *)
(***************************************************************************)
Heap(h) == h = [i \in Ids |-> h[i]] /\ \A i \in Ids : IsNode(h[i])

(* A heap in which one node is replaced.                                   *)
LEMMA HeapPut ==
  ASSUME NEW h, Heap(h), NEW a, NEW x, a \in Ids => IsNode(x)
  PROVE  /\ Heap([h EXCEPT ![a] = x])
         /\ \A i \in Ids : [h EXCEPT ![a] = x][i] = IF i = a THEN x ELSE h[i]
  BY DEF Heap

\* What a change of its entries leaves of a section
But(m, n) ==
  /\ m.kind = n.kind /\ m.name = n.name /\ m.flags = n.flags /\ m.vtype = n.vtype
  /\ m.title = n.title /\ m.vals = n.vals

Titled(m, n) ==
  /\ m.kind = n.kind /\ m.name = n.name /\ m.flags = n.flags /\ m.vtype = n.vtype
  /\ m.vals = n.vals /\ m.opts = n.opts
WithOpts(h, a, x) == [h EXCEPT ![a].opts = x]
WithTitle(h, a, x) == [h EXCEPT ![a].title = x]

(* A heap in which the entries of one section are replaced.                *)
LEMMA HeapOpts ==
  ASSUME NEW h, Heap(h), NEW a \in Ids, NEW x, Array(x)
  PROVE  /\ Heap(WithOpts(h, a, x))
         /\ \A i \in Ids \ {a} : WithOpts(h, a, x)[i] = h[i]
         /\ WithOpts(h, a, x)[a].opts = x /\ But(WithOpts(h, a, x)[a], h[a])
  BY DEF Heap, IsNode, But, WithOpts

\* There is nothing to be changed beside the nodes there are.
LEMMA HeapOutside ==
  ASSUME NEW h, Heap(h), NEW a, a \notin Ids, NEW x
  PROVE  WithOpts(h, a, x) = h /\ WithTitle(h, a, x) = h
<1>1. DOMAIN h = Ids /\ h = [i \in DOMAIN h |-> h[i]]
  BY DEF Heap
<1>2. ASSUME NEW y PROVE [h EXCEPT ![a] = y] = h
  BY <1>1
<1> QED
  BY <1>1, <1>2 DEF WithOpts, WithTitle

(* A heap in which one section gets a title.                               *)
LEMMA HeapTitle ==
  ASSUME NEW h, Heap(h), NEW a \in Ids, NEW x
  PROVE  /\ Heap(WithTitle(h, a, x))
         /\ \A i \in Ids \ {a} : WithTitle(h, a, x)[i] = h[i]
         /\ Titled(WithTitle(h, a, x)[a], h[a])
  BY DEF Heap, IsNode, WithTitle, Titled

\* vt_config_destroy frees what is below the node, and nothing else changes.
LEMMA DestroyIs ==
  ASSUME NEW h, Heap(h), NEW id
  PROVE  /\ Heap(Destroy(h, id))
         /\ \A i \in Ids : Destroy(h, id)[i] = IF i \in Below(h, id) THEN Freed ELSE h[i]
  BY UnusedIs DEF Heap, Destroy

(* Putting a node into a section leaves a heap.                            *)
LEMMA SecSetnIs ==
  ASSUME NEW h, Heap(h), NEW sec, NEW id, NEW idx, NEW inst
  PROVE  Heap(SecSetnCmn(h, sec, id, idx, inst).heap)
<1> DEFINE pos == SecGetnCmn(h, sec, h[id].name, h[id].kind, idx, inst \cup {"SET"})
           opts == h[sec].opts
           grow == opts = <<>> \/ inst \cap Insert # {}
           d == Destroy(h, opts[pos + 1])
           more == PutAt(opts, pos, id, Wild)
           gone == [d[sec].opts EXCEPT ![pos + 1] = id]
<1>1. SecSetnCmn(h, sec, id, idx, inst).heap =
        IF pos < 0 THEN h ELSE IF grow THEN WithOpts(h, sec, more) ELSE WithOpts(d, sec, gone)
  BY DEF SecSetnCmn, WithOpts
<1>2. sec \in Ids => Array(more)
  BY PutAtIs DEF Heap, IsNode
<1>3. Heap(d)
  BY DestroyIs
<1>4. sec \in Ids => Array(gone)
  BY <1>3, ReplacedIs DEF Heap, IsNode
<1> HIDE DEF gone, pos, d, more
<1> QED
  BY <1>1, <1>2, <1>3, <1>4, HeapOpts, HeapOutside

(* Nothing is found in a section without entries, unless something is to   *)
(* be put in.                                                              *)
LEMMA NoEntry ==
  ASSUME NEW h, NEW sec, DOMAIN h[sec].opts = {}, NEW name, NEW kind, NEW idx, NEW inst,
         inst \cap {"PREPEND", "APPEND", "SET"} = {}
  PROVE  SecGetnCmn(h, sec, name, kind, idx, inst) = -1
<1>1. \A hits : Position(0, hits, idx, inst, Len(h[sec].opts)) = -1
  BY NoneFound
<1> QED
  BY <1>1, FS_EmptySet DEF SecGetnCmn

(* Taking one out of a section leaves a heap.                              *)
LEMMA SecUnsetnIs ==
  ASSUME NEW h, Heap(h), NEW sec \in Ids, NEW name, NEW kind, NEW idx, NEW inst
  PROVE  Heap(SecUnsetnCmn(h, sec, name, kind, idx, inst).heap)
<1> DEFINE pos == SecGetnCmn(h, sec, name, kind, idx, inst \ (Insert \cup {"SET"}))
           opts == h[sec].opts
           d == Destroy(h, opts[pos + 1])
           less == [i \in 1..(Len(opts) - 1) |-> IF i <= pos + 1 THEN opts[i] ELSE opts[i - 1]]
<1>1. SecUnsetnCmn(h, sec, name, kind, idx, inst).heap =
        IF pos < 0 THEN h ELSE WithOpts(d, sec, less)
  BY DEF SecUnsetnCmn, WithOpts
<1>2. ASSUME ~(pos < 0) PROVE Len(opts) - 1 \in Nat
  <2>1. CASE DOMAIN opts = {}
    <3>1. pos = -1
      BY <2>1, NoEntry DEF Insert
    <3> QED
      BY <3>1, <1>2
  <2>2. CASE DOMAIN opts # {}
    BY <2>2 DEF Heap, IsNode, Array
  <2> QED
    BY <2>1, <2>2
<1>3. ASSUME ~(pos < 0) PROVE Array(less)
  <2>1. DOMAIN less = 1..(Len(opts) - 1) /\ less = [i \in 1..(Len(opts) - 1) |-> less[i]]
    OBVIOUS
  <2> HIDE DEF less, opts, pos
  <2> QED
    BY <2>1, <1>2, <1>3, ArrayIs
<1>4. ASSUME ~(pos < 0) PROVE Heap(WithOpts(d, sec, less))
  <2>1. Heap(d)
    BY DestroyIs
  <2> HIDE DEF less, d, pos
  <2> QED
    BY <2>1, <1>3, <1>4, HeapOpts
<1> HIDE DEF less, pos, d
<1> QED
  BY <1>1, <1>4

(* Setting a value of an option leaves a heap.                             *)
LEMMA SetnHeap ==
  ASSUME NEW h, Heap(h), NEW opt, NEW val, NEW idx, NEW inst
  PROVE  Heap([h EXCEPT ![opt] = SetnCmn(h[opt], val, idx, inst).node])
  BY SetnIs, HeapPut DEF Heap

(* The nodes that vt_config_defaults makes.                                *)
LEMMA DefaultNodeIs ==
  ASSUME NEW name, NEW flags, NEW type, NEW val
  PROVE  /\ IsNode(OptNode(name, flags, type)) /\ IsNode(SecNode(name, flags))
         /\ LET set == SetnCmn(OptNode(name, flags, type), val, -1, {"SET"}).node IN
            IsNode(set) /\ set.kind = "opt" /\ set.opts = <<>>
         /\ LET set == SetnCmn(OptNode(name, flags, type), val, 0, {"SET"}).node IN
            IsNode(set) /\ set.kind = "opt" /\ set.opts = <<>>
         /\ OptNode(name, flags, type).kind = "opt" /\ OptNode(name, flags, type).opts = <<>>
         /\ SecNode(name, flags).kind = "sec" /\ SecNode(name, flags).opts = <<>>
<1>1. \A k : /\ Node(k, name, flags).opts = <<>> /\ Node(k, name, flags).kind = k
             /\ IsNode(Node(k, name, flags))
  BY PlainNodeIs
<1>2. /\ Node("opt", name, flags).opts = <<>> /\ Node("opt", name, flags).kind = "opt"
      /\ Node("sec", name, flags).opts = <<>> /\ Node("sec", name, flags).kind = "sec"
      /\ IsNode(Node("opt", name, flags)) /\ IsNode(Node("sec", name, flags))
  BY <1>1, Zenon
<1>3. LET n == OptNode(name, flags, type) IN IsNode(n) /\ n.kind = "opt" /\ n.opts = <<>>
  <2> DEFINE m == Node("opt", name, flags)
  <2>1. LET n == [m EXCEPT !.vtype = type] IN IsNode(n) /\ n.kind = m.kind /\ n.opts = m.opts
    <3> HIDE DEF m
    <3> QED
      BY <1>2, TypeIs DEF m
  <2> QED
    BY <1>2, <2>1, Zenon DEF OptNode
<1>4. \A idx : LET set == SetnCmn(OptNode(name, flags, type), val, idx, {"SET"}).node IN
               IsNode(set) /\ set.kind = "opt" /\ set.opts = <<>>
  BY <1>3, SetnIs DEF Beside
<1> QED
  BY <1>2, <1>3, <1>4 DEF SecNode

(* What a token does to the heap.                                          *)
LEMMA ParseCases ==
  ASSUME NEW t, Parse(t)
  PROVE  \/ UNCHANGED <<phase, tree, stack>>
         \/ /\ heap[Top.node].kind = "file" /\ phase' = "defaults"
            /\ stack' = <<Defaults(root, 1)>> /\ UNCHANGED tree
         \/ heap[Top.node].kind = "sec" /\ stack' = Pop /\ UNCHANGED <<phase, tree>>
         \/ Declare(t.v)
         \/ Reject
  BY Zenon DEF Parse

(* What vt_config_parse_sec does to the tree and to the calls that run.    *)
LEMMA ParseSecCases ==
  ASSUME NEW t, ParseSec(t)
  PROVE  \/ UNCHANGED <<phase, tree, stack>>
         \/ stack' = Continue(Frame("parse", Top.node, Def.opts, 0)) /\ UNCHANGED <<phase, tree>>
         \/ /\ heap' = [heap EXCEPT ![Top.node].title = t.v]
            /\ UNCHANGED <<phase, root, said, dropped, why, stack>>
         \/ Reject
  BY Zenon DEF ParseSec

(* What vt_config_parse_opt does to them.                                  *)
LEMMA ParseOptCases ==
  ASSUME NEW t, ParseOpt(t)
  PROVE  \/ stack' = Continue([Top EXCEPT !.expect = "NONE"]) /\ UNCHANGED <<phase, tree>>
         \/ stack' = Pop /\ UNCHANGED <<phase, tree>>
         \/ /\ Store(t.v)
            /\ stack' \in {Continue([Top EXCEPT !.expect = "COMMA"]), Pop}
            /\ UNCHANGED <<phase, root, said, why>>
         \/ Reject
  BY Zenon DEF ParseOpt

(* What the end of the file does: wait, refuse, or make the root.          *)
LEMMA ReadEndCases ==
  ASSUME ReadEnd
  PROVE  /\ phase = "read" /\ UNCHANGED said
         /\ \/ UNCHANGED <<phase, heap, root, stack>>
            \/ phase' = "failed" /\ UNCHANGED <<heap, root, stack, why>>
            \/ /\ FreeIds(heap) # {} /\ phase' = "parse" /\ root' = NewId(heap)
               /\ heap' = [heap EXCEPT ![NewId(heap)] = Node("file", "", {})]
               /\ stack' = <<Frame("parse", NewId(heap), 1, 0)>>
               /\ UNCHANGED why
  BY Zenon DEF ReadEnd

(* The calls that set or take out a value in a section leave a heap.       *)
LEMMA SectionValueHeap ==
  ASSUME Heap(heap), NEW sec, SecValueCalls(sec)
  PROVE  Heap(heap')
<1> USE SetnHeap DEF Setn, Changed
<1>1. PICK opt, val, idx, inst : Setn(opt, val, idx, inst)
  BY Zenon DEF SecValueCalls
<1> QED
  BY <1>1

(* The calls that put a node into a section leave a heap.                  *)
LEMMA OfferHeap ==
  ASSUME Heap(heap), NEW sec, NEW node, IsNode(node), NEW idx, NEW inst, Offer(sec, node, idx, inst)
  PROVE  Heap(heap')
<1> DEFINE id == NewId(heap)
           g == [heap EXCEPT ![id] = node]
<1>1. Heap(g) /\ Heap([heap EXCEPT ![id] = Freed])
  BY HeapPut, UnusedIs
<1>2. Heap(SecSetnCmn(g, sec, id, idx, inst).heap)
  BY <1>1, SecSetnIs
<1>3. heap' = [heap EXCEPT ![id] = Freed] \/ heap' = SecSetnCmn(g, sec, id, idx, inst).heap
  BY DEF Offer, Changed
<1> QED
  BY <1>1, <1>2, <1>3, Zenon

(* So does every call that reads or changes the tree.                      *)
LEMMA CallsHeap ==
  ASSUME Heap(heap), Calls
  PROVE  Heap(heap')
<1>1. ASSUME NEW type, ValueCalls(type) PROVE Heap(heap')
  <2>1. PICK opt, val, idx, inst : opt \in Ids /\ (Setn(opt, val, idx, inst) \/ Unsetn(opt, idx))
    BY <1>1, Zenon DEF ValueCalls
  <2>2. CASE Setn(opt, val, idx, inst)
    BY <2>2, SetnHeap DEF Setn, Changed
  <2>3. CASE Unsetn(opt, idx)
    <3>1. heap' = [heap EXCEPT ![opt] = UnsetnCmn(heap[opt], "", idx, {}).node]
      BY <2>3 DEF Unsetn, Changed
    <3>2. IsNode(UnsetnCmn(heap[opt], "", idx, {}).node)
      BY <2>1, UnsetnIs DEF Heap
    <3> QED
      BY <3>1, <3>2, HeapPut
  <2> QED
    BY <2>1, <2>2, <2>3
<1>2. ASSUME SecCalls PROVE Heap(heap')
  <2>1. PICK sec \in Ids : \/ SecValueCalls(sec) \/ SecSetnOpt(sec) \/ SecSetnSec(sec)
                          \/ SecUnsetnOpt(sec) \/ SecUnsetnSec(sec)
    BY <1>2, Zenon DEF SecCalls
  <2>2. CASE SecValueCalls(sec)
    BY <2>2, SectionValueHeap
  <2>3. CASE SecSetnOpt(sec)
    <3>1. PICK name, type, val, idx, inst :
            Offer(sec, SetnCmn(OptNode(name, {}, type), val, 0, {"SET"}).node, idx, inst)
      BY <2>3, Zenon DEF SecSetnOpt
    <3> QED
      BY <3>1, DefaultNodeIs, OfferHeap
  <2>4. CASE SecSetnSec(sec)
    <3>1. PICK name, idx, inst : Offer(sec, SecNode(name, {}), idx, inst)
      BY <2>4, Zenon DEF SecSetnSec
    <3> QED
      BY <3>1, DefaultNodeIs, OfferHeap
  <2>5. CASE SecUnsetnOpt(sec) \/ SecUnsetnSec(sec)
    <3>1. PICK kind, name, idx, inst :
            heap' = SecUnsetnCmn(heap, sec, Sought(name, inst), kind, idx, inst \cup {"COMPARE"}).heap
      BY <2>5, Zenon DEF SecUnsetnOpt, SecUnsetnSec, SecUnsetn, Changed
    <3> QED
      BY <3>1, SecUnsetnIs
  <2> QED
    BY <2>1, <2>2, <2>3, <2>4, <2>5
<1>3. ASSUME Close PROVE Heap(heap')
  <2>1. heap' = heap \/ heap' = Destroy(heap, root)
    BY <1>3 DEF Close
  <2> QED
    BY <2>1, DestroyIs
<1> QED
  BY <1>1, <1>2, <1>3, Zenon DEF Calls, BoolCalls, IntCalls, FloatCalls, StrCalls

\* The definitions of a name, where the parser is, and the node of an entry
Named(name) ==
  {d \in DOMAIN Schema[Top.level] : Matches(Schema[Top.level][d], Schema[Top.level][d].name, name)}
Entry(def, name) ==
  [Node(def.type, name, def.flags \cup {"NODEFAULT"}) EXCEPT !.vtype = def.vtype]
DefOf(name) == Schema[Top.level][First(Named(name))]
PutEntry(name) ==
  SecSetnCmn([heap EXCEPT ![NewId(heap)] = Entry(DefOf(name), name)], Top.node, NewId(heap), -1,
             {"APPEND", "COMPARE"})

\* A name in the file is refused, or a node is made for it and put into the section.
LEMMA DeclareCases ==
  ASSUME NEW name, Declare(name)
  PROVE  \/ Reject
         \/ /\ Named(name) # {} /\ FreeIds(heap) # {}
            /\ (\E k \in DOMAIN Opts(Top.node) :
                   Matches(DefOf(name), DefOf(name).name, heap[Opts(Top.node)[k]].name))
                 => DefOf(name).type = "sec" /\ "MULTI" \in DefOf(name).flags
            /\ PutEntry(name).pos >= 0
            /\ heap' = PutEntry(name).heap
            /\ why' = IF PutEntry(name).whole THEN "none" ELSE "moved"
            /\ said' = [said EXCEPT ![Top.node] = Append(@, name)]
            /\ stack' = Push(Frame(DefOf(name).type, NewId(heap), Top.level, First(Named(name))))
            /\ UNCHANGED <<phase, root, dropped>>
  BY Zenon DEF Declare, Named, Entry, DefOf, PutEntry

(* The node that the parser makes for a name.                              *)
LEMMA EntryIs ==
  ASSUME NEW def, NEW name
  PROVE  LET n == Entry(def, name) IN
         /\ IsNode(n) /\ n.kind = def.type /\ n.opts = <<>> /\ n.name = name
         /\ n.flags = def.flags \cup {"NODEFAULT"} /\ n.vals = <<>> /\ n.vtype = def.vtype
<1> DEFINE m == Node(def.type, name, def.flags \cup {"NODEFAULT"})
<1>1. /\ IsNode(m) /\ m.kind = def.type /\ m.opts = <<>> /\ m.name = name
      /\ m.flags = def.flags \cup {"NODEFAULT"} /\ m.vals = <<>>
  BY PlainNodeIs
<1>2. LET n == [m EXCEPT !.vtype = def.vtype] IN
      /\ IsNode(n) /\ n.kind = m.kind /\ n.opts = m.opts /\ n.name = m.name
      /\ n.flags = m.flags /\ n.vals = m.vals /\ n.vtype = def.vtype
  <2>1. \A x : LET n == [m EXCEPT !.vtype = x] IN
               /\ IsNode(n) /\ n.kind = m.kind /\ n.opts = m.opts /\ n.name = m.name
               /\ n.flags = m.flags /\ n.vals = m.vals /\ n.vtype = x
    <3> HIDE DEF m
    <3> QED
      BY <1>1, TypeIs
  <2> QED
    BY <2>1, Zenon
<1> QED
  BY <1>1, <1>2, Zenon DEF Entry

(* A token leaves a heap, whatever it is.                                  *)
LEMMA ParseHeap ==
  ASSUME Heap(heap), NEW t, Parse(t) \/ ParseSec(t) \/ ParseOpt(t)
  PROVE  Heap(heap')
<1>1. ASSUME Reject PROVE Heap(heap')
  BY <1>1, DestroyIs DEF Reject
<1>2. ASSUME NEW name, Declare(name) PROVE Heap(heap')
  <2> DEFINE g == [heap EXCEPT ![NewId(heap)] = Entry(DefOf(name), name)]
  <2>1. Reject \/ heap' = PutEntry(name).heap
    BY <1>2, DeclareCases
  <2>2. Heap(g)
    BY EntryIs, HeapPut
  <2>3. Heap(PutEntry(name).heap)
    BY <2>2, SecSetnIs DEF PutEntry
  <2> QED
    BY <2>1, <2>3, <1>1
<1>3. ASSUME NEW v, Store(v) PROVE Heap(heap')
  <2>1. \/ heap' = heap
        \/ heap' = [heap EXCEPT ![Top.node] = SetnCmn(heap[Top.node], v, -1, {"SET", "APPEND"}).node]
    BY <1>3 DEF Store
  <2> QED
    BY <2>1, SetnHeap
<1>4. CASE Parse(t)
  BY <1>1, <1>2, <1>4, ParseCases DEF tree
<1>5. CASE ParseSec(t)
  <2>1. heap' = heap \/ Reject \/ heap' = WithTitle(heap, Top.node, t.v)
    BY <1>5, ParseSecCases, Zenon DEF tree, WithTitle
  <2> QED
    BY <1>1, <2>1, HeapTitle, HeapOutside
<1>6. CASE ParseOpt(t)
  BY <1>1, <1>3, <1>6, ParseOptCases DEF tree
<1> QED
  BY <1>4, <1>5, <1>6

(* So does every step of loading.                                          *)
LEMMA LoadHeap ==
  ASSUME Heap(heap), Load
  PROVE  Heap(heap')
<1>1. ASSUME ReadStep PROVE Heap(heap')
  <2>1. CASE ReadEnd
    <3> DEFINE file == Node("file", "", {})
    <3>1. heap' = heap \/ heap' = [heap EXCEPT ![NewId(heap)] = file]
      BY <2>1, ReadEndCases
    <3>2. IsNode(file)
      BY EmptyArray, Zenon DEF IsNode, Node
    <3> HIDE DEF file
    <3> QED
      BY <3>1, <3>2, HeapPut
  <2> QED
    BY <1>1, <2>1 DEF ReadStep, ReadBlock, ReadInterrupted, ReadFails, tree
<1>2. ASSUME ParseStep PROVE Heap(heap')
  BY <1>2, ParseHeap, Zenon DEF ParseStep
<1>3. ASSUME DefaultsStep PROVE Heap(heap')
  <2>1. CASE DefaultPresent \/ DefaultsStale
    BY <2>1 DEF DefaultPresent, DefaultsStale
  <2>2. CASE DefaultSec
    <3>1. PICK id : heap' = [heap EXCEPT ![id] = SecNode(Def.name, Def.flags \ {"LIST", "NODEFAULT"})]
      BY <2>2 DEF DefaultSec
    <3> QED
      BY <3>1, DefaultNodeIs, HeapPut
  <2>3. CASE DefaultOpt
    <3> DEFINE node == OptNode(Def.name, Def.flags \ {"LIST", "TITLE", "NODEFAULT"}, Def.vtype)
               set == IF "NODEFAULT" \in Def.flags THEN node ELSE SetnCmn(node, Def.val, -1, {"SET"}).node
               g == [heap EXCEPT ![NewId(heap)] = set]
    <3>1. heap' = Attach(Top.node, g, NewId(heap)).heap
      BY <2>3 DEF DefaultOpt
    <3>2. IsNode(set)
      BY DefaultNodeIs
    <3>3. Heap(g)
      <4> HIDE DEF set
      <4> QED
        BY <3>2, HeapPut
    <3> HIDE DEF g
    <3> QED
      BY <3>1, <3>3, SecSetnIs DEF Attach
  <2>4. CASE DefaultsReturn
    <3>1. heap' = heap \/ \E sec, id : heap' = Attach(sec, heap, id).heap
      BY <2>4, Zenon DEF DefaultsReturn
    <3> QED
      BY <3>1, SecSetnIs DEF Attach
  <2>5. CASE DefaultsFail
    <3>1. heap' = heap \/ heap' = [i \in Ids |-> IF heap[i] = Unused THEN Unused ELSE Freed]
      BY <2>5 DEF DefaultsFail
    <3> QED
      BY <3>1, UnusedIs DEF Heap
  <2> QED
    BY <1>3, <2>1, <2>2, <2>3, <2>4, <2>5 DEF DefaultsStep
<1>4. ASSUME Validate PROVE Heap(heap')
  BY <1>4, DestroyIs DEF Validate, Reject, tree
<1> QED
  BY <1>1, <1>2, <1>3, <1>4 DEF Load

(* The first invariant: the nodes are nodes, with whole arrays.            *)
LEMMA HeapAlways == ConfigSpec => []Heap(heap)
<1>1. ConfigInit => Heap(heap)
  BY UnusedIs DEF ConfigInit, Heap
<1>2. Heap(heap) /\ [ConfigNext]_vars => Heap(heap)'
  BY LoadHeap, CallsHeap DEF ConfigNext, vars, tree
<1> QED
  BY <1>1, <1>2, PTL DEF ConfigSpec

(***************************************************************************)
(* Look-ups                                                                *)
(***************************************************************************)

(* A value by its index.                                                   *)
LEMMA GetnRight ==
  ASSUME Heap(heap), NEW opt \in Ids, NEW idx \in Int
  PROVE  LET n == Len(heap[opt].vals)
             pos == Getn(opt, idx)
         IN  /\ n = 0 => pos = -1
             /\ n > 0 /\ idx >= n => pos = n - 1
             /\ idx \in 0..(n - 1) => pos = idx
             /\ n > 0 /\ idx \in (-n - 1)..(-1) => pos = n + idx
             /\ n > 0 /\ idx < -n - 1 => pos = 0
<1> DEFINE n == Len(heap[opt].vals)
<1>1. n \in Nat /\ DOMAIN heap[opt].vals = 1..n
  BY DEF Heap, IsNode, Array
<1>2. Getn(opt, idx) = Position(Cardinality(1..n), 1..n, idx, {}, n)
  <2>1. {i \in DOMAIN heap[opt].vals : "COMPARE" \in {} => heap[opt].vals[i] = ""} = 1..n
    BY <1>1
  <2> QED
    BY <2>1 DEF Getn, GetnCmn
<1>3. Cardinality(1..n) = n
  <2>1. 1 \in Int /\ n \in Int /\ (IF 1 > n THEN 0 ELSE n - 1 + 1) = n
    BY <1>1
  <2> HIDE DEF n
  <2> QED
    BY ONLY <2>1, FS_Interval
<1> HIDE DEF n
<1>4. CASE n = 0
  BY <1>2, <1>3, <1>4, NoneFound DEF n
<1>5. CASE n # 0
  <2>1. Steps(n, idx) \in 0..n
    BY <1>1, <1>5, StepsIn
  <2>2. Getn(opt, idx) = Walk(1..n, Steps(n, idx), n) - 1
    BY <1>2, <1>3, <1>5, Zenon DEF Position
  <2>3. Getn(opt, idx) = Steps(n, idx) - 1
    BY <1>1, <2>1, <2>2, WalkAll
  <2> QED
    BY <1>1, <1>5, <2>3 DEF Steps, n
<1> QED
  BY <1>4, <1>5

(* A section by its name and its place among those of the name.            *)
LEMMA GetnSecRight ==
  ASSUME Heap(heap), NEW sec \in Ids, NEW name \in Words, NEW k \in 1..GetnSecs(sec, name),
         GetnSec(sec, name, k - 1, {"COMPARE"}) >= 0
  PROVE  LET pos == GetnSec(sec, name, k - 1, {"COMPARE"}) IN
         /\ SameName(heap[Opts(sec)[pos + 1]].name, name)
         /\ Cardinality({j \in 1..(pos + 1) : SameName(heap[Opts(sec)[j]].name, name)}) >= k
<1> DEFINE opts == Opts(sec)
           len == Len(opts)
           same == {i \in DOMAIN opts : SameName(heap[opts[i]].name, name)}
           fits == {i \in DOMAIN opts : "sec" \in {"none", heap[opts[i]].kind}}
           secs == {i \in DOMAIN opts : heap[opts[i]].kind = "sec" /\ Matches(heap[opts[i]], heap[opts[i]].name, name)}
           pos == GetnSec(sec, name, k - 1, {"COMPARE"})
<1>1. len \in Nat /\ DOMAIN opts = 1..len
  BY DEF Heap, IsNode, Array, Opts
<1>2. name # ""
  BY WordsAssumption
<1>3. same \subseteq fits /\ pos = Position(Cardinality(same), same \cap fits, k - 1, {"COMPARE"}, len)
  <2>1. GetnSec(sec, name, k - 1, {"COMPARE"}) = SecGetnCmn(heap, sec, name, "sec", k - 1, {"COMPARE"})
    BY DEF GetnSec, Sought
  <2>2. SecGetnCmn(heap, sec, name, "sec", k - 1, {"COMPARE"}) =
          IF (\E i, j \in same : heap[opts[i]].kind # heap[opts[j]].kind)
               \/ ~(same \subseteq fits)
               \/ (same # {} /\ ("sec" = "opt" /\ "COMPARE" \in {"COMPARE"}
                                   /\ {"COMPARE"} \cap (Insert \cup {"SET"}) # {}))
          THEN -1
          ELSE Position(Cardinality(same), same \cap fits, k - 1, {"COMPARE"}, len)
    BY <1>2, Zenon DEF SecGetnCmn, Opts
  <2>3. ~(-1 >= 0)
    OBVIOUS
  <2> QED
    BY <2>1, <2>2, <2>3, Zenon
<1>4. secs \subseteq same /\ same \in SUBSET (1..len) /\ same \cap fits = same
  BY <1>1, <1>3 DEF Matches, SameName
<1>5. GetnSecs(sec, name) = Cardinality(secs)
  BY DEF GetnSecs
<1> HIDE DEF same, secs, fits, len, opts
<1>6. Cardinality(secs) <= Cardinality(same) /\ Cardinality(secs) \in Nat /\ Cardinality(same) \in Nat
  BY <1>1, <1>4, HitsFinite, FS_Subset, FS_CardinalityType
<1> DEFINE n == Cardinality(same)
<1>7. k \in 1..n /\ n \in Nat
  BY <1>5, <1>6
<1>8. pos = Walk(same, k, len) - 1
  <2>1. Steps(n, k - 1) = k
    BY <1>7 DEF Steps
  <2>2. n # 0
    BY <1>7
  <2>3. pos = Walk(same, Steps(n, k - 1), len) - 1
    <3>1. "APPEND" \notin {"COMPARE"}
      OBVIOUS
    <3> QED
      BY <1>3, <1>4, <2>2, <3>1, Zenon DEF Position
  <2> QED
    BY <2>1, <2>3
<1>9. Walk(same, k, len) \in same /\ NUpto(same, Walk(same, k, len)) >= k
  BY <1>1, <1>4, <1>7, WalkHits
<1>10. pos + 1 = Walk(same, k, len) /\ pos + 1 \in 1..len
  <2>1. Walk(same, k, len) \in 1..len
    BY <1>4, <1>9
  <2> HIDE DEF pos
  <2> QED
    BY <1>1, <1>8, <2>1
<1>11. {j \in 1..(pos + 1) : SameName(heap[opts[j]].name, name)} = Upto(same, pos + 1)
  <2> HIDE DEF pos
  <2> QED
    BY <1>1, <1>10 DEF Upto, same
<1> HIDE DEF pos
<1>12. SameName(heap[opts[pos + 1]].name, name)
  BY <1>9, <1>10 DEF same
<1> QED
  BY <1>9, <1>10, <1>11, <1>12 DEF NUpto, pos, opts

(* Indices find what they say, in options and in sections, whatever was    *)
(* put in, taken out or spoilt before.                                     *)
THEOREM LookupsSafety == ConfigSpec => []Lookups
<1>1. Heap(heap) => Lookups
  <2> SUFFICES ASSUME Heap(heap) PROVE Lookups
    OBVIOUS
  <2>1. \A idx \in -4..3 : idx \in Int
    OBVIOUS
  <2> QED
    BY <2>1, GetnRight, GetnSecRight, Zenon DEF Lookups
<1> QED
  BY <1>1, HeapAlways, PTL

(***************************************************************************)
(* What is below a node.  An entry is younger than the section it is in,   *)
(* so that the function that collects what is below is well defined: it is *)
(* the least set that has the node and, with a node, its entries.          *)
(***************************************************************************)
Kids(h, S) == UNION {{h[i].opts[k] : k \in DOMAIN h[i].opts} : i \in S}
Rising(h) == \A s \in Ids : \A k \in DOMAIN h[s].opts : h[s].opts[k] \in Ids /\ h[s].opts[k] > s
Closed(h, C) == C \subseteq Ids /\ Kids(h, C) \subseteq C
Desc(h, S) == {x \in Ids : \A C \in SUBSET Ids : S \subseteq C /\ Closed(h, C) => x \in C}

(* The entries of some sections are younger than one of them.              *)
LEMMA KidsIn ==
  ASSUME NEW h, Rising(h), NEW S \in SUBSET Ids
  PROVE  Kids(h, S) \in SUBSET Ids /\ \A x \in Kids(h, S) : \E s \in S : x > s
  BY DEF Kids, Rising

(* There is a least closed set.                                            *)
LEMMA DescIs ==
  ASSUME NEW h, Rising(h), NEW S \in SUBSET Ids
  PROVE  /\ S \subseteq Desc(h, S) /\ Closed(h, Desc(h, S))
         /\ \A C \in SUBSET Ids : S \subseteq C /\ Closed(h, C) => Desc(h, S) \subseteq C
<1>1. S \subseteq Desc(h, S) /\ Desc(h, S) \subseteq Ids
  BY DEF Desc
<1>2. \A C \in SUBSET Ids : S \subseteq C /\ Closed(h, C) => Desc(h, S) \subseteq C
  BY DEF Desc
<1>3. Kids(h, Desc(h, S)) \subseteq Desc(h, S)
  <2>1. SUFFICES ASSUME NEW x \in Kids(h, Desc(h, S)),
                        NEW C \in SUBSET Ids, S \subseteq C, Closed(h, C)
                 PROVE  x \in C
    BY <1>1, KidsIn DEF Desc
  <2>2. Kids(h, Desc(h, S)) \subseteq Kids(h, C)
    BY <1>2, <2>1 DEF Kids
  <2> QED
    BY <2>1, <2>2 DEF Closed
<1> QED
  BY <1>1, <1>2, <1>3 DEF Closed

(* A set, and what is below its entries.                                   *)
LEMMA DescStep ==
  ASSUME NEW h, Rising(h), NEW S \in SUBSET Ids
  PROVE  /\ Desc(h, {}) = {}
         /\ Desc(h, S) = S \cup Desc(h, Kids(h, S))
<1>1. Desc(h, {}) = {}
  <2>1. Closed(h, {})
    BY DEF Closed, Kids
  <2> QED
    BY <2>1 DEF Desc
<1> DEFINE D == Desc(h, S)
           E == Desc(h, Kids(h, S))
<1>2. /\ S \subseteq D /\ Closed(h, D)
      /\ \A C \in SUBSET Ids : S \subseteq C /\ Closed(h, C) => D \subseteq C
  BY DescIs
<1>3. /\ Kids(h, S) \in SUBSET Ids /\ Kids(h, S) \subseteq E /\ Closed(h, E)
      /\ \A C \in SUBSET Ids : Kids(h, S) \subseteq C /\ Closed(h, C) => E \subseteq C
  BY KidsIn, DescIs
<1> HIDE DEF D, E
<1>4. Kids(h, S) \subseteq D /\ D \in SUBSET Ids
  BY <1>2 DEF Kids, Closed
<1>5. E \subseteq D
  BY <1>2, <1>3, <1>4
<1>6. Closed(h, S \cup E)
  BY <1>3 DEF Closed, Kids
<1>7. D \subseteq S \cup E
  BY <1>2, <1>3, <1>6 DEF Closed
<1> QED
  BY <1>1, <1>2, <1>5, <1>7 DEF D, E

(* What vt_config_destroy collects, section by section, is that set.       *)
LEMMA BelowIs ==
  ASSUME NEW h, Rising(h), NEW id \in Ids
  PROVE  Below(h, id) = Desc(h, {id})
<1> DEFINE Collects(f) == f = [S \in SUBSET Ids |-> IF S = {} THEN {} ELSE S \cup f[Kids(h, S)]]
           down == CHOOSE f : Collects(f)
           all == [S \in SUBSET Ids |-> Desc(h, S)]
           Up(S) == {i \in Ids : \E s \in S : s <= i}
           bad == {S \in SUBSET Ids : down[S] # Desc(h, S)}
<1>1. Collects(all)
  <2>1. \A S \in SUBSET Ids : Desc(h, S) = IF S = {} THEN {} ELSE S \cup all[Kids(h, S)]
    BY DescStep, KidsIn
  <2> QED
    BY <2>1
<1>2. Collects(down)
  <2> HIDE DEF Collects, all
  <2> QED
    BY <1>1
<1>3. \A S \in SUBSET Ids : down[S] = IF S = {} THEN {} ELSE S \cup down[Kids(h, S)]
  <2> HIDE DEF down
  <2> QED
    BY <1>2
<1> HIDE DEF down, Collects
<1>4. bad = {}
  <2>1. SUFFICES ASSUME bad # {} PROVE FALSE
    OBVIOUS
  <2> DEFINE T == {Up(S) : S \in bad}
  <2>2. PICK U \in T : \A V \in T : ~(<<V, U>> \in StrictSubsetOrdering(Ids))
    <3>1. T \subseteq FiniteSubsetsOf(Ids) /\ T # {}
      <4>1. FiniteSubsetsOf(Ids) = SUBSET Ids
        BY IdsAssumption, FS_FiniteSubsetsOfFinite
      <4>2. \A S : Up(S) \in SUBSET Ids
        OBVIOUS
      <4> HIDE DEF Up, bad
      <4> QED
        BY <2>1, <4>1, <4>2
    <3> HIDE DEF T
    <3> QED
      BY <3>1, FS_StrictSubsetOrderingWellFounded, WFMin
  <2>3. PICK S \in bad : U = Up(S)
    BY <2>2
  <2>4. S \in SUBSET Ids /\ down[S] # Desc(h, S)
    BY <2>3
  <2>5. S # {}
    BY <1>3, <2>4, DescStep
  <2>6. Kids(h, S) \in bad
    <3>1. Kids(h, S) \in SUBSET Ids
      BY <2>4, KidsIn
    <3>2. down[S] = S \cup down[Kids(h, S)] /\ Desc(h, S) = S \cup Desc(h, Kids(h, S))
      BY <1>3, <2>4, <2>5, DescStep
    <3> QED
      BY <2>4, <3>1, <3>2
  <2>7. PICK m \in S : \A s \in S : m <= s
    BY <2>4, <2>5, IdsAssumption, LeastNat
  <2>8. Up(Kids(h, S)) \subseteq Up(S) /\ m \in Up(S) /\ m \notin Up(Kids(h, S))
    <3>1. \A x \in Kids(h, S) : x \in Nat /\ \E s \in S : s \in Nat /\ x > s /\ m <= s
      BY <2>4, <2>7, KidsIn, IdsAssumption
    <3>2. m \in Ids /\ m \in Nat /\ \A i \in Ids : i \in Nat
      BY <2>4, IdsAssumption
    <3>3. ASSUME NEW i \in Up(Kids(h, S)) PROVE i \in Up(S) /\ i > m
      <4>1. PICK x \in Kids(h, S) : x <= i
        OBVIOUS
      <4>2. PICK s \in S : s \in Nat /\ x > s /\ m <= s
        BY <3>1
      <4>3. x \in Nat /\ i \in Nat /\ i \in Ids
        BY <3>1, <3>2
      <4>4. s <= i /\ i > m
        BY <4>1, <4>2, <4>3, <3>2
      <4> QED
        BY <4>3, <4>4
    <3>4. m \in Up(S)
      BY <3>2
    <3>5. m \notin Up(Kids(h, S))
      <4>1. ~(m > m)
        BY <3>2
      <4> HIDE DEF Up
      <4> QED
        BY <3>3, <4>1
    <3> HIDE DEF Up
    <3> QED
      BY <3>3, <3>4, <3>5
  <2>9. Up(Kids(h, S)) \in T /\ <<Up(Kids(h, S)), Up(S)>> \in StrictSubsetOrdering(Ids)
    BY <2>6, <2>8 DEF StrictSubsetOrdering
  <2> QED
    BY <2>2, <2>3, <2>9
<1>5. down[{id}] = Desc(h, {id})
  BY <1>4
<1>6. Below(h, id) = down[{id}]
  BY DEF Below, down, Collects, Kids
<1> QED
  BY <1>5, <1>6

(***************************************************************************)
(* The tree.  `out` are the nodes that no section holds: the root, and     *)
(* what vt_config_defaults has in its hands.                               *)
(***************************************************************************)
IsLive(n) == IsOpt(n) \/ IsSec(n)
Holds(h, s, i) == \E k \in DOMAIN h[s].opts : h[s].opts[k] = i

Alive(h, out) ==
  \A s \in Ids : \A k \in DOMAIN h[s].opts : IsLive(h[h[s].opts[k]]) /\ h[s].opts[k] \notin out
Once(h) ==
  \A s, t \in Ids : \A k \in DOMAIN h[s].opts : \A l \in DOMAIN h[t].opts :
    h[s].opts[k] = h[t].opts[l] => s = t /\ k = l
Kept(h, out) == \A i \in Ids : IsLive(h[i]) => i \in out \/ \E s \in Ids : Holds(h, s, i)
OnlySecs(h) == \A s \in Ids : DOMAIN h[s].opts # {} => IsSec(h[s])
InTurn(h) == \A i, j \in Ids : h[i].kind = "unused" /\ j > i => h[j].kind = "unused"
Tree(h, out) ==
  Rising(h) /\ Alive(h, out) /\ Once(h) /\ Kept(h, out) /\ OnlySecs(h) /\ InTurn(h)

(* The next node is the first that was not used yet.                       *)
LEMMA NewIs ==
  ASSUME NEW h, FreeIds(h) # {}
  PROVE  /\ NewId(h) \in Ids /\ h[NewId(h)].kind = "unused"
         /\ \A j \in Ids : h[j].kind = "unused" => NewId(h) <= j
<1>1. FreeIds(h) \subseteq Nat
  BY IdsAssumption DEF FreeIds
<1>2. \E n \in FreeIds(h) : \A m \in FreeIds(h) : n <= m
  BY <1>1, LeastNat
<1>3. NewId(h) \in FreeIds(h) /\ \A m \in FreeIds(h) : NewId(h) <= m
  BY <1>2 DEF NewId
<1> QED
  BY <1>3 DEF FreeIds

(* A new node is younger than all there are.                               *)
LEMMA Younger ==
  ASSUME NEW h, InTurn(h), FreeIds(h) # {}
  PROVE  \A j \in Ids : h[j].kind # "unused" => j < NewId(h)
<1>1. SUFFICES ASSUME NEW j \in Ids, h[j].kind # "unused", ~(j < NewId(h)) PROVE FALSE
  OBVIOUS
<1>2. NewId(h) \in Ids /\ h[NewId(h)].kind = "unused"
  BY NewIs
<1>3. j # NewId(h) /\ j \in Nat /\ NewId(h) \in Nat
  BY <1>1, <1>2, IdsAssumption
<1>4. j > NewId(h)
  BY <1>1, <1>3
<1> QED
  BY <1>1, <1>2, <1>4 DEF InTurn

WithNew(h, n) == [h EXCEPT ![NewId(h)] = n]
Stays(h, g) == \A j \in Ids : h[j].kind # "unused" => g[j] = h[j]

(* A node that was just made is alive, and in the hands of who made it.    *)
LEMMA TreeNew ==
  ASSUME NEW h, Heap(h), NEW out, Tree(h, out), FreeIds(h) # {}, NEW n, IsNode(n), IsLive(n), n.opts = <<>>
  PROVE  /\ Heap(WithNew(h, n))
         /\ Tree(WithNew(h, n), out \cup {NewId(h)})
         /\ Stays(h, WithNew(h, n))
         /\ WithNew(h, n)[NewId(h)] = n
<1> DEFINE id == NewId(h)
           g == [h EXCEPT ![id] = n]
<1>1. id \in Ids /\ h[id].kind = "unused" /\ \A j \in Ids : h[j].kind = "unused" => id <= j
  BY NewIs
<1>2. Heap(g) /\ \A i \in Ids : g[i] = IF i = id THEN n ELSE h[i]
  <2>1. IsNode(n) /\ Heap(h)
    OBVIOUS
  <2> HIDE DEF id
  <2>2. Heap([h EXCEPT ![id] = n])
    BY ONLY <2>1, HeapPut
  <2>3. \A i \in Ids : [h EXCEPT ![id] = n][i] = IF i = id THEN n ELSE h[i]
    BY <2>1 DEF Heap
  <2> QED
    BY <2>2, <2>3
<1> HIDE DEF g, id
<1>3. DOMAIN n.opts = {}
  BY EmptyArray
<1>4. h[id].kind \notin {"opt", "file", "sec"}
  BY <1>1
<1>5. Rising(g) /\ Once(g) /\ OnlySecs(g)
  <2>1. \A s \in Ids : DOMAIN g[s].opts # {} => s # id /\ g[s] = h[s]
    BY <1>2, <1>3
  <2>2. \A s \in Ids : \A k \in DOMAIN g[s].opts : g[s] = h[s]
    BY <2>1
  <2>3. Rising(g)
    BY <2>2 DEF Tree, Rising
  <2>4. Once(g)
    BY <2>2 DEF Tree, Once
  <2>5. OnlySecs(g)
    BY <2>1 DEF Tree, OnlySecs
  <2> QED
    BY <2>3, <2>4, <2>5
<1>6. Alive(g, out \cup {id})
  <2>1. SUFFICES ASSUME NEW s \in Ids, NEW k \in DOMAIN g[s].opts
                 PROVE  IsLive(g[g[s].opts[k]]) /\ g[s].opts[k] \notin out \cup {id}
    BY DEF Alive
  <2>2. s # id /\ g[s] = h[s]
    BY <1>2, <1>3
  <2>3. IsLive(h[h[s].opts[k]]) /\ h[s].opts[k] \notin out /\ h[s].opts[k] \in Ids
    BY <2>2 DEF Tree, Alive, Rising
  <2>4. h[s].opts[k] # id
    BY <1>4, <2>3 DEF IsLive, IsOpt, IsSec
  <2> QED
    BY <1>2, <2>2, <2>3, <2>4
<1>7. Kept(g, out \cup {id})
  <2>1. SUFFICES ASSUME NEW i \in Ids, IsLive(g[i]), i \notin out, i # id
                 PROVE  \E s \in Ids : Holds(g, s, i)
    BY DEF Kept
  <2>2. PICK s \in Ids : Holds(h, s, i)
    BY <1>2, <2>1 DEF Tree, Kept
  <2>3. s # id
    BY <1>4, <2>2 DEF Tree, OnlySecs, IsSec, Holds
  <2> QED
    BY <1>2, <2>2, <2>3 DEF Holds
<1>8. InTurn(g)
  <2>1. SUFFICES ASSUME NEW i \in Ids, NEW j \in Ids, g[i].kind = "unused", j > i
                 PROVE  g[j].kind = "unused"
    BY DEF InTurn
  <2>2. i # id
    BY <1>2, <2>1 DEF IsLive, IsOpt, IsSec
  <2>3. h[i].kind = "unused" /\ h[j].kind = "unused" /\ id <= i
    BY <1>1, <1>2, <2>1, <2>2 DEF Tree, InTurn
  <2>4. j # id
    BY <1>1, <2>1, <2>3, IdsAssumption
  <2> QED
    BY <1>2, <2>3, <2>4
<1>9. Tree(g, out \cup {id})
  BY <1>5, <1>6, <1>7, <1>8 DEF Tree
<1> QED
  BY <1>1, <1>2, <1>9 DEF g, id, WithNew, Stays

(* A node that is in nobody's section goes to the end of one.              *)
LEMMA TreeAppend ==
  ASSUME NEW h, Heap(h), NEW out, Tree(h, out), NEW sec \in Ids, IsSec(h[sec]),
         NEW id \in Ids, id \in out, id > sec, IsLive(h[id]),
         NEW x, Array(x), Len(x) = Len(h[sec].opts) + 1, x[Len(x)] = id,
         \A k \in DOMAIN h[sec].opts : x[k] = h[sec].opts[k]
  PROVE  Heap(WithOpts(h, sec, x)) /\ Tree(WithOpts(h, sec, x), out \ {id})
<1> DEFINE g == WithOpts(h, sec, x)
           n == Len(h[sec].opts)
<1>1. /\ Heap(g) /\ \A i \in Ids \ {sec} : g[i] = h[i]
      /\ g[sec].opts = x /\ g[sec].kind = h[sec].kind
  BY HeapOpts DEF But
<1>2. n \in Nat /\ DOMAIN h[sec].opts = 1..n /\ DOMAIN x = 1..(n + 1) /\ x[n + 1] = id
  BY DEF Heap, IsNode, Array
<1> HIDE DEF g, n
\* What an entry is: one there was, or the new one
<1>3. ASSUME NEW s \in Ids, NEW k \in DOMAIN g[s].opts
      PROVE  \/ k \in DOMAIN h[s].opts /\ g[s].opts[k] = h[s].opts[k] /\ ~(s = sec /\ k = n + 1)
             \/ s = sec /\ k = n + 1 /\ g[s].opts[k] = id
  <2>1. CASE s # sec
    BY <1>1, <2>1
  <2>2. CASE s = sec
    BY <1>1, <1>2, <2>2 DEF n
  <2> QED
    BY <2>1, <2>2
<1>4. \A s \in Ids : \A k \in DOMAIN h[s].opts : h[s].opts[k] \in Ids /\ h[s].opts[k] # id
  BY DEF Tree, Rising, Alive
<1>5. \A i \in Ids : g[i].kind = h[i].kind
  BY <1>1
<1>6. \A i \in Ids : (IsLive(g[i]) <=> IsLive(h[i])) /\ (IsSec(g[i]) <=> IsSec(h[i]))
  BY <1>5 DEF IsLive, IsOpt, IsSec
<1>7. Rising(g)
  BY <1>3 DEF Tree, Rising
<1>8. Alive(g, out \ {id})
  <2>1. SUFFICES ASSUME NEW s \in Ids, NEW k \in DOMAIN g[s].opts
                 PROVE  IsLive(g[g[s].opts[k]]) /\ g[s].opts[k] \notin out \ {id}
    BY DEF Alive
  <2> QED
    BY <1>3, <1>4, <1>6 DEF Tree, Alive
<1>9. Once(g)
  <2>1. SUFFICES ASSUME NEW s \in Ids, NEW t \in Ids, NEW k \in DOMAIN g[s].opts,
                        NEW l \in DOMAIN g[t].opts, g[s].opts[k] = g[t].opts[l]
                 PROVE  s = t /\ k = l
    BY DEF Once
  <2>2. CASE g[s].opts[k] = id
    <3>1. ASSUME NEW r \in Ids, NEW m \in DOMAIN g[r].opts, g[r].opts[m] = id
          PROVE  r = sec /\ m = n + 1
      BY <1>3, <1>4, <3>1
    <3>2. g[t].opts[l] = id
      BY <2>1, <2>2
    <3>3. (s = sec /\ k = n + 1) /\ (t = sec /\ l = n + 1)
      BY <2>2, <3>1, <3>2, Zenon
    <3> QED
      BY <3>3
  <2>3. CASE g[s].opts[k] # id
    <3>1. ASSUME NEW r \in Ids, NEW m \in DOMAIN g[r].opts, g[r].opts[m] # id
          PROVE  m \in DOMAIN h[r].opts /\ g[r].opts[m] = h[r].opts[m]
      BY <1>3, <3>1
    <3> QED
      BY <2>1, <2>3, <3>1 DEF Tree, Once
  <2> QED
    BY <2>2, <2>3
<1>10. Kept(g, out \ {id})
  <2>1. SUFFICES ASSUME NEW i \in Ids, IsLive(g[i]), i \notin out \ {id}
                 PROVE  \E s \in Ids : Holds(g, s, i)
    BY DEF Kept
  <2>2. CASE i = id
    BY <1>1, <1>2, <2>2 DEF Holds
  <2>3. CASE i # id
    <3>1. PICK s \in Ids : Holds(h, s, i)
      BY <1>6, <2>1, <2>3 DEF Tree, Kept
    <3>2. CASE s # sec
      BY <1>1, <3>1, <3>2 DEF Holds
    <3>3. CASE s = sec
      <4>1. PICK k \in DOMAIN h[s].opts : h[s].opts[k] = i
        BY <3>1 DEF Holds
      <4>2. k \in DOMAIN x /\ x[k] = i
        BY <1>2, <3>3, <4>1
      <4> QED
        BY <1>1, <4>2 DEF Holds
    <3> QED
      BY <3>2, <3>3
  <2> QED
    BY <2>2, <2>3
<1>11. OnlySecs(g)
  BY <1>1, <1>6 DEF Tree, OnlySecs
<1>12. InTurn(g)
  BY <1>5 DEF Tree, InTurn
<1> QED
  BY <1>1, <1>7, <1>8, <1>9, <1>10, <1>11, <1>12 DEF Tree, g

(* Changes that leave the kinds and the entries alone.                     *)
LEMMA TreeSame ==
  ASSUME NEW h, NEW out, Tree(h, out), NEW g,
         \A i \in Ids : g[i].kind = h[i].kind /\ g[i].opts = h[i].opts
  PROVE  Tree(g, out)
<1>1. \A i \in Ids : (IsLive(g[i]) <=> IsLive(h[i])) /\ (IsSec(g[i]) <=> IsSec(h[i]))
  BY DEF IsLive, IsOpt, IsSec
<1>2. Rising(g) /\ Once(g) /\ InTurn(g)
  BY DEF Tree, Rising, Once, InTurn
<1>3. Alive(g, out)
  BY <1>1 DEF Tree, Alive, Rising
<1>4. Kept(g, out) /\ OnlySecs(g)
  BY <1>1 DEF Tree, Kept, Holds, OnlySecs
<1> QED
  BY <1>2, <1>3, <1>4 DEF Tree

(* What is below an entry hangs on that entry alone.                       *)
LEMMA BranchIs ==
  ASSUME NEW h, NEW out, Tree(h, out), NEW sec \in Ids, NEW pos \in DOMAIN h[sec].opts
  PROVE  LET y == h[sec].opts[pos]
             B == Below(h, y)
         IN  /\ y \in B /\ B \subseteq Ids /\ sec \notin B
             /\ \A b \in B : b \notin out /\ IsLive(h[b])
             /\ \A s \in B : \A k \in DOMAIN h[s].opts : h[s].opts[k] \in B
             /\ \A s \in Ids \ B : \A k \in DOMAIN h[s].opts :
                  h[s].opts[k] \in B => s = sec /\ k = pos
<1> DEFINE y == h[sec].opts[pos]
           B == Below(h, y)
<1>1. y \in Ids /\ y > sec /\ Rising(h) /\ IsLive(h[y]) /\ y \notin out
  BY DEF Tree, Rising, Alive
<1>2. B = Desc(h, {y})
  BY <1>1, BelowIs
<1>3. /\ y \in B /\ Closed(h, B)
      /\ \A C \in SUBSET Ids : y \in C /\ Closed(h, C) => B \subseteq C
  <2>1. {y} \in SUBSET Ids
    BY <1>1
  <2>2. /\ {y} \subseteq Desc(h, {y}) /\ Closed(h, Desc(h, {y}))
        /\ \A C \in SUBSET Ids : {y} \subseteq C /\ Closed(h, C) => Desc(h, {y}) \subseteq C
    BY <1>1, <2>1, DescIs
  <2> HIDE DEF B, y
  <2> QED
    BY <1>2, <2>2
<1> HIDE DEF B
<1>4. \A s \in B : \A k \in DOMAIN h[s].opts : h[s].opts[k] \in B
  BY <1>3 DEF Closed, Kids
<1>5. B \subseteq Ids
  BY <1>3 DEF Closed
<1>6. sec \notin B
  <2> DEFINE C == {i \in Ids : i >= y}
  <2>0. y \in Nat /\ sec \in Nat
    BY <1>1, IdsAssumption
  <2>1. C \in SUBSET Ids /\ y \in C /\ sec \notin C
    <3> HIDE DEF y
    <3> QED
      BY <1>1, <2>0
  <2>2. Kids(h, C) \subseteq C
    <3>1. SUFFICES ASSUME NEW i \in Ids, i >= y, NEW k \in DOMAIN h[i].opts
                   PROVE  h[i].opts[k] \in Ids /\ h[i].opts[k] >= y
      BY DEF Kids
    <3>2. h[i].opts[k] \in Ids /\ h[i].opts[k] > i
      BY <1>1 DEF Rising
    <3>3. y \in Nat /\ i \in Nat /\ h[i].opts[k] \in Nat
      BY <1>1, <3>2, IdsAssumption
    <3> HIDE DEF y
    <3> QED
      BY <3>1, <3>2, <3>3
  <2> HIDE DEF C
  <2> QED
    BY <1>3, <2>1, <2>2 DEF Closed
<1>7. \A b \in B : b = y \/ \E s \in B : Holds(h, s, b)
  <2> DEFINE C == {b \in B : b = y \/ \E s \in B : Holds(h, s, b)}
  <2>1. C \in SUBSET Ids /\ y \in C
    BY <1>3, <1>5
  <2>2. Kids(h, C) \subseteq C
    <3>1. SUFFICES ASSUME NEW s \in C, NEW k \in DOMAIN h[s].opts PROVE h[s].opts[k] \in C
      BY DEF Kids
    <3>2. s \in B
      OBVIOUS
    <3>3. h[s].opts[k] \in B /\ Holds(h, s, h[s].opts[k])
      BY <1>4, <3>2 DEF Holds
    <3> QED
      BY <3>2, <3>3
  <2>3. B \subseteq C
    <3> HIDE DEF C
    <3> QED
      BY <1>3, <2>1, <2>2 DEF Closed
  <2> QED
    BY <2>3
<1>8. \A b \in B : b \notin out /\ IsLive(h[b])
  BY <1>1, <1>5, <1>7 DEF Tree, Alive, Holds
<1>9. ASSUME NEW s \in Ids \ B, NEW k \in DOMAIN h[s].opts, h[s].opts[k] \in B
      PROVE  s = sec /\ k = pos
  <2>1. CASE h[s].opts[k] = y
    BY <2>1 DEF Tree, Once
  <2>2. CASE h[s].opts[k] # y
    <3>1. PICK t \in B : Holds(h, t, h[s].opts[k])
      BY <1>7, <1>9, <2>2
    <3>2. t = s
      BY <1>5, <3>1 DEF Tree, Once, Holds
    <3> QED
      BY <3>1, <3>2
  <2> QED
    BY <2>1, <2>2
<1> QED
  BY <1>3, <1>4, <1>5, <1>6, <1>8, <1>9 DEF B

(* An entry goes with all that is below it; the others stay, and a node    *)
(* that nobody has may take its place.                                     *)
LEMMA TreeCut ==
  ASSUME NEW h, Heap(h), NEW out, Tree(h, out), NEW sec \in Ids, NEW pos \in DOMAIN h[sec].opts,
         NEW id, NEW x, Array(x),
         pos \in DOMAIN x => x[pos] = id /\ id \in Ids /\ id \in out /\ id > sec /\ IsLive(h[id]),
         \A k \in DOMAIN x \ {pos} : k \in DOMAIN h[sec].opts /\ x[k] = h[sec].opts[k],
         \A k \in DOMAIN h[sec].opts \ {pos} : k \in DOMAIN x
  PROVE  LET g == WithOpts(Destroy(h, h[sec].opts[pos]), sec, x) IN
         Heap(g) /\ Tree(g, IF pos \in DOMAIN x THEN out \ {id} ELSE out)
<1> DEFINE y == h[sec].opts[pos]
           B == Below(h, y)
           d == Destroy(h, y)
           g == WithOpts(d, sec, x)
           new == IF pos \in DOMAIN x THEN out \ {id} ELSE out
<1>1. /\ y \in B /\ B \subseteq Ids /\ sec \notin B
      /\ \A b \in B : b \notin out /\ IsLive(h[b])
      /\ \A s \in B : \A k \in DOMAIN h[s].opts : h[s].opts[k] \in B
      /\ \A s \in Ids \ B : \A k \in DOMAIN h[s].opts : h[s].opts[k] \in B => s = sec /\ k = pos
  BY BranchIs
<1>2. Heap(d) /\ \A i \in Ids : d[i] = IF i \in B THEN Freed ELSE h[i]
  BY DestroyIs
<1>3. Heap(g) /\ (\A i \in Ids \ {sec} : g[i] = d[i]) /\ g[sec].opts = x /\ g[sec].kind = d[sec].kind
  <2> HIDE DEF d
  <2> QED
    BY <1>2, HeapOpts DEF But
<1> HIDE DEF B, d, g
<1>4. /\ \A i \in B : g[i] = Freed
      /\ \A i \in Ids \ B : i # sec => g[i] = h[i]
      /\ \A i \in Ids \ B : g[i].kind = h[i].kind
  BY <1>1, <1>2, <1>3
<1>5. Freed.kind = "freed" /\ DOMAIN Freed.opts = {}
  BY UnusedIs, EmptyArray
<1>6. pos \in DOMAIN x => id \notin B
  BY <1>1
\* What an entry is: one there was, or the new one
<1>7. ASSUME NEW s \in Ids, NEW k \in DOMAIN g[s].opts
      PROVE  /\ s \notin B
             /\ \/ /\ k \in DOMAIN h[s].opts /\ g[s].opts[k] = h[s].opts[k]
                   /\ ~(s = sec /\ k = pos) /\ g[s].opts[k] \notin B
                \/ s = sec /\ k = pos /\ pos \in DOMAIN x /\ g[s].opts[k] = id
  <2>1. s \notin B
    BY <1>4, <1>5
  <2>2. CASE s # sec
    BY <1>1, <1>4, <2>1, <2>2
  <2>3. CASE s = sec
    BY <1>1, <1>3, <2>1, <2>3
  <2> QED
    BY <2>1, <2>2, <2>3
<1>8. \A s \in Ids : \A k \in DOMAIN h[s].opts : h[s].opts[k] \in Ids /\ h[s].opts[k] \notin out
  BY DEF Tree, Rising, Alive
<1>9. \A i \in Ids \ B : (IsLive(g[i]) <=> IsLive(h[i])) /\ (IsSec(g[i]) <=> IsSec(h[i]))
  BY <1>4 DEF IsLive, IsOpt, IsSec
<1>10. Rising(g)
  BY <1>7 DEF Tree, Rising
<1>11. Alive(g, new)
  <2>1. SUFFICES ASSUME NEW s \in Ids, NEW k \in DOMAIN g[s].opts
                 PROVE  IsLive(g[g[s].opts[k]]) /\ g[s].opts[k] \notin new
    BY DEF Alive
  <2>2. CASE s = sec /\ k = pos /\ pos \in DOMAIN x /\ g[s].opts[k] = id
    BY <1>6, <1>9, <2>2
  <2>3. CASE k \in DOMAIN h[s].opts /\ g[s].opts[k] = h[s].opts[k] /\ g[s].opts[k] \notin B
    <3>1. IsLive(h[h[s].opts[k]]) /\ h[s].opts[k] \in Ids /\ h[s].opts[k] \notin out
      BY <1>8, <2>3 DEF Tree, Alive
    <3> QED
      BY <1>9, <2>3, <3>1
  <2> QED
    BY <1>7, <2>2, <2>3
<1>12. Once(g)
  <2>1. SUFFICES ASSUME NEW s \in Ids, NEW t \in Ids, NEW k \in DOMAIN g[s].opts,
                        NEW l \in DOMAIN g[t].opts, g[s].opts[k] = g[t].opts[l]
                 PROVE  s = t /\ k = l
    BY DEF Once
  <2>2. ASSUME NEW r \in Ids, NEW m \in DOMAIN g[r].opts
        PROVE  \/ g[r].opts[m] \notin out /\ m \in DOMAIN h[r].opts /\ g[r].opts[m] = h[r].opts[m]
               \/ g[r].opts[m] \in out /\ r = sec /\ m = pos
    BY <1>7, <1>8
  <2>3. CASE g[s].opts[k] \in out
    <3>1. (s = sec /\ k = pos) /\ (t = sec /\ l = pos)
      BY <2>1, <2>2, <2>3, Zenon
    <3> QED
      BY <3>1
  <2>4. CASE g[s].opts[k] \notin out
    <3>1. /\ k \in DOMAIN h[s].opts /\ l \in DOMAIN h[t].opts
          /\ h[s].opts[k] = h[t].opts[l]
      BY <2>1, <2>2, <2>4
    <3> QED
      BY <3>1 DEF Tree, Once
  <2> QED
    BY <2>3, <2>4
<1>13. Kept(g, new)
  <2>1. SUFFICES ASSUME NEW i \in Ids, IsLive(g[i]), i \notin new
                 PROVE  \E s \in Ids : Holds(g, s, i)
    BY DEF Kept
  <2>2. i \notin B
    BY <1>4, <1>5, <2>1 DEF IsLive, IsOpt, IsSec
  <2>3. CASE i \in out
    BY <1>3, <2>1, <2>3 DEF Holds
  <2>4. CASE i \notin out
    <3>1. PICK s \in Ids : Holds(h, s, i)
      BY <1>9, <2>1, <2>2, <2>4 DEF Tree, Kept
    <3>2. PICK k \in DOMAIN h[s].opts : h[s].opts[k] = i
      BY <3>1 DEF Holds
    <3>3. s \notin B
      BY <1>1, <2>2, <3>2
    <3>4. CASE s # sec
      BY <1>4, <3>2, <3>3, <3>4 DEF Holds
    <3>5. CASE s = sec
      <4>1. k # pos
        BY <1>1, <2>2, <3>2, <3>5
      <4>2. k \in DOMAIN x /\ x[k] = i
        BY <3>2, <3>5, <4>1
      <4> QED
        BY <1>3, <4>2 DEF Holds
    <3> QED
      BY <3>4, <3>5
  <2> QED
    BY <2>3, <2>4
<1>14. OnlySecs(g)
  <2>1. SUFFICES ASSUME NEW s \in Ids, DOMAIN g[s].opts # {} PROVE IsSec(g[s])
    BY DEF OnlySecs
  <2>2. s \notin B
    BY <1>7, <2>1
  <2>3. IsSec(h[s])
    BY <1>4, <2>1, <2>2 DEF Tree, OnlySecs
  <2> QED
    BY <1>9, <2>2, <2>3
<1>15. InTurn(g)
  <2>1. \A i \in Ids : g[i].kind = "unused" <=> h[i].kind = "unused"
    BY <1>1, <1>4, <1>5 DEF IsLive, IsOpt, IsSec
  <2> QED
    BY <2>1 DEF Tree, InTurn
<1>16. Tree(g, new)
  BY <1>10, <1>11, <1>12, <1>13, <1>14, <1>15 DEF Tree
<1> QED
  BY <1>3, <1>16 DEF g, d

(* A node that was made for nothing is freed again.                        *)
LEMMA TreeFree ==
  ASSUME NEW h, Heap(h), NEW out, Tree(h, out), FreeIds(h) # {}
  PROVE  Heap([h EXCEPT ![NewId(h)] = Freed]) /\ Tree([h EXCEPT ![NewId(h)] = Freed], out)
<1> DEFINE id == NewId(h)
           g == [h EXCEPT ![id] = Freed]
<1>1. id \in Ids /\ h[id].kind = "unused" /\ \A j \in Ids : h[j].kind = "unused" => id <= j
  BY NewIs
<1>2. Freed.kind = "freed" /\ DOMAIN Freed.opts = {} /\ IsNode(Freed)
  BY UnusedIs, EmptyArray
<1>3. Heap(g) /\ \A i \in Ids : g[i] = IF i = id THEN Freed ELSE h[i]
  <2> HIDE DEF id
  <2>1. Heap(g)
    BY <1>2, HeapPut
  <2> QED
    BY <2>1 DEF Heap
<1> HIDE DEF g, id
<1>4. DOMAIN h[id].opts = {} /\ ~IsLive(h[id])
  BY <1>1 DEF Tree, OnlySecs, IsLive, IsOpt, IsSec
<1>5. /\ \A i \in Ids : DOMAIN g[i].opts # {} => i # id /\ g[i] = h[i]
      /\ \A i \in Ids : DOMAIN h[i].opts # {} => i # id /\ g[i] = h[i]
      /\ \A i \in Ids : (IsLive(h[i]) => g[i] = h[i]) /\ (IsLive(g[i]) => g[i] = h[i])
  BY <1>2, <1>3, <1>4 DEF IsLive, IsOpt, IsSec
<1>6. \A s \in Ids : \A k \in DOMAIN g[s].opts : g[s] = h[s]
  BY <1>5
<1>7. Rising(g)
  BY <1>6 DEF Tree, Rising
<1>8. Once(g)
  BY <1>6 DEF Tree, Once
<1>9. Alive(g, out)
  BY <1>5, <1>6 DEF Tree, Alive, Rising
<1>10. Kept(g, out)
  <2>1. SUFFICES ASSUME NEW i \in Ids, IsLive(g[i]), i \notin out PROVE \E s \in Ids : Holds(g, s, i)
    BY DEF Kept
  <2>2. PICK s \in Ids : Holds(h, s, i)
    BY <1>5, <2>1 DEF Tree, Kept
  <2> QED
    BY <1>5, <2>2 DEF Holds
<1>11. OnlySecs(g)
  BY <1>5 DEF Tree, OnlySecs
<1>12. InTurn(g)
  <2>1. SUFFICES ASSUME NEW i \in Ids, NEW j \in Ids, g[i].kind = "unused", j > i
                 PROVE  g[j].kind = "unused"
    BY DEF InTurn
  <2>2. i # id /\ h[i].kind = "unused" /\ id <= i
    BY <1>1, <1>2, <1>3, <2>1
  <2>3. j # id /\ h[j].kind = "unused"
    BY <1>1, <2>1, <2>2, IdsAssumption DEF Tree, InTurn
  <2> QED
    BY <1>3, <2>3
<1> QED
  BY <1>3, <1>7, <1>8, <1>9, <1>10, <1>11, <1>12 DEF Tree, g, id

\* Nothing is left of a tree.
Gone(h) == \A i \in Ids : ~IsLive(h[i]) /\ DOMAIN h[i].opts = {}

(* When the root goes, everything goes.                                    *)
LEMMA TreeGone ==
  ASSUME NEW h, Heap(h), NEW r \in Ids, Tree(h, {r})
  PROVE  Heap(Destroy(h, r)) /\ Gone(Destroy(h, r))
<1> DEFINE B == Below(h, r)
           L == {i \in Ids : IsLive(h[i]) /\ i \notin B}
<1>1. r \in B /\ Closed(h, B)
  BY BelowIs, DescIs DEF Tree
<1> HIDE DEF B
<1>2. L = {}
  <2>1. SUFFICES ASSUME L # {} PROVE FALSE
    OBVIOUS
  <2>2. L \subseteq Nat
    BY IdsAssumption
  <2>3. PICK m \in L : \A l \in L : m <= l
    <3> HIDE DEF L
    <3> QED
      BY <2>1, <2>2, LeastNat
  <2>4. m \in Ids /\ IsLive(h[m]) /\ m \notin B /\ m # r
    BY <1>1, <2>3
  <2>5. PICK s \in Ids : Holds(h, s, m)
    BY <2>4 DEF Tree, Kept
  <2>6. PICK k \in DOMAIN h[s].opts : h[s].opts[k] = m
    BY <2>5 DEF Holds
  <2>7. IsLive(h[s]) /\ m > s
    BY <2>6 DEF Tree, OnlySecs, Rising, IsLive
  <2>8. s \in Nat /\ m \in Nat
    BY <2>4, IdsAssumption
  <2>9. s \notin L
    BY <2>3, <2>7, <2>8
  <2>10. s \in B
    BY <2>7, <2>9
  <2> QED
    BY <1>1, <2>4, <2>6, <2>10 DEF Closed, Kids
<1>3. Heap(Destroy(h, r)) /\ \A i \in Ids : Destroy(h, r)[i] = IF i \in B THEN Freed ELSE h[i]
  BY DestroyIs DEF B
<1>4. ~IsLive(Freed) /\ DOMAIN Freed.opts = {}
  BY UnusedIs, EmptyArray DEF IsLive, IsOpt, IsSec
<1>5. \A i \in Ids \ B : ~IsLive(h[i]) /\ DOMAIN h[i].opts = {}
  BY <1>2 DEF Tree, OnlySecs, IsLive
<1> QED
  BY <1>3, <1>4, <1>5 DEF Gone

(* A section has no more entries than there are nodes.                     *)
LEMMA EntriesFit ==
  ASSUME NEW h, Heap(h), NEW out, Tree(h, out), NEW s \in Ids
  PROVE  DOMAIN h[s].opts \subseteq 1..Cardinality(Ids)
<1> DEFINE f == h[s].opts
           n == Len(f)
<1>1. n \in Nat /\ DOMAIN f = 1..n /\ f = [k \in 1..n |-> f[k]]
  BY DEF Heap, IsNode, Array
<1>2. \A k, l \in 1..n : f[k] \in Ids /\ (f[k] = f[l] => k = l)
  BY <1>1 DEF Tree, Rising, Once
<1> HIDE DEF f, n
<1>3. f \in [1..n -> Ids]
  BY <1>1, <1>2
<1>4. f \in Injection(1..n, Ids)
  BY <1>2, <1>3 DEF Injection, IsInjective
<1>5. Cardinality(1..n) <= Cardinality(Ids)
  BY <1>4, IdsAssumption, FS_Injection
<1>6. Cardinality(1..n) = n
  <2>1. 1 \in Int /\ n \in Int /\ (IF 1 > n THEN 0 ELSE n - 1 + 1) = n
    BY <1>1
  <2> QED
    BY ONLY <2>1, FS_Interval
<1>7. Cardinality(Ids) \in Nat
  BY IdsAssumption, FS_CardinalityType
<1> QED
  BY <1>1, <1>5, <1>6, <1>7 DEF f

(* A node is an entry once, or not at all if it is nobody's.               *)
LEMMA HoldersCount ==
  ASSUME Heap(heap), NEW out, Tree(heap, out), NEW i \in Ids, IsLive(heap[i])
  PROVE  Cardinality(Holders(i)) = IF i \in out THEN 0 ELSE 1
<1>1. CASE i \in out
  <2>1. Holders(i) = {}
    BY <1>1 DEF Holders, Tree, Alive, Opts
  <2> QED
    BY <1>1, <2>1, FS_EmptySet
<1>2. CASE i \notin out
  <2>1. PICK s \in Ids : Holds(heap, s, i)
    BY <1>2 DEF Tree, Kept
  <2>2. PICK k \in DOMAIN heap[s].opts : heap[s].opts[k] = i
    BY <2>1 DEF Holds
  <2>3. k \in 1..Cardinality(Ids)
    BY EntriesFit
  <2>4. \A t \in Ids : \A l \in DOMAIN heap[t].opts : heap[t].opts[l] = i => t = s /\ l = k
    BY <2>2 DEF Tree, Once
  <2>5. Holders(i) = {<<s, k>>}
    <3>1. <<s, k>> \in Holders(i)
      BY <2>2, <2>3 DEF Holders, Opts
    <3>2. ASSUME NEW p \in Holders(i) PROVE p = <<s, k>>
      <4>1. /\ p \in Ids \X (1..Cardinality(Ids))
            /\ p[2] \in DOMAIN heap[p[1]].opts /\ heap[p[1]].opts[p[2]] = i
        BY DEF Holders, Opts
      <4>2. p = <<p[1], p[2]>> /\ p[1] \in Ids
        BY <4>1
      <4>3. p[1] = s /\ p[2] = k
        BY <2>4, <4>1, <4>2
      <4> QED
        BY <4>2, <4>3
    <3> QED
      BY <3>1, <3>2
  <2> QED
    BY <1>2, <2>5, FS_Singleton
<1> QED
  BY <1>1, <1>2

(***************************************************************************)
(* The calls that are running                                              *)
(***************************************************************************)
LEMMA PushIs ==
  ASSUME NEW s, Array(s), NEW f
  PROVE  /\ Array(Append(s, f)) /\ Len(Append(s, f)) = Len(s) + 1
         /\ \A k \in DOMAIN s : Append(s, f)[k] = s[k]
         /\ Append(s, f)[Len(s) + 1] = f
<1> DEFINE T == {s[k] : k \in DOMAIN s} \cup {f}
           t == Append(s, f)
<1>1. s \in Seq(T) /\ f \in T
  <2>1. s \in [1..Len(s) -> T] /\ Len(s) \in Nat
    BY DEF Array
  <2> QED
    BY <2>1
<1> HIDE DEF T
<1>2. /\ t \in Seq(T) /\ Len(t) = Len(s) + 1 /\ t[Len(s) + 1] = f
      /\ \A k \in 1..Len(s) : t[k] = s[k]
  BY <1>1
<1> HIDE DEF t
<1>3. DOMAIN t = 1..(Len(s) + 1) /\ t = [k \in DOMAIN t |-> t[k]] /\ DOMAIN s = 1..Len(s) /\ Len(s) \in Nat
  BY <1>2 DEF Array
<1> QED
  BY <1>2, <1>3 DEF t, Array

(* A call returns.                                                         *)
LEMMA PopIs ==
  ASSUME NEW s, Array(s), Len(s) > 0
  PROVE  LET t == SubSeq(s, 1, Len(s) - 1) IN
         /\ Array(t) /\ Len(t) = Len(s) - 1 /\ \A k \in DOMAIN t : k \in DOMAIN s /\ t[k] = s[k]
<1> DEFINE T == {s[k] : k \in DOMAIN s}
           t == SubSeq(s, 1, Len(s) - 1)
<1>1. s \in Seq(T) /\ Len(s) \in Nat /\ DOMAIN s = 1..Len(s)
  <2>1. s \in [1..Len(s) -> T] /\ Len(s) \in Nat
    BY DEF Array
  <2> QED
    BY <2>1 DEF Array
<1> HIDE DEF T
<1>2. /\ t \in Seq(T) /\ Len(t) = Len(s) - 1 /\ DOMAIN t = 1..(Len(s) - 1)
      /\ t = [k \in DOMAIN t |-> t[k]] /\ \A k \in 1..(Len(s) - 1) : t[k] = s[k]
  BY <1>1
<1> HIDE DEF t
<1> QED
  BY <1>1, <1>2 DEF t, Array

(* The innermost call goes on.                                             *)
LEMMA SetTopIs ==
  ASSUME NEW s, Array(s), Len(s) > 0, NEW f
  PROVE  LET t == [s EXCEPT ![Len(s)] = f] IN
         /\ Array(t) /\ Len(t) = Len(s) /\ t[Len(s)] = f
         /\ \A k \in DOMAIN s : k # Len(s) => t[k] = s[k]
<1> DEFINE t == [s EXCEPT ![Len(s)] = f]
<1>1. Array(t) /\ Len(t) = Len(s)
  BY ReplacedIs
<1>2. Len(s) \in DOMAIN s
  BY DEF Array
<1>3. t[Len(s)] = f /\ \A k \in DOMAIN s : k # Len(s) => t[k] = s[k]
  BY <1>2
<1> HIDE DEF t
<1> QED
  BY <1>1, <1>3 DEF t

(* One call.                                                               *)
LEMMA OneIs ==
  ASSUME NEW f
  PROVE  Array(<<f>>) /\ Len(<<f>>) = 1 /\ DOMAIN <<f>> = {1} /\ <<f>>[1] = f
<1>1. Len(<<f>>) = 1 /\ DOMAIN <<f>> = 1..1 /\ <<f>>[1] = f /\ <<f>> = [k \in DOMAIN <<f>> |-> <<f>>[k]]
  OBVIOUS
<1> QED
  BY <1>1 DEF Array

\* A call has all its fields.
IsFrame(f) ==
  f = [fn |-> f.fn, node |-> f.node, level |-> f.level, def |-> f.def, expect |-> f.expect,
       nopts |-> f.nopts, grown |-> f.grown, fresh |-> f.fresh]
Frames(s) == Array(s) /\ \A k \in DOMAIN s : IsFrame(s[k]) /\ s[k].node \in Ids

Begun(f, fn, node, level, def) ==
  IsFrame(f) /\ f.fn = fn /\ f.node = node /\ f.level = level /\ f.def = def /\ ~f.fresh

(* What a call of the parser starts with.                                  *)
LEMMA FrameIs ==
  ASSUME NEW fn, NEW node, NEW level, NEW def
  PROVE  Begun(Frame(fn, node, level, def), fn, node, level, def)
  BY DEF IsFrame, Frame, Begun

Entered(f, node, nopts, fresh) == IsFrame(f) /\ f.node = node /\ f.nopts = nopts /\ f.fresh = fresh

(* What a call of vt_config_defaults starts with.                          *)
LEMMA DefaultsFrameIs ==
  ASSUME NEW node, NEW level, NEW nopts, NEW fresh
  PROVE  Entered(DefaultsFrame(node, level, nopts, fresh), node, nopts, fresh)
<1>1. LET f == DefaultsFrame(node, level, nopts, fresh) IN f.node = node /\ f.nopts = nopts
  BY DEF DefaultsFrame
<1>2. DefaultsFrame(node, level, nopts, fresh).fresh = fresh
  BY Zenon DEF DefaultsFrame
<1>3. IsFrame(DefaultsFrame(node, level, nopts, fresh))
  BY Zenon DEF IsFrame, DefaultsFrame
<1> QED
  BY <1>1, <1>2, <1>3 DEF Entered

\* What a call keeps when it goes on: its node, and whether the node is its own
Goes(f, g) == IsFrame(g) /\ g.node = f.node /\ g.nopts = f.nopts /\ g.fresh = f.fresh

\* vt_config_parse_opt stays with its node while it goes from token to token.
LEMMA ExpectIs ==
  ASSUME NEW f, IsFrame(f), NEW x
  PROVE  LET g == [f EXCEPT !.expect = x] IN
         Goes(f, g) /\ g.fn = f.fn /\ g.level = f.level /\ g.def = f.def
<1>1. LET g == [f EXCEPT !.expect = x] IN
      /\ IsFrame(g) /\ g.node = f.node /\ g.nopts = f.nopts /\ g.fn = f.fn
      /\ g.level = f.level /\ g.def = f.def /\ g.fresh = f.fresh
  BY DEF IsFrame
<1> QED
  BY <1>1 DEF Goes

(* So does vt_config_defaults while it goes from definition to definition. *)
LEMMA NextIs ==
  ASSUME NEW f, IsFrame(f)
  PROVE  Goes(f, NextDef(f)) /\ Goes(f, Added(f))
<1>1. \A g, x : IsFrame(g) => Goes(g, [g EXCEPT !.def = x])
  BY DEF IsFrame, Goes
<1>2. \A g, x : IsFrame(g) => Goes(g, [g EXCEPT !.grown = x])
  BY DEF IsFrame, Goes
<1>3. Goes(f, NextDef(f))
  BY <1>1, Zenon DEF NextDef
<1>4. Goes(NextDef(f), Added(f))
  BY <1>2, <1>3, Zenon DEF Added, Goes
<1> QED
  BY <1>3, <1>4 DEF Goes

\* What vt_config_defaults made and has not put in yet
Hands(s) == {s[k].node : k \in {j \in DOMAIN s : s[j].fresh}}

(* Nothing is in the hands of calls that made nothing.                     *)
LEMMA HandsNone ==
  ASSUME NEW s, \A k \in DOMAIN s : ~s[k].fresh
  PROVE  Hands(s) = {}
  BY DEF Hands

(* A call is made, one goes on, and one returns.                           *)
LEMMA HandsPush ==
  ASSUME NEW s, Frames(s), NEW f, IsFrame(f), f.node \in Ids
  PROVE  /\ Frames(Append(s, f))
         /\ Hands(Append(s, f)) = Hands(s) \cup {x \in {f.node} : f.fresh}
<1> DEFINE t == Append(s, f)
           n == Len(s)
<1>1. /\ Array(s) /\ Array(t) /\ Len(t) = n + 1 /\ t[n + 1] = f
      /\ \A k \in DOMAIN s : t[k] = s[k]
  BY PushIs DEF Frames
<1>2. n \in Nat /\ DOMAIN s = 1..n /\ DOMAIN t = 1..(n + 1)
  BY <1>1 DEF Array
<1> HIDE DEF t, n
<1>3. \A k \in DOMAIN t : k \in DOMAIN s \/ k = n + 1
  BY <1>2
<1>4. DOMAIN s \subseteq DOMAIN t /\ n + 1 \in DOMAIN t
  BY <1>2
<1>5. Frames(t)
  BY <1>1, <1>3 DEF Frames
<1>6. Hands(t) = Hands(s) \cup {x \in {f.node} : f.fresh}
  BY <1>1, <1>3, <1>4 DEF Hands
<1> QED
  BY <1>5, <1>6 DEF t

(* What is in hand stays there while the innermost call goes on.           *)
LEMMA HandsTop ==
  ASSUME NEW s, Frames(s), Len(s) > 0, NEW f, Goes(s[Len(s)], f)
  PROVE  LET t == [s EXCEPT ![Len(s)] = f] IN Frames(t) /\ Hands(t) = Hands(s)
<1> DEFINE t == [s EXCEPT ![Len(s)] = f]
           n == Len(s)
<1>1. /\ Array(s) /\ Array(t) /\ Len(t) = n /\ t[n] = f
      /\ \A k \in DOMAIN s : k # n => t[k] = s[k]
  BY SetTopIs DEF Frames
<1>2. n \in DOMAIN s /\ DOMAIN s = DOMAIN t
  BY <1>1 DEF Array
<1>3. Goes(s[n], f) /\ Frames(s)
  OBVIOUS
<1> HIDE DEF t, n
<1>4. \A k \in DOMAIN s : IsFrame(t[k]) /\ t[k].node = s[k].node /\ (t[k].fresh <=> s[k].fresh)
  BY <1>1, <1>2, <1>3 DEF Frames, Goes
<1>5. Frames(t)
  BY <1>1, <1>2, <1>3, <1>4 DEF Frames
<1>6. Hands(t) = Hands(s)
  BY <1>2, <1>4 DEF Hands
<1> QED
  BY <1>5, <1>6 DEF t

(* When it returns, what it had in hand is no longer in hand.              *)
LEMMA HandsPop ==
  ASSUME NEW s, Frames(s), Len(s) > 0,
         \A k \in DOMAIN s : k # Len(s) => s[k].node # s[Len(s)].node
  PROVE  LET t == SubSeq(s, 1, Len(s) - 1) IN
         /\ Frames(t)
         /\ Hands(t) = IF s[Len(s)].fresh THEN Hands(s) \ {s[Len(s)].node} ELSE Hands(s)
<1> DEFINE t == SubSeq(s, 1, Len(s) - 1)
           n == Len(s)
<1>1. /\ Array(s) /\ Array(t) /\ Len(t) = n - 1
      /\ \A k \in DOMAIN t : k \in DOMAIN s /\ t[k] = s[k]
  BY PopIs DEF Frames
<1>2. n \in DOMAIN s /\ n \notin DOMAIN t /\ \A k \in DOMAIN s : k = n \/ k \in DOMAIN t
  BY <1>1 DEF Array
<1>3. Frames(s) /\ \A k \in DOMAIN s : k # n => s[k].node # s[n].node
  OBVIOUS
<1> HIDE DEF t, n
<1>4. Frames(t)
  BY <1>1, <1>3 DEF Frames
<1>5. CASE s[n].fresh
  <2>1. ASSUME NEW x \in Hands(t) PROVE x \in Hands(s) /\ x # s[n].node
    BY <1>1, <1>2, <1>3 DEF Hands
  <2>2. ASSUME NEW x \in Hands(s), x # s[n].node PROVE x \in Hands(t)
    BY <1>1, <1>2, <2>2 DEF Hands
  <2> QED
    BY <1>4, <1>5, <2>1, <2>2 DEF t, n
<1>6. CASE ~s[n].fresh
  <2>1. ASSUME NEW x \in Hands(t) PROVE x \in Hands(s)
    BY <1>1 DEF Hands
  <2>2. ASSUME NEW x \in Hands(s) PROVE x \in Hands(t)
    BY <1>1, <1>2, <1>6 DEF Hands
  <2> QED
    BY <1>4, <1>6, <2>1, <2>2 DEF t, n
<1> QED
  BY <1>5, <1>6

(***************************************************************************)
(* Entries that are put in, and taken out                                  *)
(***************************************************************************)

(* Where sec_getn finds a place, it is a place of the array, or its end if *)
(* an entry is to be added.                                                *)
LEMMA SecGetnIn ==
  ASSUME NEW h, Heap(h), NEW sec \in Ids, NEW name, NEW kind, NEW idx \in Int, NEW inst
  PROVE  LET p == SecGetnCmn(h, sec, name, kind, idx, inst)
             n == Len(h[sec].opts)
         IN  p \in -1..n /\ ("APPEND" \notin inst /\ n > 0 => p < n)
<1> DEFINE opts == h[sec].opts
           n == Len(opts)
           same == {i \in DOMAIN opts : SameName(h[opts[i]].name, name)}
           fits == {i \in DOMAIN opts : kind \in {"none", h[opts[i]].kind}}
           p == SecGetnCmn(h, sec, name, kind, idx, inst)
<1>1. n \in Nat /\ DOMAIN opts = 1..n
  BY DEF Heap, IsNode, Array
<1>2. PICK counted, hits :
        /\ counted \in {DOMAIN opts, same, fits} /\ hits \in {DOMAIN opts, same \cap fits, {}}
        /\ p \in {-1, Position(Cardinality(counted), hits, idx, inst, n)}
  BY Zenon DEF SecGetnCmn
<1>3. counted \subseteq 1..n /\ hits \in SUBSET (1..n)
  BY <1>1, <1>2
<1>4. Cardinality(counted) \in Nat
  BY <1>1, <1>3, HitsFinite
<1> HIDE DEF n, p, opts
<1>5. LET q == Position(Cardinality(counted), hits, idx, inst, n) IN
      q \in -1..n /\ ("APPEND" \notin inst /\ n > 0 => q < n)
  BY <1>1, <1>3, <1>4, PositionIn
<1> QED
  BY <1>1, <1>2, <1>5 DEF n, p, opts

\* The place sec_setn finds, whether the array grows, and an entry that is replaced
PutPos(h, sec, id, idx, inst) == SecGetnCmn(h, sec, h[id].name, h[id].kind, idx, inst \cup {"SET"})
Grows(h, sec, inst) == h[sec].opts = <<>> \/ inst \cap Insert # {}
Replaced(h, sec, id, pos) ==
  LET d == Destroy(h, h[sec].opts[pos + 1]) IN WithOpts(d, sec, [d[sec].opts EXCEPT ![pos + 1] = id])

\* A node that is put into a section is added to its entries or replaces one.
LEMMA SecSetnCases ==
  ASSUME NEW h, NEW sec, NEW id, NEW idx, NEW inst, SecSetnCmn(h, sec, id, idx, inst).pos >= 0
  PROVE  /\ ~(PutPos(h, sec, id, idx, inst) < 0)
         /\ Grows(h, sec, inst) =>
              /\ SecSetnCmn(h, sec, id, idx, inst).heap
                   = WithOpts(h, sec, PutAt(h[sec].opts, PutPos(h, sec, id, idx, inst), id, Wild))
              /\ SecSetnCmn(h, sec, id, idx, inst).whole =>
                   PutPos(h, sec, id, idx, inst) = Len(h[sec].opts)
         /\ ~Grows(h, sec, inst) =>
              SecSetnCmn(h, sec, id, idx, inst).heap = Replaced(h, sec, id, PutPos(h, sec, id, idx, inst))
<1> DEFINE pos == PutPos(h, sec, id, idx, inst)
           opts == h[sec].opts
           put == SecSetnCmn(h, sec, id, idx, inst)
           none == [pos |-> -1, heap |-> h, whole |-> TRUE]
           more == [pos |-> pos, heap |-> WithOpts(h, sec, PutAt(opts, pos, id, Wild)),
                    whole |-> AtEnd(opts, pos)]
           other == [pos |-> pos, heap |-> Replaced(h, sec, id, pos), whole |-> TRUE]
<1>1. put = IF pos < 0 THEN none ELSE IF Grows(h, sec, inst) THEN more ELSE other
  BY Zenon DEF SecSetnCmn, WithOpts, Replaced, Grows, PutPos
<1>2. ~(pos < 0)
  <2>1. CASE pos < 0
    <3>1. put.pos = -1
      BY <1>1, <2>1
    <3> QED
      BY <3>1
  <2> QED
    BY <2>1
<1>3. more.heap = WithOpts(h, sec, PutAt(opts, pos, id, Wild)) /\ (more.whole => pos = Len(opts))
  BY Zenon DEF AtEnd
<1>4. other.heap = Replaced(h, sec, id, pos)
  BY Zenon
<1> HIDE DEF pos, opts, put, more, other
<1> QED
  BY <1>1, <1>2, <1>3, <1>4, Zenon DEF pos, opts, put

(* The array with one entry more, at its end.                              *)
Longer(x, opts, id) ==
  /\ Array(x) /\ Len(x) = Len(opts) + 1 /\ x[Len(x)] = id
  /\ \A k \in DOMAIN opts : x[k] = opts[k]

(* At the end, the other entries stay where they are.                      *)
LEMMA PutLast ==
  ASSUME NEW opts, Array(opts), NEW id, NEW wild
  PROVE  Longer(PutAt(opts, Len(opts), id, wild), opts, id)
<1> DEFINE x == PutAt(opts, Len(opts), id, wild)
<1>1. Array(x) /\ Len(x) = Len(opts) + 1
  BY PutAtIs
<1>2. Len(opts) \in Nat /\ DOMAIN opts = 1..Len(opts)
  BY DEF Array
<1>3. x[Len(opts) + 1] = id
  BY <1>2 DEF PutAt
<1>4. ASSUME NEW k \in DOMAIN opts PROVE x[k] = opts[k]
  BY <1>2 DEF PutAt
<1> HIDE DEF x
<1> QED
  BY <1>1, <1>3, <1>4 DEF x, Longer

(* vt_config_defaults puts what it made at the end: it looks for no name,  *)
(* and asks for the place behind the last entry.                           *)
LEMMA AttachIs ==
  ASSUME NEW h, Heap(h), NEW sec \in Ids, NEW id, Attach(sec, h, id).pos >= 0
  PROVE  \E x : Attach(sec, h, id).heap = WithOpts(h, sec, x) /\ Longer(x, h[sec].opts, id)
<1> DEFINE inst == {"SET", "APPEND"}
           opts == h[sec].opts
           n == Len(opts)
           pos == PutPos(h, sec, id, -1, inst)
<1>1. n \in Nat /\ DOMAIN opts = 1..n /\ Array(opts)
  BY DEF Heap, IsNode, Array
<1>2. inst \cup {"SET"} = inst /\ "COMPARE" \notin inst /\ "APPEND" \in inst /\ inst \cap Insert # {}
  BY DEF Insert
<1>3. ~(pos < 0) /\ Attach(sec, h, id).heap = WithOpts(h, sec, PutAt(opts, pos, id, Wild))
  <2>1. SecSetnCmn(h, sec, id, -1, inst).pos >= 0
    BY DEF Attach
  <2>2. Grows(h, sec, inst)
    BY <1>2, Zenon DEF Grows
  <2> QED
    BY <2>1, <2>2, SecSetnCases, Zenon DEF Attach
<1>4. pos \in {-1, Position(Cardinality(DOMAIN opts), DOMAIN opts, -1, inst, n)}
  BY <1>2, Zenon DEF SecGetnCmn, PutPos
<1>5. Cardinality(1..n) = n
  <2>1. 1 \in Int /\ n \in Int /\ (IF 1 > n THEN 0 ELSE n - 1 + 1) = n
    BY <1>1
  <2> QED
    BY ONLY <2>1, FS_Interval
<1>6. Position(n, 1..n, -1, inst, n) = n
  <2>1. CASE n = 0
    BY <1>2, <2>1, Zenon DEF Position
  <2>2. CASE n # 0
    <3>1. Position(n, 1..n, -1, inst, n) = Walk(1..n, Steps(n, -1), n) - 0
      BY <1>2, <2>2, Zenon DEF Position
    <3>2. Steps(n, -1) = n
      BY <1>1, <2>2 DEF Steps
    <3>3. n \in 0..n
      BY <1>1
    <3>4. Walk(1..n, n, n) = n
      BY <1>1, <3>3, WalkAll
    <3> QED
      BY <1>1, <3>1, <3>2, <3>4
  <2> QED
    BY <2>1, <2>2
<1>7. pos = n
  <2>1. pos = -1 \/ pos = n
    BY <1>1, <1>4, <1>5, <1>6
  <2> HIDE DEF pos, n
  <2> QED
    BY <1>3, <2>1
<1>8. Longer(PutAt(opts, n, id, Wild), opts, id)
  BY <1>1, PutLast
<1> QED
  BY <1>3, <1>7, <1>8

(* As long as nothing is spoilt, an entry that is added goes to the end.   *)
LEMMA GrownIs ==
  ASSUME NEW h, Heap(h), NEW sec \in Ids, NEW id, NEW idx, NEW inst, Grows(h, sec, inst),
         SecSetnCmn(h, sec, id, idx, inst).pos >= 0, SecSetnCmn(h, sec, id, idx, inst).whole
  PROVE  \E x : SecSetnCmn(h, sec, id, idx, inst).heap = WithOpts(h, sec, x) /\ Longer(x, h[sec].opts, id)
<1>1. SecSetnCmn(h, sec, id, idx, inst).heap
        = WithOpts(h, sec, PutAt(h[sec].opts, Len(h[sec].opts), id, Wild))
  BY SecSetnCases, Zenon
<1>2. Longer(PutAt(h[sec].opts, Len(h[sec].opts), id, Wild), h[sec].opts, id)
  BY PutLast DEF Heap, IsNode
<1> QED
  BY <1>1, <1>2

\* What a node keeps when entries are put into the sections of a heap
Keeps(h, g) ==
  \A i \in Ids : h[i].kind # "unused" => g[i].kind = h[i].kind /\ Len(h[i].opts) <= Len(g[i].opts)
Made(h, out) == \A i \in out : i \in Ids /\ h[i].kind # "unused"

(* Changes of values and titles keep every entry.                          *)
LEMMA KeepsSame ==
  ASSUME NEW h, Heap(h), NEW g, \A i \in Ids : g[i].kind = h[i].kind /\ g[i].opts = h[i].opts
  PROVE  Keeps(h, g)
<1>1. \A i \in Ids : Len(h[i].opts) \in Nat
  BY DEF Heap, IsNode, Array
<1>2. \A i \in Ids : Len(h[i].opts) <= Len(g[i].opts)
  BY <1>1
<1> QED
  BY <1>2 DEF Keeps

(* A section whose array gets a node that was in hand.                     *)
LEMMA TreeLonger ==
  ASSUME NEW h, Heap(h), NEW out, Tree(h, out), NEW sec \in Ids, IsSec(h[sec]),
         NEW id \in Ids, id \in out, id > sec, IsLive(h[id]),
         NEW x, Longer(x, h[sec].opts, id)
  PROVE  Tree(WithOpts(h, sec, x), out \ {id}) /\ Keeps(h, WithOpts(h, sec, x))
<1>1. Tree(WithOpts(h, sec, x), out \ {id})
  BY TreeAppend DEF Longer
<1>2. /\ \A i \in Ids \ {sec} : WithOpts(h, sec, x)[i] = h[i]
      /\ WithOpts(h, sec, x)[sec].opts = x /\ WithOpts(h, sec, x)[sec].kind = h[sec].kind
  BY HeapOpts DEF But, Longer
<1>3. \A i \in Ids : Len(h[i].opts) \in Nat
  BY DEF Heap, IsNode, Array
<1>4. Len(h[sec].opts) <= Len(x)
  BY <1>3 DEF Longer
<1>5. Keeps(h, WithOpts(h, sec, x))
  <2>1. ASSUME NEW i \in Ids
        PROVE  /\ WithOpts(h, sec, x)[i].kind = h[i].kind
               /\ Len(h[i].opts) <= Len(WithOpts(h, sec, x)[i].opts)
    BY <1>2, <1>3, <1>4
  <2> QED
    BY <2>1 DEF Keeps
<1> QED
  BY <1>1, <1>5

(* A new node goes to the end of a section.                                *)
LEMMA TreeAdd ==
  ASSUME NEW h, Heap(h), NEW out, Tree(h, out), Made(h, out), FreeIds(h) # {},
         NEW n, IsNode(n), IsLive(n), n.opts = <<>>, NEW sec \in Ids, IsSec(h[sec]),
         NEW x, Longer(x, WithNew(h, n)[sec].opts, NewId(h))
  PROVE  LET g == WithOpts(WithNew(h, n), sec, x) IN
         Tree(g, out) /\ Keeps(h, g) /\ g[NewId(h)].kind = n.kind
<1> DEFINE id == NewId(h)
           m == WithNew(h, n)
           g == WithOpts(m, sec, x)
<1>1. id \in Ids /\ h[id].kind = "unused"
  BY NewIs
<1>2. /\ Heap(m) /\ Tree(m, out \cup {id})
      /\ \A j \in Ids : h[j].kind # "unused" => m[j] = h[j]
      /\ m[id] = n
  <2>1. Heap(m) /\ Tree(m, out \cup {id}) /\ Stays(h, m) /\ m[id] = n
    BY TreeNew
  <2> QED
    BY <2>1 DEF Stays
<1>3. h[sec].kind # "unused"
  BY DEF IsSec
<1>4. id > sec
  BY <1>1, <1>3, Younger, IdsAssumption DEF Tree
<1>5. IsSec(m[sec]) /\ IsLive(m[id]) /\ Longer(x, m[sec].opts, id)
  BY <1>2, <1>3
<1> HIDE DEF m, id
<1>6. Tree(WithOpts(m, sec, x), (out \cup {id}) \ {id}) /\ Keeps(m, WithOpts(m, sec, x))
  BY <1>1, <1>2, <1>4, <1>5, TreeLonger
<1> HIDE DEF g
<1>7. id \notin out
  BY <1>1 DEF Made
<1>8. (out \cup {id}) \ {id} = out
  BY <1>7
<1>9. Tree(g, out)
  BY <1>6, <1>8 DEF g
<1>10. Keeps(h, g)
  BY <1>2, <1>6 DEF Keeps, g
<1>11. g[id].kind = n.kind
  <2>1. m[id].kind # "unused"
    BY <1>2 DEF IsLive, IsOpt, IsSec
  <2> QED
    BY <1>1, <1>2, <1>6, <2>1 DEF Keeps, g
<1> QED
  BY <1>9, <1>10, <1>11 DEF g, m, id

(* A new node takes the place of an entry.                                 *)
LEMMA TreeReplace ==
  ASSUME NEW h, Heap(h), NEW out, Tree(h, out), Made(h, out), FreeIds(h) # {},
         NEW n, IsNode(n), IsLive(n), n.opts = <<>>, NEW sec \in Ids, IsSec(h[sec]),
         NEW pos \in Nat, pos < Len(WithNew(h, n)[sec].opts)
  PROVE  Tree(Replaced(WithNew(h, n), sec, NewId(h), pos), out)
<1> DEFINE id == NewId(h)
           m == WithNew(h, n)
<1>1. id \in Ids /\ h[id].kind = "unused"
  BY NewIs
<1>2. /\ Heap(m) /\ Tree(m, out \cup {id})
      /\ \A j \in Ids : h[j].kind # "unused" => m[j] = h[j]
      /\ m[id] = n
  <2>1. Heap(m) /\ Tree(m, out \cup {id}) /\ Stays(h, m) /\ m[id] = n
    BY TreeNew
  <2> QED
    BY <2>1 DEF Stays
<1>3. h[sec].kind # "unused"
  BY DEF IsSec
<1>4. id > sec
  BY <1>1, <1>3, Younger, IdsAssumption DEF Tree
<1>5. IsLive(m[id]) /\ pos < Len(m[sec].opts)
  BY <1>2
<1> HIDE DEF m, id
<1> DEFINE opts == m[sec].opts
           y == opts[pos + 1]
           d == Destroy(m, y)
           x == [opts EXCEPT ![pos + 1] = id]
<1>6. Array(opts) /\ pos + 1 \in DOMAIN opts
  <2>1. Array(opts) /\ pos < Len(opts)
    BY <1>2, <1>5 DEF Heap, IsNode
  <2> QED
    BY <2>1 DEF Array
<1>7. Array(x) /\ DOMAIN x = DOMAIN opts /\ x[pos + 1] = id
      /\ \A k \in DOMAIN x \ {pos + 1} : x[k] = opts[k]
  BY <1>6, ReplacedIs
<1>8. d[sec].opts = opts
  <2>1. sec \notin Below(m, y)
    BY <1>2, <1>6, BranchIs
  <2> QED
    BY <1>2, <2>1, DestroyIs
<1>9. Replaced(m, sec, id, pos) = WithOpts(d, sec, x)
  BY <1>8, Zenon DEF Replaced
<1>10. Tree(WithOpts(Destroy(m, m[sec].opts[pos + 1]), sec, x),
            IF pos + 1 \in DOMAIN x THEN (out \cup {id}) \ {id} ELSE out \cup {id})
  <2> DEFINE p == pos + 1
             all == out \cup {id}
  <2>1. p \in DOMAIN x => x[p] = id /\ id \in Ids /\ id \in all /\ id > sec /\ IsLive(m[id])
    BY <1>1, <1>4, <1>5, <1>7
  <2>2. \A k \in DOMAIN x \ {p} : k \in DOMAIN m[sec].opts /\ x[k] = m[sec].opts[k]
    BY <1>7
  <2>3. \A k \in DOMAIN m[sec].opts \ {p} : k \in DOMAIN x
    BY <1>7
  <2>4. Heap(m) /\ Tree(m, all) /\ p \in DOMAIN m[sec].opts /\ Array(x)
    BY <1>2, <1>6, <1>7
  <2> HIDE DEF x, p, all
  <2>5. Tree(WithOpts(Destroy(m, m[sec].opts[p]), sec, x), IF p \in DOMAIN x THEN all \ {id} ELSE all)
    BY <2>1, <2>2, <2>3, <2>4, TreeCut
  <2> QED
    BY <2>5 DEF p, all
<1>11. id \notin out
  BY <1>1 DEF Made
<1>12. (out \cup {id}) \ {id} = out
  BY <1>11
<1> HIDE DEF x, d, y
<1>13. Tree(WithOpts(d, sec, x), out)
  BY <1>6, <1>7, <1>10, <1>12 DEF d, y
<1> QED
  BY <1>9, <1>13 DEF m, id

(* The last entry is taken out; one before it would leave a freed one.     *)
LEMMA TreeTake ==
  ASSUME NEW h, Heap(h), NEW out, Tree(h, out), NEW sec \in Ids, NEW name, NEW kind, NEW idx, NEW inst,
         ~(SecUnsetnCmn(h, sec, name, kind, idx, inst).pos < 0),
         SecUnsetnCmn(h, sec, name, kind, idx, inst).whole
  PROVE  Tree(SecUnsetnCmn(h, sec, name, kind, idx, inst).heap, out)
<1> DEFINE pos == SecGetnCmn(h, sec, name, kind, idx, inst \ (Insert \cup {"SET"}))
           opts == h[sec].opts
           d == Destroy(h, opts[pos + 1])
           less == [i \in 1..(Len(opts) - 1) |-> IF i <= pos + 1 THEN opts[i] ELSE opts[i - 1]]
           put == SecUnsetnCmn(h, sec, name, kind, idx, inst)
           none == [pos |-> -1, heap |-> h, whole |-> TRUE]
           other == [pos |-> pos, heap |-> WithOpts(d, sec, less), whole |-> pos = Len(opts) - 1]
<1>1. put = IF pos < 0 THEN none ELSE other
  BY Zenon DEF SecUnsetnCmn, WithOpts
<1>2. ~(pos < 0)
  <2>1. CASE pos < 0
    <3>1. put.pos = -1
      BY <1>1, <2>1
    <3> QED
      BY <3>1
  <2> QED
    BY <2>1
<1>3. (other.whole => pos = Len(opts) - 1) /\ other.heap = WithOpts(d, sec, less)
  BY Zenon
<1>4. pos = Len(opts) - 1 /\ put.heap = WithOpts(d, sec, less)
  <2> HIDE DEF other, put, pos
  <2> QED
    BY <1>1, <1>2, <1>3, Zenon DEF put
<1>5. Array(opts) /\ Len(opts) \in Nat /\ DOMAIN opts = 1..Len(opts)
  BY DEF Heap, IsNode, Array
<1> DEFINE n == Len(opts)
<1>6. n \in Nat \ {0}
  <2> HIDE DEF pos, n
  <2> QED
    BY <1>2, <1>4, <1>5 DEF n
<1>7. /\ DOMAIN less = 1..(n - 1) /\ less = [k \in 1..(n - 1) |-> less[k]]
      /\ \A k \in 1..(n - 1) : less[k] = opts[k]
  <2> HIDE DEF pos
  <2> QED
    BY <1>4, <1>6
<1> HIDE DEF less
<1>8. Array(less)
  BY <1>6, <1>7, ArrayIs
<1>9. n \in DOMAIN opts /\ n \notin DOMAIN less
      /\ (\A k \in DOMAIN less \ {n} : k \in DOMAIN opts /\ less[k] = opts[k])
      /\ \A k \in DOMAIN opts \ {n} : k \in DOMAIN less
  <2>1. n \in 1..n /\ n \notin 1..(n - 1) /\ (\A k \in 1..n \ {n} : k \in 1..(n - 1))
        /\ \A k \in 1..(n - 1) : k \in 1..n
    <3> HIDE DEF n
    <3> QED
      BY <1>6
  <2>2. DOMAIN opts = 1..n
    BY <1>5
  <2> HIDE DEF n, opts
  <2> QED
    BY <1>7, <2>1, <2>2
<1>10. Tree(WithOpts(Destroy(h, opts[n]), sec, less), IF n \in DOMAIN less THEN out \ {n} ELSE out)
  <2> HIDE DEF n
  <2> QED
    BY <1>8, <1>9, TreeCut
<1>11. pos + 1 = n
  <2> HIDE DEF pos
  <2> QED
    BY <1>4, <1>6
<1>12. put.heap = WithOpts(Destroy(h, opts[n]), sec, less)
  <2> HIDE DEF pos, n
  <2> QED
    BY <1>4, <1>11, Zenon
<1> HIDE DEF put, n
<1> QED
  BY <1>9, <1>10, <1>12, Zenon DEF put

(***************************************************************************)
(* The invariant.  Whatever the parser is in, its node is a section; what  *)
(* the calls of vt_config_defaults are in is younger the deeper they are,  *)
(* and the entries they saw at their start are still there.                *)
(***************************************************************************)
Parsed(h, f) ==
  /\ ~f.fresh /\ f.level \in DOMAIN Schema
  /\ f.fn \in {"parse", "sec"} => IsSec(h[f.node])
  /\ f.fn = "sec" => f.def \in DOMAIN Schema[f.level] /\ Schema[f.level][f.def].type = "sec"
Parsing(h, r, s) ==
  /\ Len(s) > 0 /\ s[1].node = r /\ s[1].fn = "parse" /\ h[r].kind = "file"
  /\ \A k \in DOMAIN s : Parsed(h, s[k])

Completed(h, f) == IsSec(h[f.node]) /\ f.nopts \in Nat /\ f.nopts <= Len(h[f.node].opts)
Deeper(s) == \A j, k \in DOMAIN s : j < k => s[j].node < s[k].node
Completing(h, r, s) ==
  /\ Len(s) > 0 /\ s[1].node = r /\ ~s[1].fresh
  /\ \A k \in DOMAIN s : Completed(h, s[k])
  /\ Deeper(s)

Shape(p, h, r, s) ==
  /\ Frames(s)
  /\ \/ p = "read" /\ s = <<>> /\ \A i \in Ids : h[i] = Unused
     \/ p \in {"failed", "closed"} /\ s = <<>> /\ Gone(h)
     \/ p = "parse" /\ r \in Ids /\ Tree(h, {r}) /\ Parsing(h, r, s)
     \/ p = "defaults" /\ r \in Ids /\ Tree(h, {r} \cup Hands(s)) /\ Completing(h, r, s)
     \/ p \in {"validate", "done"} /\ r \in Ids /\ Tree(h, {r}) /\ s = <<>>
Sound == why = "none" => Shape(phase, heap, root, stack)

(* No call runs, and nothing is in hand.                                   *)
LEMMA NoCalls == Frames(<<>>) /\ Hands(<<>>) = {}
  BY EmptyArray DEF Frames, Hands

(* The file is read, and its root is made.                                 *)
LEMMA ReadShape ==
  ASSUME Heap(heap), Shape(phase, heap, root, stack), ReadStep, why' = "none", why = "none"
  PROVE  Shape(phase', heap', root', stack')
<1>1. phase = "read" /\ stack = <<>> /\ \A i \in Ids : heap[i] = Unused
  BY DEF ReadStep, ReadBlock, ReadInterrupted, ReadFails, ReadEnd, Shape
<1>2. Gone(heap) /\ Tree(heap, {})
  <2>1. \A i \in Ids : heap[i].kind = "unused" /\ DOMAIN heap[i].opts = {} /\ ~IsLive(heap[i])
    BY <1>1, UnusedIs, EmptyArray DEF IsLive, IsOpt, IsSec
  <2> QED
    BY <2>1 DEF Gone, Tree, Rising, Alive, Once, Kept, OnlySecs, InTurn
<1>3. CASE UNCHANGED <<phase, heap, root, stack>>
  BY <1>3
<1>4. CASE phase' = "failed" /\ UNCHANGED <<heap, root, stack>>
  BY <1>1, <1>2, <1>4, NoCalls DEF Shape
<1>5. CASE ReadEnd
  <2> DEFINE id == NewId(heap)
             file == Node("file", "", {})
             f == Frame("parse", id, 1, 0)
  <2>1. CASE /\ FreeIds(heap) # {} /\ phase' = "parse" /\ root' = id
             /\ heap' = [heap EXCEPT ![id] = file] /\ stack' = <<f>>
    <3>1. IsNode(file) /\ file.opts = <<>> /\ file.kind = "file" /\ IsLive(file)
      <4>1. IsNode(file) /\ file.opts = <<>> /\ file.kind = "file"
        <5>1. \A k, n, x : IsNode(Node(k, n, x)) /\ Node(k, n, x).opts = <<>> /\ Node(k, n, x).kind = k
          BY PlainNodeIs
        <5> QED
          BY <5>1, Zenon
      <4> HIDE DEF file
      <4> QED
        BY <4>1 DEF IsLive, IsSec
    <3>2. Begun(f, "parse", id, 1, 0)
      BY FrameIs
    <3>3. heap' = WithNew(heap, file)
      BY <2>1, Zenon DEF WithNew
    <3> HIDE DEF file, f
    <3>4. Tree(heap', {} \cup {id}) /\ heap'[id] = file
      BY <1>2, <2>1, <3>1, <3>3, TreeNew
    <3>5. id \in Ids
      BY <2>1, NewIs
    <3>6. Array(stack') /\ Len(stack') = 1 /\ DOMAIN stack' = {1} /\ stack'[1] = f
      BY <2>1, OneIs
    <3>7. Frames(stack')
      BY <3>2, <3>5, <3>6 DEF Frames, Begun
    <3>8. Parsing(heap', id, stack')
      <4>1. 1 \in DOMAIN Schema
        BY SchemaAssumption
      <4>2. Parsed(heap', f)
        BY <3>1, <3>2, <3>4, <4>1 DEF Parsed, IsSec, Begun
      <4> QED
        BY <3>1, <3>2, <3>4, <3>6, <4>2 DEF Parsing, Begun
    <3> HIDE DEF id
    <3>9. {} \cup {id} = {id}
      OBVIOUS
    <3>10. Tree(heap', {id})
      BY <3>4, <3>9
    <3> QED
      BY <2>1, <3>5, <3>7, <3>8, <3>10 DEF Shape
  <2> HIDE DEF id, file, f
  <2> QED
    BY <1>3, <1>4, <1>5, <2>1, ReadEndCases DEF id, file, f
<1> QED
  BY <1>3, <1>4, <1>5 DEF ReadStep, ReadBlock, ReadInterrupted, ReadFails, tree

(* The tree of a file that is refused goes.                                *)
LEMMA RejectShape ==
  ASSUME Heap(heap), root \in Ids, Tree(heap, {root}), Reject
  PROVE  Shape(phase', heap', root', stack')
<1>1. phase' = "failed" /\ stack' = <<>> /\ heap' = Destroy(heap, root)
  BY DEF Reject
<1> QED
  BY <1>1, TreeGone, NoCalls DEF Shape

(* The calls of the parser: one more, one that goes on, one fewer.         *)
LEMMA ParsingPush ==
  ASSUME NEW h, NEW r, NEW s, Frames(s), Parsing(h, r, s),
         NEW f, IsFrame(f), f.node \in Ids, Parsed(h, f)
  PROVE  Frames(Append(s, f)) /\ Parsing(h, r, Append(s, f))
<1> DEFINE t == Append(s, f)
           n == Len(s)
<1>1. /\ Array(s) /\ Array(t) /\ Len(t) = n + 1 /\ t[n + 1] = f
      /\ \A k \in DOMAIN s : t[k] = s[k]
  BY PushIs DEF Frames
<1>2. n \in Nat /\ DOMAIN s = 1..n /\ DOMAIN t = 1..(n + 1) /\ n > 0
  BY <1>1 DEF Array, Parsing
<1>3. Frames(t)
  BY HandsPush
<1> HIDE DEF t, n
<1>4. (\A k \in DOMAIN t : k \in DOMAIN s \/ k = n + 1) /\ 1 \in DOMAIN s /\ Len(t) > 0
  BY <1>1, <1>2
<1>5. Parsing(h, r, t)
  BY <1>1, <1>4 DEF Parsing
<1> QED
  BY <1>3, <1>5 DEF t

(* The innermost function of the parser goes on, or becomes another.       *)
LEMMA ParsingTop ==
  ASSUME NEW h, NEW r, NEW s, Frames(s), Parsing(h, r, s), NEW f, IsFrame(f),
         f.node = s[Len(s)].node, Parsed(h, f), f.fn = "parse" \/ s[Len(s)].fn # "parse"
  PROVE  Frames([s EXCEPT ![Len(s)] = f]) /\ Parsing(h, r, [s EXCEPT ![Len(s)] = f])
<1> DEFINE n == Len(s)
           t == [s EXCEPT ![n] = f]
<1>1. Array(s) /\ n > 0
  BY DEF Frames, Parsing
<1>2. /\ Array(t) /\ Len(t) = n /\ t[n] = f /\ \A k \in DOMAIN s : k # n => t[k] = s[k]
  BY <1>1, SetTopIs
<1>3. n \in DOMAIN s /\ DOMAIN s = DOMAIN t /\ 1 \in DOMAIN s
  BY <1>1, <1>2 DEF Array
<1> HIDE DEF t, n
<1>4. \A k \in DOMAIN t : IsFrame(t[k]) /\ t[k].node = s[k].node /\ Parsed(h, t[k])
  BY <1>2, <1>3 DEF Frames, Parsing, n
<1>5. Frames(t)
  BY <1>2, <1>3, <1>4 DEF Frames
<1>6. t[1].fn = "parse"
  BY <1>2, <1>3 DEF Parsing, n
<1>7. Parsing(h, r, t)
  BY <1>1, <1>2, <1>3, <1>4, <1>6 DEF Parsing
<1> QED
  BY <1>5, <1>7 DEF t, n

(* It returns to the one that called it.                                   *)
LEMMA ParsingPop ==
  ASSUME NEW h, NEW r, NEW s, Frames(s), Parsing(h, r, s), Len(s) > 1
  PROVE  LET t == SubSeq(s, 1, Len(s) - 1) IN Frames(t) /\ Parsing(h, r, t)
<1> DEFINE n == Len(s)
           t == SubSeq(s, 1, n - 1)
<1>1. n \in Nat /\ n > 0 /\ Array(s)
  BY DEF Frames, Array
<1>2. Array(t) /\ Len(t) = n - 1 /\ \A k \in DOMAIN t : k \in DOMAIN s /\ t[k] = s[k]
  BY <1>1, PopIs
<1>3. n > 1
  OBVIOUS
<1> HIDE DEF t, n
<1>4. 1 \in DOMAIN t /\ Len(t) > 0
  BY <1>1, <1>2, <1>3 DEF Array
<1>5. Frames(t)
  BY <1>2 DEF Frames
<1>6. Parsing(h, r, t)
  BY <1>2, <1>4 DEF Parsing
<1> QED
  BY <1>5, <1>6 DEF t, n

(* The parser's sections stay sections.                                    *)
LEMMA ParsingKept ==
  ASSUME NEW h, NEW g, NEW r \in Ids, NEW s, Frames(s), Parsing(h, r, s), Keeps(h, g)
  PROVE  Parsing(g, r, s)
<1>1. \A i \in Ids : IsSec(h[i]) => IsSec(g[i]) /\ g[i].kind = h[i].kind
  BY DEF Keeps, IsSec
<1>2. \A k \in DOMAIN s : Parsed(g, s[k])
  BY <1>1 DEF Parsing, Parsed, Frames
<1>3. g[r].kind = "file"
  BY DEF Parsing, Keeps
<1> QED
  BY <1>2, <1>3 DEF Parsing

(* Where the parser is.                                                    *)
LEMMA TopIs ==
  ASSUME NEW h, NEW r, Frames(stack), Parsing(h, r, stack)
  PROVE  /\ Len(stack) \in DOMAIN stack /\ IsFrame(Top) /\ Top.node \in Ids /\ Parsed(h, Top)
         /\ Top.fn # "parse" \/ h[Top.node].kind # "file" => Len(stack) > 1
<1>1. Len(stack) \in DOMAIN stack /\ Len(stack) \in Nat /\ Len(stack) > 0
  BY DEF Frames, Parsing, Array
<1>2. IsFrame(Top) /\ Top.node \in Ids /\ Parsed(h, Top)
  BY <1>1 DEF Frames, Parsing, Top
<1>3. ASSUME Len(stack) = 1 PROVE Top.fn = "parse" /\ h[Top.node].kind = "file"
  <2>1. Top = stack[1]
    BY <1>3 DEF Top
  <2> QED
    BY <2>1 DEF Parsing
<1>4. Len(stack) = 1 \/ Len(stack) > 1
  <2>1. \A l \in Nat : l > 0 => l = 1 \/ l > 1
    OBVIOUS
  <2> QED
    BY <1>1, <2>1, Zenon
<1>5. ASSUME Top.fn # "parse" \/ h[Top.node].kind # "file" PROVE Len(stack) > 1
  BY <1>3, <1>4, <1>5, Zenon
<1> QED
  BY <1>1, <1>2, <1>5

(* The definition that is found is one of its level.                       *)
LEMMA FirstIs ==
  ASSUME NEW S, S # {}, S \subseteq Nat
  PROVE  First(S) \in S
<1>1. PICK n \in S : \A m \in S : n <= m
  BY LeastNat
<1> QED
  BY <1>1 DEF First

(* A name in the file becomes an entry, at the end of the section.         *)
LEMMA DeclareShape ==
  ASSUME Heap(heap), root \in Ids, Frames(stack), Tree(heap, {root}), Parsing(heap, root, stack),
         phase = "parse", Top.fn = "parse", NEW name, Declare(name), why' = "none"
  PROVE  Shape(phase', heap', root', stack')
<1> DEFINE id == NewId(heap)
           def == DefOf(name)
           n == Entry(def, name)
           d == First(Named(name))
           f == Frame(def.type, id, Top.level, d)
           sec == Top.node
           inst == {"APPEND", "COMPARE"}
           put == SecSetnCmn(WithNew(heap, n), sec, id, -1, inst)
<1>1. CASE Reject
  BY <1>1, RejectShape
<1>2. CASE /\ Named(name) # {} /\ FreeIds(heap) # {} /\ PutEntry(name).pos >= 0
           /\ heap' = PutEntry(name).heap
           /\ why' = IF PutEntry(name).whole THEN "none" ELSE "moved"
           /\ stack' = Push(f) /\ UNCHANGED <<phase, root>>
  <2>1. Len(stack) \in DOMAIN stack /\ sec \in Ids /\ Parsed(heap, Top)
    BY TopIs
  <2>2. IsSec(heap[sec]) /\ Top.level \in DOMAIN Schema
    BY <2>1 DEF Parsed
  <2>3. d \in DOMAIN Schema[Top.level] /\ def = Schema[Top.level][d]
    <3>1. Named(name) \subseteq DOMAIN Schema[Top.level] /\ DOMAIN Schema[Top.level] \subseteq Nat
      BY <2>2, SchemaAssumption DEF Named
    <3>2. d \in Named(name)
      BY <1>2, <3>1, FirstIs
    <3> QED
      BY <3>1, <3>2 DEF DefOf
  <2>4. def.type \in {"opt", "sec"}
    BY <2>2, <2>3, SchemaAssumption
  <2>5. IsNode(n) /\ n.kind = def.type /\ n.opts = <<>>
    <3> HIDE DEF def
    <3> QED
      BY EntryIs
  <2>6. IsLive(n) /\ (def.type = "sec" => IsSec(n))
    BY <2>4, <2>5 DEF IsLive, IsOpt, IsSec
  <2>7. put = PutEntry(name)
    BY Zenon DEF PutEntry, WithNew
  <2>8. put.pos >= 0 /\ put.whole /\ heap' = put.heap
    <3>1. PutEntry(name).whole
      BY <1>2, Zenon
    <3> HIDE DEF put
    <3> QED
      BY <1>2, <2>7, <3>1, Zenon
  <2>9. Begun(f, def.type, id, Top.level, d)
    BY FrameIs
  <2>10. id \in Ids
    BY <1>2, NewIs
  <2>11. Heap(WithNew(heap, n))
    <3> HIDE DEF n
    <3> QED
      BY <1>2, <2>5, <2>6, TreeNew
  <2> HIDE DEF id, def, n, d, f, sec
  <2>12. Grows(WithNew(heap, n), sec, inst)
    BY DEF Grows, Insert
  <2>13. PICK x : heap' = WithOpts(WithNew(heap, n), sec, x) /\ Longer(x, WithNew(heap, n)[sec].opts, id)
    <3>1. \E x : put.heap = WithOpts(WithNew(heap, n), sec, x) /\ Longer(x, WithNew(heap, n)[sec].opts, id)
      <4> HIDE DEF inst
      <4> QED
        BY <2>1, <2>8, <2>11, <2>12, GrownIs
    <3> HIDE DEF put
    <3> QED
      BY <2>8, <3>1
  <2>14. Made(heap, {root})
    BY DEF Made, Parsing
  <2>15. Tree(heap', {root}) /\ Keeps(heap, heap') /\ heap'[id].kind = n.kind
    BY <1>2, <2>1, <2>2, <2>5, <2>6, <2>13, <2>14, TreeAdd DEF id
  <2>16. Parsing(heap', root, stack)
    BY <2>15, ParsingKept
  <2>17. Parsed(heap', f)
    <3>1. def.type = "sec" => IsSec(heap'[id])
      BY <2>5, <2>15 DEF IsSec
    <3> QED
      BY <2>2, <2>3, <2>4, <2>9, <3>1 DEF Parsed, Begun
  <2>18. Frames(stack') /\ Parsing(heap', root, stack')
    <3>1. stack' = Append(stack, f)
      BY <1>2 DEF Push, f, def, id, d
    <3>2. IsFrame(f) /\ f.node \in Ids
      BY <2>9, <2>10 DEF Begun
    <3> QED
      BY <2>16, <2>17, <3>1, <3>2, ParsingPush
  <2> QED
    BY <1>2, <2>15, <2>18 DEF Shape
<1> QED
  BY <1>1, <1>2, DeclareCases, Zenon

(* A token for vt_config_parse.                                            *)
LEMMA ParseShape ==
  ASSUME Heap(heap), root \in Ids, Frames(stack), Tree(heap, {root}), Parsing(heap, root, stack),
         phase = "parse", NEW t, Parse(t), why' = "none"
  PROVE  Shape(phase', heap', root', stack')
<1>1. CASE UNCHANGED <<phase, tree, stack>>
  BY <1>1 DEF Shape, tree
<1>2. CASE /\ heap[Top.node].kind = "file" /\ phase' = "defaults"
           /\ stack' = <<Defaults(root, 1)>> /\ UNCHANGED tree
  <2> DEFINE f == DefaultsFrame(root, 1, Len(heap[root].opts), FALSE)
  <2>1. Entered(f, root, Len(heap[root].opts), FALSE)
    BY DefaultsFrameIs
  <2>2. stack' = <<f>>
    BY <1>2, Zenon DEF Defaults, Opts
  <2> HIDE DEF f
  <2>3. Array(stack') /\ Len(stack') = 1 /\ DOMAIN stack' = {1} /\ stack'[1] = f
    BY <2>2, OneIs
  <2>4. IsFrame(f) /\ f.node = root /\ f.nopts = Len(heap[root].opts) /\ ~f.fresh
    BY <2>1 DEF Entered
  <2>5. Frames(stack')
    BY <2>3, <2>4 DEF Frames
  <2>6. Hands(stack') = {}
    BY <2>3, <2>4 DEF Hands
  <2>7. Completed(heap, f)
    BY <2>4 DEF Completed, Parsing, IsSec, Heap, IsNode, Array
  <2>8. Completing(heap, root, stack')
    <3>1. Deeper(stack')
      BY <2>3 DEF Deeper
    <3> QED
      BY <2>3, <2>4, <2>7, <3>1 DEF Completing
  <2>9. Tree(heap, {root} \cup Hands(stack'))
    BY <2>6
  <2> QED
    BY <1>2, <2>5, <2>8, <2>9 DEF Shape, tree
<1>3. CASE heap[Top.node].kind = "sec" /\ stack' = Pop /\ UNCHANGED <<phase, tree>>
  <2>1. Len(stack) > 1
    BY <1>3, TopIs
  <2>2. Frames(stack') /\ Parsing(heap, root, stack')
    BY <1>3, <2>1, ParsingPop DEF Pop
  <2> QED
    BY <1>3, <2>2 DEF Shape, tree
<1>4. CASE Declare(t.v)
  <2>1. Top.fn = "parse"
    BY DEF Parse
  <2> QED
    BY <1>4, <2>1, DeclareShape
<1>5. CASE Reject
  BY <1>5, RejectShape
<1> QED
  BY <1>1, <1>2, <1>3, <1>4, <1>5, ParseCases

(* A section's title is stored, or its body begins.                        *)
LEMMA ParseSecShape ==
  ASSUME Heap(heap), root \in Ids, Frames(stack), Tree(heap, {root}), Parsing(heap, root, stack),
         phase = "parse", NEW t, ParseSec(t), why' = "none"
  PROVE  Shape(phase', heap', root', stack')
<1>1. CASE UNCHANGED <<phase, tree, stack>>
  BY <1>1 DEF Shape, tree
<1>2. CASE stack' = Continue(Frame("parse", Top.node, Def.opts, 0)) /\ UNCHANGED <<phase, tree>>
  <2> DEFINE f == Frame("parse", Top.node, Def.opts, 0)
  <2>1. Top.fn = "sec"
    BY DEF ParseSec
  <2>2. Begun(f, "parse", Top.node, Def.opts, 0)
    BY FrameIs
  <2>3. Top.node \in Ids /\ Parsed(heap, Top)
    BY TopIs
  <2>4. IsSec(heap[Top.node]) /\ Def.opts \in DOMAIN Schema
    <3>1. /\ IsSec(heap[Top.node]) /\ Top.level \in DOMAIN Schema /\ Top.def \in DOMAIN Schema[Top.level]
          /\ Schema[Top.level][Top.def].type = "sec"
      BY <2>1, <2>3 DEF Parsed
    <3>2. /\ Schema[Top.level][Top.def].opts \in (Top.level + 1)..Len(Schema)
          /\ Top.level \in 1..Len(Schema) /\ Len(Schema) \in Nat /\ DOMAIN Schema = 1..Len(Schema)
      BY <3>1, SchemaAssumption
    <3>3. \A o : o \in (Top.level + 1)..Len(Schema) => o \in 1..Len(Schema)
      BY <3>2
    <3> QED
      BY <3>1, <3>2, <3>3 DEF Def
  <2> HIDE DEF f
  <2>5. Parsed(heap, f)
    BY <2>2, <2>4 DEF Parsed, Begun
  <2>6. IsFrame(f) /\ f.node = stack[Len(stack)].node /\ f.fn = "parse"
    BY <2>2 DEF Begun, Top
  <2>7. Frames([stack EXCEPT ![Len(stack)] = f]) /\ Parsing(heap, root, [stack EXCEPT ![Len(stack)] = f])
    BY <2>5, <2>6, ParsingTop
  <2>8. stack' = [stack EXCEPT ![Len(stack)] = f]
    BY <1>2, Zenon DEF Continue, f
  <2>9. Frames(stack') /\ Parsing(heap, root, stack')
    BY <2>7, <2>8
  <2> QED
    BY <1>2, <2>9 DEF Shape, tree
<1>3. CASE heap' = [heap EXCEPT ![Top.node].title = t.v] /\ UNCHANGED <<phase, root, stack>>
  <2>1. heap' = WithTitle(heap, Top.node, t.v)
    BY <1>3, Zenon DEF WithTitle
  <2>2. Top.node \in Ids
    BY TopIs
  <2>3. \A i \in Ids : heap'[i].kind = heap[i].kind /\ heap'[i].opts = heap[i].opts
    BY <2>1, <2>2, HeapTitle DEF Titled
  <2>4. Tree(heap', {root}) /\ Keeps(heap, heap')
    BY <2>3, TreeSame, KeepsSame
  <2>5. Parsing(heap', root, stack)
    BY <2>4, ParsingKept
  <2> QED
    BY <1>3, <2>4, <2>5 DEF Shape
<1>4. CASE Reject
  BY <1>4, RejectShape
<1> QED
  BY <1>1, <1>2, <1>3, <1>4, ParseSecCases, Zenon

(* The values of an option are none of the tree's business.                *)
Valued(h, out, g) == Tree(g, out) /\ Keeps(h, g)

(* A value does not change the tree.                                       *)
LEMMA SetnTree ==
  ASSUME NEW h, Heap(h), NEW out, Tree(h, out), NEW opt, NEW val, NEW idx, NEW inst
  PROVE  Valued(h, out, [h EXCEPT ![opt] = SetnCmn(h[opt], val, idx, inst).node])
<1> DEFINE n == SetnCmn(h[opt], val, idx, inst).node
           g == [h EXCEPT ![opt] = n]
<1>1. opt \in Ids => IsNode(n) /\ Beside(n, h[opt])
  BY SetnIs DEF Heap
<1> HIDE DEF n
<1>2. \A i \in Ids : g[i] = IF i = opt THEN n ELSE h[i]
  BY DEF Heap
<1> HIDE DEF g
<1>3. \A i \in Ids : g[i].kind = h[i].kind /\ g[i].opts = h[i].opts
  BY <1>1, <1>2 DEF Beside
<1>4. Tree(g, out) /\ Keeps(h, g)
  BY <1>3, TreeSame, KeepsSame
<1> QED
  BY <1>4 DEF g, n, Valued

(* A token for vt_config_parse_opt.                                        *)
LEMMA ParseOptShape ==
  ASSUME Heap(heap), root \in Ids, Frames(stack), Tree(heap, {root}), Parsing(heap, root, stack),
         phase = "parse", NEW t, ParseOpt(t), why' = "none"
  PROVE  Shape(phase', heap', root', stack')
<1>1. Top.fn = "opt"
  BY DEF ParseOpt
<1>2. IsFrame(Top) /\ Parsed(heap, Top) /\ Len(stack) > 1
  BY <1>1, TopIs
<1>3. ASSUME NEW x, NEW h, Parsing(h, root, stack)
      PROVE  LET s == Continue([Top EXCEPT !.expect = x]) IN Frames(s) /\ Parsing(h, root, s)
  <2> DEFINE f == [Top EXCEPT !.expect = x]
  <2>1. Goes(Top, f) /\ f.fn = Top.fn /\ f.level = Top.level /\ f.def = Top.def
    BY <1>2, ExpectIs
  <2> HIDE DEF f
  <2>2. Parsed(h, Top)
    BY <1>3, TopIs
  <2>3. Parsed(h, f)
    BY <2>1, <2>2 DEF Parsed, Goes
  <2>4. IsFrame(f) /\ f.node = stack[Len(stack)].node /\ stack[Len(stack)].fn # "parse"
    BY <1>1, <2>1 DEF Goes, Top
  <2>5. Frames([stack EXCEPT ![Len(stack)] = f]) /\ Parsing(h, root, [stack EXCEPT ![Len(stack)] = f])
    BY <1>3, <2>3, <2>4, ParsingTop
  <2>6. Frames(Continue(f)) /\ Parsing(h, root, Continue(f))
    BY <2>5, Zenon DEF Continue
  <2> QED
    BY <2>6 DEF f
<1>4. ASSUME NEW h, Parsing(h, root, stack) PROVE Frames(Pop) /\ Parsing(h, root, Pop)
  BY <1>2, <1>4, ParsingPop DEF Pop
<1>5. CASE /\ stack' = Continue([Top EXCEPT !.expect = "NONE"]) \/ stack' = Pop
           /\ UNCHANGED <<phase, tree>>
  <2>1. Frames(stack') /\ Parsing(heap, root, stack')
    BY <1>3, <1>4, <1>5, Zenon
  <2> QED
    BY <1>5, <2>1 DEF Shape, tree
<1>6. CASE /\ Store(t.v)
           /\ stack' \in {Continue([Top EXCEPT !.expect = "COMMA"]), Pop}
           /\ UNCHANGED <<phase, root, said, why>>
  <2>1. \/ heap' = heap
        \/ heap' = [heap EXCEPT ![Top.node] = SetnCmn(heap[Top.node], t.v, -1, {"SET", "APPEND"}).node]
    BY <1>6 DEF Store
  <2>2. Tree(heap', {root}) /\ Keeps(heap, heap')
    <3>1. CASE heap' = heap
      BY <3>1, KeepsSame
    <3>2. CASE heap' = [heap EXCEPT ![Top.node] = SetnCmn(heap[Top.node], t.v, -1, {"SET", "APPEND"}).node]
      <4>1. Valued(heap, {root}, heap')
        BY <3>2, SetnTree
      <4> QED
        BY <4>1 DEF Valued
    <3> QED
      BY <2>1, <3>1, <3>2
  <2>3. Parsing(heap', root, stack)
    BY <2>2, ParsingKept
  <2>4. Frames(stack') /\ Parsing(heap', root, stack')
    BY <1>3, <1>4, <1>6, <2>3, Zenon
  <2> QED
    BY <1>6, <2>2, <2>4 DEF Shape
<1>7. CASE Reject
  BY <1>7, RejectShape
<1> QED
  BY <1>5, <1>6, <1>7, ParseOptCases, Zenon

(* A token, or the end of the file.                                        *)
LEMMA ParseStepShape ==
  ASSUME Heap(heap), Shape(phase, heap, root, stack), ParseStep, why' = "none"
  PROVE  Shape(phase', heap', root', stack')
<1>1. phase = "parse" /\ root \in Ids /\ Frames(stack) /\ Tree(heap, {root}) /\ Parsing(heap, root, stack)
  BY DEF ParseStep, Shape
<1>2. PICK t : Parse(t) \/ ParseSec(t) \/ ParseOpt(t)
  BY Zenon DEF ParseStep
<1> QED
  BY <1>1, <1>2, ParseShape, ParseSecShape, ParseOptShape

(* The calls of vt_config_defaults: one more, one that goes on, one fewer. *)
LEMMA CompletingPush ==
  ASSUME NEW h, NEW r, NEW s, Frames(s), Completing(h, r, s),
         NEW f, IsFrame(f), f.node \in Ids, Completed(h, f), s[Len(s)].node < f.node
  PROVE  Frames(Append(s, f)) /\ Completing(h, r, Append(s, f))
<1> DEFINE t == Append(s, f)
           n == Len(s)
<1>1. /\ Array(s) /\ Array(t) /\ Len(t) = n + 1 /\ t[n + 1] = f
      /\ \A k \in DOMAIN s : t[k] = s[k]
  BY PushIs DEF Frames
<1>2. n \in Nat /\ DOMAIN s = 1..n /\ DOMAIN t = 1..(n + 1) /\ n > 0
  BY <1>1 DEF Array, Completing
<1>3. Frames(t)
  BY HandsPush
<1>4. \A k \in DOMAIN s : s[k].node \in Nat
  BY IdsAssumption DEF Frames
<1>5. f.node \in Nat /\ s[n].node < f.node
  BY IdsAssumption
<1> HIDE DEF t, n
<1>6. (\A k \in DOMAIN t : k \in DOMAIN s \/ k = n + 1) /\ 1 \in DOMAIN s /\ n \in DOMAIN s /\ Len(t) > 0
  BY <1>1, <1>2
<1>7. \A k \in DOMAIN s : s[k].node < f.node
  <2>1. SUFFICES ASSUME NEW k \in DOMAIN s PROVE s[k].node < f.node
    OBVIOUS
  <2>2. k = n \/ k < n
    BY <1>2
  <2>3. s[k].node = s[n].node \/ s[k].node < s[n].node
    BY <1>6, <2>2 DEF Completing, Deeper
  <2> QED
    BY <1>4, <1>5, <1>6, <2>3
<1>8. Deeper(t)
  <2>1. SUFFICES ASSUME NEW j \in DOMAIN t, NEW k \in DOMAIN t, j < k PROVE t[j].node < t[k].node
    BY DEF Deeper
  <2>2. j \in DOMAIN s
    BY <1>2, <2>1
  <2>3. CASE k \in DOMAIN s
    BY <1>1, <2>1, <2>2, <2>3 DEF Completing, Deeper
  <2>4. CASE k = n + 1
    BY <1>1, <1>7, <2>2, <2>4
  <2> QED
    BY <1>6, <2>3, <2>4
<1>9. Completing(h, r, t)
  BY <1>1, <1>6, <1>8 DEF Completing
<1> QED
  BY <1>3, <1>9 DEF t

(* The innermost vt_config_defaults goes on.                               *)
LEMMA CompletingTop ==
  ASSUME NEW h, NEW r, NEW s, Frames(s), Completing(h, r, s), NEW f, Goes(s[Len(s)], f)
  PROVE  LET t == [s EXCEPT ![Len(s)] = f] IN
         Frames(t) /\ Completing(h, r, t) /\ Hands(t) = Hands(s)
<1> DEFINE n == Len(s)
           t == [s EXCEPT ![n] = f]
<1>1. Array(s) /\ n > 0
  BY DEF Frames, Completing
<1>2. /\ Array(t) /\ Len(t) = n /\ t[n] = f /\ \A k \in DOMAIN s : k # n => t[k] = s[k]
  BY <1>1, SetTopIs
<1>3. n \in DOMAIN s /\ DOMAIN s = DOMAIN t /\ 1 \in DOMAIN s
  BY <1>1, <1>2 DEF Array
<1>4. Goes(s[n], f) /\ Frames(t) /\ Hands(t) = Hands(s)
  BY <1>1, HandsTop
<1> HIDE DEF t, n
<1>5. \A k \in DOMAIN s : t[k].node = s[k].node /\ t[k].nopts = s[k].nopts /\ (t[k].fresh <=> s[k].fresh)
  BY <1>2, <1>3, <1>4 DEF Goes
<1>6. Deeper(t)
  BY <1>3, <1>5 DEF Completing, Deeper
<1>7. Completing(h, r, t)
  BY <1>1, <1>2, <1>3, <1>5, <1>6 DEF Completing, Completed
<1> QED
  BY <1>4, <1>7 DEF t, n

(* It returns to the one that called it.                                   *)
LEMMA CompletingPop ==
  ASSUME NEW h, NEW r, NEW s, Frames(s), Completing(h, r, s), Len(s) # 1
  PROVE  LET t == SubSeq(s, 1, Len(s) - 1)
             top == s[Len(s)]
         IN  /\ Frames(t) /\ Completing(h, r, t) /\ t[Len(t)].node < top.node
             /\ Hands(t) = IF top.fresh THEN Hands(s) \ {top.node} ELSE Hands(s)
<1> DEFINE n == Len(s)
           t == SubSeq(s, 1, n - 1)
<1>1. n \in Nat /\ n > 0 /\ Array(s) /\ DOMAIN s = 1..n
  BY DEF Frames, Array, Completing
<1>2. Array(t) /\ Len(t) = n - 1 /\ \A k \in DOMAIN t : k \in DOMAIN s /\ t[k] = s[k]
  BY <1>1, PopIs
<1>3. \A k \in DOMAIN s : s[k].node \in Nat
  BY IdsAssumption DEF Frames
<1>4. \A k \in DOMAIN s : k # n => s[k].node < s[n].node
  <2> HIDE DEF n
  <2>1. \A k \in DOMAIN s : k # n => k < n
    BY <1>1
  <2>2. n \in DOMAIN s
    BY <1>1
  <2> QED
    BY <2>1, <2>2 DEF Completing, Deeper
<1>5. n \in DOMAIN s /\ \A k \in DOMAIN s : k # n => s[k].node # s[n].node
  <2> HIDE DEF n
  <2>1. n \in DOMAIN s
    BY <1>1
  <2> QED
    BY <1>3, <1>4, <2>1
<1>6. Frames(t) /\ Hands(t) = IF s[n].fresh THEN Hands(s) \ {s[n].node} ELSE Hands(s)
  BY <1>1, <1>5, HandsPop
<1>7. n # 1
  OBVIOUS
<1> HIDE DEF t, n
<1>8. 1 \in DOMAIN t /\ Len(t) > 0 /\ Len(t) \in DOMAIN t /\ Len(t) # n
  BY <1>1, <1>2, <1>7 DEF Array
<1>9. t[Len(t)].node < s[n].node
  BY <1>2, <1>4, <1>8
<1>10. Completing(h, r, t)
  BY <1>2, <1>8 DEF Completing, Deeper
<1> QED
  BY <1>6, <1>9, <1>10 DEF t, n

(* What the calls have seen is still there when entries were only added.   *)
LEMMA CompletingKept ==
  ASSUME NEW h, Heap(h), NEW g, Heap(g), NEW r, NEW s, Frames(s), Completing(h, r, s), Keeps(h, g)
  PROVE  Completing(g, r, s)
<1>1. \A i \in Ids : /\ IsSec(h[i]) => IsSec(g[i]) /\ Len(h[i].opts) <= Len(g[i].opts)
                     /\ Len(h[i].opts) \in Nat /\ Len(g[i].opts) \in Nat
  BY DEF Keeps, IsSec, Heap, IsNode, Array
<1>2. \A k \in DOMAIN s : Completed(g, s[k])
  <2>1. SUFFICES ASSUME NEW k \in DOMAIN s PROVE Completed(g, s[k])
    OBVIOUS
  <2>2. s[k].node \in Ids /\ Completed(h, s[k])
    BY DEF Frames, Completing
  <2> QED
    BY <1>1, <2>2 DEF Completed
<1> QED
  BY <1>2 DEF Completing

(* Where vt_config_defaults is; what it has in its hands was made.         *)
LEMMA LevelIs ==
  ASSUME root \in Ids, Frames(stack), Completing(heap, root, stack)
  PROVE  /\ Len(stack) \in DOMAIN stack /\ Len(stack) > 0 /\ IsFrame(Top) /\ Top.node \in Ids
         /\ Completed(heap, Top) /\ Top = stack[Len(stack)]
         /\ Made(heap, {root} \cup Hands(stack))
<1>1. Len(stack) \in DOMAIN stack /\ Len(stack) > 0 /\ 1 \in DOMAIN stack
  BY DEF Frames, Completing, Array
<1>2. \A k \in DOMAIN stack : stack[k].node \in Ids /\ heap[stack[k].node].kind # "unused"
  BY DEF Frames, Completing, Completed, IsSec
<1>3. Made(heap, Hands(stack))
  BY <1>2 DEF Made, Hands
<1>4. heap[root].kind # "unused"
  BY <1>1, <1>2 DEF Completing
<1>5. Made(heap, {root} \cup Hands(stack))
  BY <1>3, <1>4 DEF Made
<1> QED
  BY <1>1, <1>5 DEF Frames, Completing, Top

(* A step of vt_config_defaults that leaves the heap alone, or adds to it. *)
LEMMA PresentShape ==
  ASSUME Heap(heap), root \in Ids, Frames(stack), Tree(heap, {root} \cup Hands(stack)),
         Completing(heap, root, stack), phase = "defaults", DefaultPresent
  PROVE  Shape(phase', heap', root', stack')
<1> DEFINE p == First(Present(Def))
           entry == Opts(Top.node)[p]
<1>1. /\ Present(Def) # {} /\ UNCHANGED <<phase, heap, root>>
      /\ stack' = IF IsSec(heap[entry]) THEN Push(Defaults(entry, Def.opts)) ELSE Continue(NextDef(Top))
  BY Zenon DEF DefaultPresent
<1>2. IsFrame(Top) /\ Top.node \in Ids /\ Completed(heap, Top) /\ Top = stack[Len(stack)]
  BY LevelIs
<1>3. Top.nopts \in Nat /\ Top.nopts <= Len(heap[Top.node].opts)
  BY <1>2 DEF Completed
<1>4. p \in 1..Top.nopts
  <2>1. Present(Def) \subseteq 1..Top.nopts /\ Present(Def) \subseteq Nat
    BY <1>3 DEF Present
  <2> QED
    BY <1>1, <2>1, FirstIs
<1>5. p \in DOMAIN heap[Top.node].opts
  <2>1. Len(heap[Top.node].opts) \in Nat /\ DOMAIN heap[Top.node].opts = 1..Len(heap[Top.node].opts)
    BY <1>2 DEF Heap, IsNode, Array
  <2> HIDE DEF p
  <2> QED
    BY <1>3, <1>4, <2>1
<1>6. entry \in Ids /\ Top.node < entry
  <2> HIDE DEF p
  <2>1. heap[Top.node].opts[p] \in Ids /\ heap[Top.node].opts[p] > Top.node
    BY <1>2, <1>5 DEF Tree, Rising
  <2>2. entry = heap[Top.node].opts[p]
    BY DEF Opts
  <2> QED
    BY <1>2, <2>1, <2>2, IdsAssumption
<1> HIDE DEF p, entry
<1>7. CASE IsSec(heap[entry])
  <2> DEFINE f == DefaultsFrame(entry, Def.opts, Len(heap[entry].opts), FALSE)
  <2>1. Entered(f, entry, Len(heap[entry].opts), FALSE)
    BY DefaultsFrameIs
  <2>2. stack' = Append(stack, f)
    BY <1>1, <1>7, Zenon DEF Push, Defaults, Opts
  <2> HIDE DEF f
  <2>3. IsFrame(f) /\ f.node = entry /\ f.nopts = Len(heap[entry].opts) /\ ~f.fresh
    BY <2>1 DEF Entered
  <2>4. Completed(heap, f)
    BY <1>6, <1>7, <2>3 DEF Completed, Heap, IsNode, Array
  <2>5. Frames(stack') /\ Completing(heap, root, stack')
    BY <1>2, <1>6, <2>2, <2>3, <2>4, CompletingPush
  <2>6. Hands(stack') = Hands(stack)
    <3>1. Hands(stack') = Hands(stack) \cup {x \in {f.node} : f.fresh}
      BY <1>6, <2>2, <2>3, HandsPush
    <3> QED
      BY <2>3, <3>1
  <2> QED
    BY <1>1, <2>5, <2>6 DEF Shape
<1>8. CASE ~IsSec(heap[entry])
  <2>1. stack' = [stack EXCEPT ![Len(stack)] = NextDef(Top)]
    BY <1>1, <1>8, Zenon DEF Continue
  <2>2. Goes(stack[Len(stack)], NextDef(Top))
    BY <1>2, NextIs
  <2>3. Frames(stack') /\ Completing(heap, root, stack') /\ Hands(stack') = Hands(stack)
    BY <2>1, <2>2, CompletingTop
  <2> QED
    BY <1>1, <2>3 DEF Shape
<1> QED
  BY <1>7, <1>8

(* The default of a section: the section is made, then filled, in hand.    *)
LEMMA NewSectionShape ==
  ASSUME Heap(heap), root \in Ids, Frames(stack), Tree(heap, {root} \cup Hands(stack)),
         Completing(heap, root, stack), phase = "defaults", DefaultSec
  PROVE  Shape(phase', heap', root', stack')
<1> DEFINE id == NewId(heap)
           n == SecNode(Def.name, Def.flags \ {"LIST", "NODEFAULT"})
           f == DefaultsFrame(id, Def.opts, 0, TRUE)
<1>1. /\ FreeIds(heap) # {} /\ UNCHANGED <<phase, root>>
      /\ heap' = WithNew(heap, n) /\ stack' = Append(stack, f)
  BY Zenon DEF DefaultSec, WithNew, Push
<1>2. Top.node \in Ids /\ Completed(heap, Top) /\ Top = stack[Len(stack)]
  BY LevelIs
<1>3. IsNode(n) /\ n.kind = "sec" /\ n.opts = <<>>
  BY DefaultNodeIs
<1>4. Entered(f, id, 0, TRUE)
  BY DefaultsFrameIs
<1>5. id \in Ids
  BY <1>1, NewIs
<1>6. Top.node < id
  <2>1. heap[Top.node].kind # "unused"
    BY <1>2 DEF Completed, IsSec
  <2> QED
    BY <1>1, <1>2, <2>1, Younger DEF Tree
<1> HIDE DEF n, f
<1>7. IsLive(n) /\ IsSec(n)
  BY <1>3 DEF IsLive, IsSec
<1>8. /\ Heap(heap') /\ Tree(heap', {root} \cup Hands(stack) \cup {id}) /\ Stays(heap, heap')
      /\ heap'[id] = n
  BY <1>1, <1>3, <1>7, TreeNew
<1> HIDE DEF id
<1>9. Keeps(heap, heap')
  <2>1. \A i \in Ids : Len(heap[i].opts) \in Nat
    BY DEF Heap, IsNode, Array
  <2> QED
    BY <1>8, <2>1 DEF Stays, Keeps
<1>10. IsFrame(f) /\ f.node = id /\ f.nopts = 0 /\ f.fresh
  BY <1>4 DEF Entered
<1>11. Completed(heap', f)
  <2>1. Len(n.opts) = 0
    BY <1>3
  <2> QED
    BY <1>7, <1>8, <1>10, <2>1 DEF Completed
<1>12. Completing(heap', root, stack)
  BY <1>8, <1>9, CompletingKept
<1>13. Frames(stack') /\ Completing(heap', root, stack')
  BY <1>1, <1>2, <1>5, <1>6, <1>10, <1>11, <1>12, CompletingPush
<1>14. Hands(stack') = Hands(stack) \cup {id}
  <2>1. Hands(stack') = Hands(stack) \cup {x \in {f.node} : f.fresh}
    BY <1>1, <1>5, <1>10, HandsPush
  <2> QED
    BY <1>10, <2>1
<1>15. {root} \cup Hands(stack') = {root} \cup Hands(stack) \cup {id}
  BY <1>14
<1>16. Tree(heap', {root} \cup Hands(stack'))
  BY <1>8, <1>15
<1> QED
  BY <1>1, <1>13, <1>16 DEF Shape

(* The default of an option: it is made, set and added at the end.         *)
LEMMA NewOptionShape ==
  ASSUME Heap(heap), root \in Ids, Frames(stack), Tree(heap, {root} \cup Hands(stack)),
         Completing(heap, root, stack), phase = "defaults", DefaultOpt, Heap(heap')
  PROVE  Shape(phase', heap', root', stack')
<1> DEFINE id == NewId(heap)
           node == OptNode(Def.name, Def.flags \ {"LIST", "TITLE", "NODEFAULT"}, Def.vtype)
           n == IF "NODEFAULT" \in Def.flags THEN node ELSE SetnCmn(node, Def.val, -1, {"SET"}).node
           put == Attach(Top.node, WithNew(heap, n), id)
           out == {root} \cup Hands(stack)
<1>1. /\ FreeIds(heap) # {} /\ UNCHANGED <<phase, root>> /\ put.pos >= 0
      /\ heap' = put.heap /\ stack' = Continue(Added(Top))
  BY Zenon DEF DefaultOpt, WithNew
<1>2. /\ Top.node \in Ids /\ IsFrame(Top) /\ Completed(heap, Top) /\ Top = stack[Len(stack)]
      /\ Made(heap, out)
  BY LevelIs
<1>3. IsNode(n) /\ n.kind = "opt" /\ n.opts = <<>>
  BY DefaultNodeIs
<1> HIDE DEF n
<1>4. IsLive(n)
  BY <1>3 DEF IsLive, IsOpt
<1>5. Heap(WithNew(heap, n))
  BY <1>1, <1>3, <1>4, TreeNew
<1>6. PICK x : heap' = WithOpts(WithNew(heap, n), Top.node, x) /\ Longer(x, WithNew(heap, n)[Top.node].opts, id)
  <2>1. \E x : put.heap = WithOpts(WithNew(heap, n), Top.node, x)
               /\ Longer(x, WithNew(heap, n)[Top.node].opts, id)
    BY <1>1, <1>2, <1>5, AttachIs
  <2> HIDE DEF put
  <2> QED
    BY <1>1, <2>1
<1>7. IsSec(heap[Top.node])
  BY <1>2 DEF Completed
<1> HIDE DEF id, out
<1>8. Tree(heap', out) /\ Keeps(heap, heap')
  BY <1>1, <1>2, <1>3, <1>4, <1>6, <1>7, TreeAdd DEF id, out
<1>9. Completing(heap', root, stack)
  BY <1>8, CompletingKept
<1>10. stack' = [stack EXCEPT ![Len(stack)] = Added(Top)]
  BY <1>1, Zenon DEF Continue
<1>11. Goes(stack[Len(stack)], Added(Top))
  BY <1>2, NextIs
<1>12. Frames(stack') /\ Completing(heap', root, stack') /\ Hands(stack') = Hands(stack)
  BY <1>9, <1>10, <1>11, CompletingTop
<1> QED
  BY <1>1, <1>8, <1>12 DEF Shape, out

(* A level is done.  A section that was made for it goes into the one it   *)
(* was made for, which is older.                                           *)
LEMMA ReturnShape ==
  ASSUME Heap(heap), root \in Ids, Frames(stack), Tree(heap, {root} \cup Hands(stack)),
         Completing(heap, root, stack), phase = "defaults", DefaultsReturn, Heap(heap')
  PROVE  Shape(phase', heap', root', stack')
<1>1. /\ Top.node \in Ids /\ Completed(heap, Top) /\ Top = stack[Len(stack)] /\ Len(stack) > 0
      /\ UNCHANGED root
  BY LevelIs DEF DefaultsReturn
<1>2. CASE Len(stack) = 1
  <2>1. phase' = "validate" /\ stack' = <<>> /\ heap' = heap
    BY <1>2 DEF DefaultsReturn
  <2>2. Hands(stack) = {}
    <3>1. DOMAIN stack = {1}
      BY <1>2 DEF Frames, Array
    <3> QED
      BY <3>1 DEF Hands, Completing
  <2>3. Tree(heap', {root})
    BY <2>1, <2>2
  <2> QED
    BY <1>1, <2>1, <2>3, NoCalls DEF Shape
<1>3. CASE Len(stack) # 1
  <2> DEFINE caller == Pop[Len(Pop)]
             put == Attach(caller.node, heap, Top.node)
             out == {root} \cup Hands(stack)
  <2>1. /\ phase' = phase
        /\ Top.fresh => /\ put.pos >= 0 /\ heap' = put.heap
                        /\ stack' = [Pop EXCEPT ![Len(Pop)] = Added(caller)]
        /\ ~Top.fresh => heap' = heap /\ stack' = [Pop EXCEPT ![Len(Pop)] = NextDef(caller)]
    BY <1>3, Zenon DEF DefaultsReturn
  <2>2. /\ Frames(Pop) /\ Completing(heap, root, Pop) /\ caller.node < Top.node
        /\ Hands(Pop) = IF Top.fresh THEN Hands(stack) \ {Top.node} ELSE Hands(stack)
    BY <1>1, <1>3, CompletingPop DEF Pop, Top
  <2>3. Len(Pop) \in DOMAIN Pop /\ Len(Pop) > 0
    BY <2>2 DEF Frames, Completing, Array
  <2>4. IsFrame(caller) /\ caller.node \in Ids /\ Completed(heap, caller)
    BY <2>2, <2>3 DEF Frames, Completing
  <2>5. Goes(caller, Added(caller)) /\ Goes(caller, NextDef(caller))
    BY <2>4, NextIs
  <2>6. ASSUME NEW h, Completing(h, root, Pop), NEW f, Goes(caller, f),
               stack' = [Pop EXCEPT ![Len(Pop)] = f]
        PROVE  Frames(stack') /\ Completing(h, root, stack') /\ Hands(stack') = Hands(Pop)
    BY <2>2, <2>6, CompletingTop
  <2>7. CASE Top.fresh
    <3>1. Top.node \in Hands(stack)
      <4>1. Len(stack) \in DOMAIN stack
        BY LevelIs
      <4> QED
        BY <1>1, <2>7, <4>1 DEF Hands
    <3>2. IsSec(heap[caller.node]) /\ IsLive(heap[Top.node]) /\ Top.node \in out
      BY <1>1, <2>4, <3>1 DEF Completed, IsLive
    <3>3. PICK x : heap' = WithOpts(heap, caller.node, x) /\ Longer(x, heap[caller.node].opts, Top.node)
      <4>1. \E x : put.heap = WithOpts(heap, caller.node, x) /\ Longer(x, heap[caller.node].opts, Top.node)
        <5> HIDE DEF caller
        <5> QED
          BY <2>1, <2>4, <2>7, AttachIs
      <4> HIDE DEF put
      <4> QED
        BY <2>1, <2>7, <4>1
    <3>4. Top.node > caller.node
      BY <1>1, <2>2, <2>4, IdsAssumption
    <3> HIDE DEF caller, out, put
    <3>5. Tree(heap', out \ {Top.node}) /\ Keeps(heap, heap')
      BY <1>1, <2>4, <3>2, <3>3, <3>4, TreeLonger DEF out
    <3>6. root # Top.node
      <4>1. 1 \in DOMAIN stack /\ Len(stack) \in DOMAIN stack /\ 1 < Len(stack)
        BY <1>3 DEF Frames, Completing, Array
      <4>2. stack[1].node < Top.node /\ stack[1].node = root
        BY <1>1, <4>1 DEF Completing, Deeper
      <4> QED
        BY <1>1, <4>2, IdsAssumption
    <3>7. out \ {Top.node} = {root} \cup Hands(Pop)
      BY <2>2, <2>7, <3>6 DEF out
    <3>8. Completing(heap', root, Pop)
      BY <2>2, <3>5, CompletingKept
    <3>9. Frames(stack') /\ Completing(heap', root, stack') /\ Hands(stack') = Hands(Pop)
      BY <2>1, <2>5, <2>6, <2>7, <3>8 DEF caller
    <3>10. Tree(heap', {root} \cup Hands(stack'))
      BY <3>5, <3>7, <3>9
    <3> QED
      BY <1>1, <2>1, <3>9, <3>10 DEF Shape
  <2>8. CASE ~Top.fresh
    <3>1. Frames(stack') /\ Completing(heap, root, stack') /\ Hands(stack') = Hands(stack)
      BY <2>1, <2>2, <2>5, <2>6, <2>8
    <3> QED
      BY <1>1, <2>1, <2>8, <3>1 DEF Shape
  <2> QED
    BY <2>7, <2>8
<1> QED
  BY <1>2, <1>3

(* Every step of vt_config_defaults.                                       *)
LEMMA DefaultsShape ==
  ASSUME Heap(heap), Shape(phase, heap, root, stack), DefaultsStep, why' = "none", Heap(heap')
  PROVE  Shape(phase', heap', root', stack')
<1>1. /\ phase = "defaults" /\ root \in Ids /\ Frames(stack) /\ Tree(heap, {root} \cup Hands(stack))
      /\ Completing(heap, root, stack)
  <2>1. phase = "defaults"
    BY DEF DefaultsStep, DefaultPresent, DefaultSec, DefaultOpt, DefaultsReturn, DefaultsFail,
           DefaultsStale, AtDef
  <2> QED
    BY <2>1 DEF Shape
<1>2. CASE DefaultsFail
  <2>1. /\ stack' = <<>> /\ phase' = "failed"
        /\ heap' = [i \in Ids |-> IF heap[i] = Unused THEN Unused ELSE Freed]
    BY <1>2 DEF DefaultsFail
  <2>2. Gone(heap')
    <3>1. /\ ~IsLive(Unused) /\ DOMAIN Unused.opts = {}
          /\ ~IsLive(Freed) /\ DOMAIN Freed.opts = {}
      BY UnusedIs, EmptyArray DEF IsLive, IsOpt, IsSec
    <3>2. \A i \in Ids : heap'[i] \in {Unused, Freed}
      BY <2>1
    <3> QED
      BY <3>1, <3>2 DEF Gone
  <2> QED
    BY <2>1, <2>2, NoCalls DEF Shape
<1>3. CASE DefaultsStale
  BY <1>3 DEF DefaultsStale
<1> QED
  BY <1>1, <1>2, <1>3, PresentShape, NewSectionShape, NewOptionShape, ReturnShape DEF DefaultsStep

(* The look for duplicates accepts the tree, or nothing is left of it.     *)
LEMMA ValidateShape ==
  ASSUME Heap(heap), Shape(phase, heap, root, stack), Validate
  PROVE  Shape(phase', heap', root', stack')
<1>1. phase = "validate"
  BY DEF Validate
<1>2. root \in Ids /\ Tree(heap, {root}) /\ stack = <<>>
  BY <1>1 DEF Shape
<1>3. Reject \/ (phase' = "done" /\ UNCHANGED <<tree, stack>>)
  BY Zenon DEF Validate
<1>4. CASE Reject
  BY <1>2, <1>4, RejectShape
<1>5. CASE phase' = "done" /\ UNCHANGED <<tree, stack>>
  BY <1>2, <1>5, NoCalls DEF Shape, tree
<1> QED
  BY <1>3, <1>4, <1>5

(* A caller's entry is put in at the end, or in the place of another one.  *)
LEMMA OfferTree ==
  ASSUME Heap(heap), root \in Ids, Tree(heap, {root}), heap[root].kind # "unused",
         NEW sec \in Ids, IsSec(heap[sec]), NEW node, IsNode(node), IsLive(node), node.opts = <<>>,
         NEW idx \in Int, NEW inst, Offer(sec, node, idx, inst), why' = "none"
  PROVE  Tree(heap', {root})
<1> DEFINE id == NewId(heap)
           m == WithNew(heap, node)
           put == SecSetnCmn(m, sec, id, idx, inst)
<1>1. /\ FreeIds(heap) # {}
      /\ \/ heap' = [heap EXCEPT ![id] = Freed]
         \/ ~(put.pos < 0) /\ heap' = put.heap /\ put.whole
  BY Zenon DEF Offer, Changed, WithNew
<1>2. CASE heap' = [heap EXCEPT ![id] = Freed]
  BY <1>1, <1>2, TreeFree
<1>3. CASE ~(put.pos < 0) /\ heap' = put.heap /\ put.whole
  <2>1. Heap(m) /\ Stays(heap, m)
    BY <1>1, TreeNew
  <2>2. Made(heap, {root})
    BY DEF Made
  <2>3. PutPos(m, sec, id, idx, inst) \in -1..Len(m[sec].opts)
        /\ ("APPEND" \notin inst /\ Len(m[sec].opts) > 0 => PutPos(m, sec, id, idx, inst) < Len(m[sec].opts))
    <3> DEFINE all == inst \cup {"SET"}
    <3>1. "APPEND" \notin inst => "APPEND" \notin all
      OBVIOUS
    <3> HIDE DEF m, id, all
    <3>2. LET p == SecGetnCmn(m, sec, m[id].name, m[id].kind, idx, all)
              n == Len(m[sec].opts)
          IN  p \in -1..n /\ ("APPEND" \notin all /\ n > 0 => p < n)
      BY <2>1, SecGetnIn
    <3> QED
      BY <3>1, <3>2 DEF PutPos, all
  <2>4. put.pos >= 0
    <3>1. put.pos \in Int
      <4>1. put.pos \in {-1, PutPos(m, sec, id, idx, inst)}
        BY Zenon DEF SecSetnCmn, PutPos
      <4> HIDE DEF put, m, id
      <4> QED
        BY <2>3, <4>1
    <3> HIDE DEF put
    <3> QED
      BY <1>3, <3>1
  <2>5. CASE Grows(m, sec, inst)
    <3>1. PICK x : heap' = WithOpts(m, sec, x) /\ Longer(x, m[sec].opts, id)
      <4>1. \E x : put.heap = WithOpts(m, sec, x) /\ Longer(x, m[sec].opts, id)
        <5> HIDE DEF m, id
        <5> QED
          BY <1>3, <2>1, <2>4, <2>5, GrownIs
      <4> HIDE DEF put
      <4> QED
        BY <1>3, <4>1
    <3> QED
      BY <1>1, <2>2, <3>1, TreeAdd
  <2>6. CASE ~Grows(m, sec, inst)
    <3> DEFINE pos == PutPos(m, sec, id, idx, inst)
    <3>1. ~(pos < 0) /\ put.heap = Replaced(m, sec, id, pos)
      <4> HIDE DEF m, id
      <4> QED
        BY <2>4, <2>6, SecSetnCases
    <3>2. pos \in Nat /\ pos < Len(m[sec].opts)
      <4>1. "APPEND" \notin inst /\ m[sec].opts # <<>>
        BY <2>6 DEF Grows, Insert
      <4>2. Len(m[sec].opts) \in Nat /\ Len(m[sec].opts) > 0
        <5> HIDE DEF m
        <5>1. Array(m[sec].opts)
          BY <2>1 DEF Heap, IsNode
        <5>2. Len(m[sec].opts) # 0 /\ Len(m[sec].opts) \in Nat
          BY <4>1, <5>1, ArrayEmpty DEF Array
        <5> QED
          BY <5>2
      <4> HIDE DEF m, id
      <4>3. pos \in -1..Len(m[sec].opts) /\ pos < Len(m[sec].opts)
        BY <2>3, <4>1, <4>2
      <4> HIDE DEF pos
      <4> QED
        BY <3>1, <4>2, <4>3
    <3> HIDE DEF pos
    <3>3. Tree(Replaced(m, sec, id, pos), {root})
      BY <1>1, <2>2, <3>2, TreeReplace
    <3> HIDE DEF put
    <3> QED
      BY <1>3, <3>1, <3>3
  <2> QED
    BY <2>5, <2>6
<1> QED
  BY <1>1, <1>2, <1>3

(* As long as anything is there, the root is: the oldest node has no older *)
(* one that could hold it.                                                 *)
LEMMA RootLives ==
  ASSUME NEW h, NEW r, Tree(h, {r}), NEW i \in Ids, IsLive(h[i])
  PROVE  r \in Ids /\ IsLive(h[r])
<1> DEFINE L == {j \in Ids : IsLive(h[j])}
<1>1. L # {} /\ L \subseteq Nat
  BY IdsAssumption
<1>2. PICK m \in L : \A l \in L : m <= l
  <2> HIDE DEF L
  <2> QED
    BY <1>1, LeastNat
<1>3. m \in Ids /\ IsLive(h[m]) /\ m \in Nat
  BY <1>2, IdsAssumption
<1>4. ASSUME NEW s \in Ids, Holds(h, s, m) PROVE FALSE
  <2>1. PICK k \in DOMAIN h[s].opts : h[s].opts[k] = m
    BY <1>4 DEF Holds
  <2>2. IsLive(h[s]) /\ m > s
    BY <2>1 DEF Tree, OnlySecs, Rising, IsLive
  <2>3. m <= s /\ s \in Nat
    BY <1>2, <2>2, IdsAssumption
  <2> QED
    BY <1>3, <2>2, <2>3
<1>5. m = r
  BY <1>3, <1>4 DEF Tree, Kept
<1> QED
  BY <1>3, <1>5

\* What a call that takes an entry out comes to
Taken(sec, name, kind, idx, inst) ==
  SecUnsetnCmn(heap, sec, Sought(name, inst), kind, idx, inst \cup {"COMPARE"})

(* Every call leaves a tree, or closes it.                                 *)
LEMMA CallsShape ==
  ASSUME Heap(heap), Shape(phase, heap, root, stack), Calls, why' = "none"
  PROVE  Shape(phase', heap', root', stack')
<1>1. phase = "done" /\ root \in Ids /\ Tree(heap, {root}) /\ stack = <<>> /\ stack' = stack
  <2>1. phase = "done" /\ stack' = stack
    <3>1. CASE Close
      BY <3>1 DEF Close
    <3>2. CASE ~Close
      <4>1. Calling
        BY <3>2, Zenon DEF Calls, BoolCalls, IntCalls, FloatCalls, StrCalls, ValueCalls, SecCalls
      <4>2. \E h, whole : Changed(h, whole)
        <5>1. ASSUME NEW opt, NEW val, NEW idx, NEW inst, Setn(opt, val, idx, inst)
              PROVE  \E h, whole : Changed(h, whole)
          BY <5>1, Zenon DEF Setn
        <5>2. ASSUME NEW opt, NEW idx, Unsetn(opt, idx)
              PROVE  \E h, whole : Changed(h, whole)
          BY <5>2, Zenon DEF Unsetn
        <5>3. ASSUME NEW sec, NEW node, NEW idx, NEW inst, Offer(sec, node, idx, inst)
              PROVE  \E h, whole : Changed(h, whole)
          BY <5>3, Zenon DEF Offer
        <5>4. ASSUME NEW sec, NEW kind, SecUnsetn(sec, kind)
              PROVE  \E h, whole : Changed(h, whole)
          BY <5>4, Zenon DEF SecUnsetn
        <5>5. ASSUME NEW type, ValueCalls(type) PROVE \E h, whole : Changed(h, whole)
          BY <5>1, <5>2, <5>5, Zenon DEF ValueCalls
        <5>6. ASSUME NEW sec, SecValueCalls(sec) PROVE \E h, whole : Changed(h, whole)
          BY <5>1, <5>6, Zenon DEF SecValueCalls
        <5>7. ASSUME NEW sec, SecSetnOpt(sec) \/ SecSetnSec(sec) PROVE \E h, whole : Changed(h, whole)
          BY <5>3, <5>7, Zenon DEF SecSetnOpt, SecSetnSec
        <5>8. ASSUME NEW sec, SecUnsetnOpt(sec) \/ SecUnsetnSec(sec) PROVE \E h, whole : Changed(h, whole)
          BY <5>4, <5>8, Zenon DEF SecUnsetnOpt, SecUnsetnSec
        <5>9. ASSUME SecCalls PROVE \E h, whole : Changed(h, whole)
          BY <5>6, <5>7, <5>8, <5>9, Zenon DEF SecCalls
        <5> QED
          BY <3>2, <5>5, <5>9, Zenon DEF Calls, BoolCalls, IntCalls, FloatCalls, StrCalls
      <4> QED
        BY <4>1, <4>2 DEF Calling, Changed
    <3> QED
      BY <3>1, <3>2
  <2> QED
    BY <2>1 DEF Shape
<1>2. CASE Close
  <2>1. phase' = "closed" /\ heap' = Destroy(heap, root)
    BY <1>2 DEF Close
  <2> QED
    BY <1>1, <2>1, TreeGone, NoCalls DEF Shape
<1>3. ASSUME phase' = phase, root' = root, Tree(heap', {root}) PROVE Shape(phase', heap', root', stack')
  BY <1>1, <1>3, NoCalls DEF Shape
<1>4. ASSUME NEW opt, NEW val, NEW idx, NEW inst, Setn(opt, val, idx, inst)
      PROVE  Shape(phase', heap', root', stack')
  <2>1. /\ phase' = phase /\ root' = root
        /\ heap' = [heap EXCEPT ![opt] =
                      SetnCmn(heap[opt], val, idx, (inst \cup {"SET"}) \ {"COMPARE"}).node]
    BY <1>4 DEF Setn, Changed
  <2>2. Valued(heap, {root}, heap')
    BY <1>1, <2>1, SetnTree
  <2> QED
    BY <1>3, <2>1, <2>2 DEF Valued
<1>5. ASSUME NEW opt, NEW idx, Unsetn(opt, idx) PROVE Shape(phase', heap', root', stack')
  <2> DEFINE n == UnsetnCmn(heap[opt], "", idx, {}).node
  <2>1. /\ phase' = phase /\ root' = root
        /\ heap' = [heap EXCEPT ![opt] = n]
    BY <1>5 DEF Unsetn, Changed
  <2>2. opt \in Ids => Beside(n, heap[opt])
    BY UnsetnIs DEF Heap
  <2> HIDE DEF n
  <2>3. \A i \in Ids : heap'[i] = IF i = opt THEN n ELSE heap[i]
    BY <2>1 DEF Heap
  <2>4. \A i \in Ids : heap'[i].kind = heap[i].kind /\ heap'[i].opts = heap[i].opts
    BY <2>2, <2>3 DEF Beside
  <2>5. Tree(heap', {root})
    BY <1>1, <2>4, TreeSame
  <2> QED
    BY <1>3, <2>1, <2>5
<1>6. ASSUME NEW type, ValueCalls(type) PROVE Shape(phase', heap', root', stack')
  <2>1. PICK opt, val, idx, inst : Setn(opt, val, idx, inst) \/ Unsetn(opt, idx)
    BY <1>6, Zenon DEF ValueCalls
  <2> QED
    BY <1>4, <1>5, <2>1
<1>7. ASSUME NEW sec \in Ids, IsSec(heap[sec]), NEW node, IsNode(node), IsLive(node), node.opts = <<>>,
             NEW idx \in Int, NEW inst, Offer(sec, node, idx, inst)
      PROVE  Shape(phase', heap', root', stack')
  <2>1. phase' = phase /\ root' = root
    BY <1>7, Zenon DEF Offer, Changed
  <2>2. heap[root].kind # "unused"
    <3>1. IsLive(heap[root])
      BY <1>1, <1>7, RootLives DEF IsLive
    <3> QED
      BY <3>1 DEF IsLive, IsOpt, IsSec
  <2>3. Tree(heap', {root})
    BY <1>1, <1>7, <2>2, OfferTree
  <2> QED
    BY <1>3, <2>1, <2>3
<1>8. ASSUME NEW sec \in Ids, NEW kind, SecUnsetn(sec, kind)
      PROVE  Shape(phase', heap', root', stack')
  <2>1. PICK name, idx, inst :
          /\ idx \in Indices /\ Taken(sec, name, kind, idx, inst).pos >= 0
          /\ heap' = Taken(sec, name, kind, idx, inst).heap
          /\ Taken(sec, name, kind, idx, inst).whole /\ phase' = phase /\ root' = root
    BY <1>8, Zenon DEF SecUnsetn, Changed, Taken
  <2> DEFINE unset == Taken(sec, name, kind, idx, inst)
  <2>2. Tree(unset.heap, {root})
    <3>1. unset.pos >= 0 /\ unset.whole
      BY <2>1
    <3>2. ~(unset.pos < 0)
      <4>1. unset.pos \in -1..Len(heap[sec].opts)
        <5> DEFINE all == (inst \cup {"COMPARE"}) \ (Insert \cup {"SET"})
                   p == SecGetnCmn(heap, sec, Sought(name, inst), kind, idx, all)
        <5>1. unset.pos \in {-1, p}
          BY Zenon DEF SecUnsetnCmn, Taken
        <5>2. idx \in Int
          BY <2>1 DEF Indices
        <5>3. p \in -1..Len(heap[sec].opts)
          <6> HIDE DEF all
          <6> QED
            BY <5>2, SecGetnIn
        <5>4. -1 \in -1..Len(heap[sec].opts)
          BY DEF Heap, IsNode, Array
        <5> HIDE DEF p, unset
        <5> QED
          BY <5>1, <5>3, <5>4
      <4> HIDE DEF unset
      <4> QED
        BY <3>1, <4>1
    <3> QED
      BY <1>1, <3>1, <3>2, TreeTake DEF Taken
  <2> HIDE DEF unset
  <2>3. Tree(heap', {root})
    BY <2>1, <2>2 DEF unset
  <2> QED
    BY <1>3, <2>1, <2>3
<1>9. ASSUME SecCalls PROVE Shape(phase', heap', root', stack')
  <2>1. PICK sec \in Ids : /\ IsSec(heap[sec])
                          /\ \/ SecValueCalls(sec) \/ SecSetnOpt(sec) \/ SecSetnSec(sec)
                             \/ SecUnsetnOpt(sec) \/ SecUnsetnSec(sec)
    BY <1>9, Zenon DEF SecCalls
  <2>2. \A idx \in Indices : idx \in Int
    BY DEF Indices
  <2>3. CASE SecValueCalls(sec)
    <3>1. PICK opt, val, idx, inst : Setn(opt, val, idx, inst)
      BY <2>3, Zenon DEF SecValueCalls
    <3> QED
      BY <1>4, <3>1
  <2>4. CASE SecSetnOpt(sec)
    <3>1. PICK name, type, val, idx, inst :
            idx \in Indices /\ Offer(sec, SetnCmn(OptNode(name, {}, type), val, 0, {"SET"}).node, idx, inst)
      BY <2>4, Zenon DEF SecSetnOpt
    <3> DEFINE node == SetnCmn(OptNode(name, {}, type), val, 0, {"SET"}).node
    <3>2. IsNode(node) /\ node.kind = "opt" /\ node.opts = <<>>
      BY DefaultNodeIs
    <3> HIDE DEF node
    <3>3. IsLive(node)
      BY <3>2 DEF IsLive, IsOpt
    <3>4. idx \in Int /\ IsSec(heap[sec])
      BY <2>1, <2>2, <3>1, Zenon
    <3>5. Offer(sec, node, idx, inst)
      BY <3>1, Zenon DEF node
    <3> QED
      BY <1>7, <3>2, <3>3, <3>4, <3>5
  <2>5. CASE SecSetnSec(sec)
    <3>1. PICK name, idx, inst : idx \in Indices /\ Offer(sec, SecNode(name, {}), idx, inst)
      BY <2>5, Zenon DEF SecSetnSec
    <3> DEFINE node == SecNode(name, {})
    <3>2. IsNode(node) /\ node.kind = "sec" /\ node.opts = <<>>
      BY DefaultNodeIs
    <3> HIDE DEF node
    <3>3. IsLive(node)
      BY <3>2 DEF IsLive, IsSec
    <3>4. idx \in Int /\ IsSec(heap[sec])
      BY <2>1, <2>2, <3>1, Zenon
    <3>5. Offer(sec, node, idx, inst)
      BY <3>1, Zenon DEF node
    <3> QED
      BY <1>7, <3>2, <3>3, <3>4, <3>5
  <2>6. CASE SecUnsetnOpt(sec) \/ SecUnsetnSec(sec)
    BY <1>8, <2>6 DEF SecUnsetnOpt, SecUnsetnSec
  <2> QED
    BY <2>1, <2>3, <2>4, <2>5, <2>6
<1> QED
  BY <1>2, <1>6, <1>9, Zenon DEF Calls, BoolCalls, IntCalls, FloatCalls, StrCalls

(* The second invariant: as long as nothing has gone wrong, Shape.         *)
LEMMA SoundAlways == ConfigSpec => []Sound
<1>1. ConfigInit => Sound
  BY NoCalls DEF ConfigInit, Sound, Shape
<1>2. Heap(heap) /\ Heap(heap)' /\ Sound /\ [ConfigNext]_vars => Sound'
  <2>1. SUFFICES ASSUME Heap(heap), Heap(heap'), Sound, [ConfigNext]_vars, why' = "none"
                 PROVE  Shape(phase', heap', root', stack')
    BY DEF Sound
  <2>2. CASE UNCHANGED vars
    BY <2>1, <2>2 DEF vars, tree, Sound
  <2>3. CASE ConfigNext
    <3>1. why = "none" /\ (Load \/ Calls)
      BY <2>3 DEF ConfigNext
    <3>2. Shape(phase, heap, root, stack)
      BY <2>1, <3>1 DEF Sound
    <3> QED
      BY <2>1, <3>1, <3>2, ReadShape, ParseStepShape, DefaultsShape, ValidateShape, CallsShape DEF Load
  <2> QED
    BY <2>1, <2>2, <2>3
<1> QED
  BY <1>1, <1>2, HeapAlways, PTL DEF ConfigSpec

(* As long as nothing has gone wrong, the tree is a tree: an entry is      *)
(* alive and in one section once, what was made is an entry, the root or   *)
(* in the hands of vt_config_defaults, and a file that was refused or a    *)
(* tree that was closed leaves nothing behind.                             *)
THEOREM WholeSafety == ConfigSpec => []Whole
<1>1. Heap(heap) /\ Sound => Whole
  <2>1. SUFFICES ASSUME Heap(heap), Shape(phase, heap, root, stack)
                 PROVE  /\ \A s \in Ids : \A k \in DOMAIN Opts(s) : Opts(s)[k] \in Ids /\ Live(Opts(s)[k])
                        /\ \A i \in Ids : Live(i) =>
                             Cardinality(Holders(i)) = IF i = root \/ InHand(i) THEN 0 ELSE 1
                        /\ phase \in {"failed", "closed"} => \A i \in Ids : ~Live(i)
    BY DEF Sound, Whole
  <2>2. \A i \in Ids : Live(i) <=> IsLive(heap[i])
    BY DEF Live, IsLive
  <2>3. CASE Gone(heap)
    BY <2>2, <2>3 DEF Gone, Opts
  <2>4. CASE phase = "read"
    <3>1. \A i \in Ids : heap[i] = Unused
      BY <2>1, <2>4 DEF Shape
    <3>2. DOMAIN Unused.opts = {} /\ ~IsLive(Unused)
      BY UnusedIs, EmptyArray DEF IsLive, IsOpt, IsSec
    <3> QED
      BY <2>2, <2>4, <3>1, <3>2 DEF Opts
  <2>5. CASE phase \notin {"failed", "closed"} /\ Tree(heap, {root} \cup Hands(stack))
    <3>1. \A s \in Ids : \A k \in DOMAIN Opts(s) : Opts(s)[k] \in Ids /\ Live(Opts(s)[k])
      BY <2>2, <2>5 DEF Tree, Rising, Alive, Opts
    <3>2. ASSUME NEW i \in Ids, Live(i)
          PROVE  Cardinality(Holders(i)) = IF i = root \/ InHand(i) THEN 0 ELSE 1
      <4>1. i \in {root} \cup Hands(stack) <=> i = root \/ InHand(i)
        BY DEF Hands, InHand
      <4>2. IsLive(heap[i])
        BY <2>2, <3>2
      <4>3. Cardinality(Holders(i)) = IF i \in {root} \cup Hands(stack) THEN 0 ELSE 1
        BY <2>1, <2>5, <4>2, HoldersCount
      <4> QED
        BY <4>1, <4>3
    <3> QED
      BY <2>5, <3>1, <3>2
  <2>6. \/ Gone(heap) \/ phase = "read"
        \/ phase \notin {"failed", "closed"} /\ Tree(heap, {root} \cup Hands(stack))
    <3>1. stack = <<>> => Hands(stack) = {}
      BY NoCalls
    <3>2. Parsing(heap, root, stack) => Hands(stack) = {}
      BY HandsNone DEF Parsing, Parsed
    <3>3. {root} \cup {} = {root}
      OBVIOUS
    <3> QED
      BY <2>1, <3>1, <3>2, <3>3 DEF Shape
  <2> QED
    BY <2>3, <2>4, <2>5, <2>6
<1> QED
  BY <1>1, HeapAlways, SoundAlways, PTL

(***************************************************************************)
(* What the file made of the tree.  lev gives each section the level of    *)
(* definitions its entries belong to.                                      *)
(***************************************************************************)

\* An entry fits one of its level's definitions
Typed(n, l, m) ==
  \E d \in DOMAIN Schema[l] :
    LET def == Schema[l][d] IN
    /\ n.kind = def.type /\ Matches(def, def.name, n.name)
    /\ n.kind = "opt" => n.vtype = def.vtype
    /\ n.kind = "sec" => m = def.opts

\* ... an option has as many values as its definition allows
Allowed(n, def, dr) ==
  /\ n.vals = <<>> => dr \/ "NODEFAULT" \in def.flags
  /\ Len(n.vals) > 1 => "LIST" \in def.flags
HasValues(n, l, dr) ==
  \A d \in DOMAIN Schema[l] :
    n.kind = "opt" /\ Matches(Schema[l][d], Schema[l][d].name, n.name) => Allowed(n, Schema[l][d], dr)

\* ... and is the k-th name of the file, or a default
Origin(n, names, k) ==
  IF k <= Len(names) THEN "NODEFAULT" \in n.flags /\ n.name = names[k]
                     ELSE "NODEFAULT" \notin n.flags

\* The entries a definition names, of which some definitions have one at most
Hits(h, s, def) == {k \in DOMAIN h[s].opts : Matches(def, def.name, h[h[s].opts[k]].name)}
Alone(def) == def.type = "opt" \/ "MULTI" \notin def.flags
Single(h, l, s) ==
  \A d \in DOMAIN Schema[l] : Alone(Schema[l][d]) => \A j, k \in Hits(h, s, Schema[l][d]) : j = k

\* The values of the options in `open` are still being read.
Fitting(h, sd, lev, dr, open, s) ==
  \A k \in DOMAIN h[s].opts :
    LET i == h[s].opts[k] IN
    /\ Typed(h[i], lev[s], lev[i])
    /\ i \notin open => HasValues(h[i], lev[s], dr)
    /\ Origin(h[i], sd[s], k)
Section(h, sd, lev, dr, open, s) ==
  Len(sd[s]) <= Len(h[s].opts) /\ Fitting(h, sd, lev, dr, open, s) /\ Single(h, lev[s], s)
Legal(h, sd, lev, dr, open) ==
  /\ lev \in [Ids -> DOMAIN Schema]
  /\ \A s \in Ids : IsSec(h[s]) => Section(h, sd, lev, dr, open, s)
SaidIs(h, sd) ==
  sd = [i \in Ids |-> sd[i]] /\ \A i \in Ids : Array(sd[i]) /\ (h[i].kind = "unused" => sd[i] = <<>>)

(***************************************************************************)
(* While the file is parsed, a section has what the file said, and no more.*)
(***************************************************************************)
Open(s) == {x \in {s[Len(s)].node} : s[Len(s)].fn = "opt"}
OptCall(h, lev, dr, f) ==
  LET def == Schema[f.level][f.def]
      n   == h[f.node]
  IN  /\ f.def \in DOMAIN Schema[f.level] /\ n.kind = "opt"
      /\ Matches(def, def.name, n.name)
      /\ "LIST" \notin def.flags => n.vals = <<>>
      /\ f.expect = "COMMA" => n.vals # <<>> \/ dr
      /\ \A s \in Ids : Holds(h, s, f.node) => lev[s] = f.level
Call(h, lev, dr, f) ==
  /\ f.fn = "parse" => lev[f.node] = f.level
  /\ f.fn = "sec" => lev[f.node] = Schema[f.level][f.def].opts
  /\ f.fn = "opt" => OptCall(h, lev, dr, f)
Working(h, lev, dr, s) == \A k \in DOMAIN s : Call(h, lev, dr, s[k])
Callers(s) == \A k \in DOMAIN s : k # Len(s) => s[k].fn = "parse"
NoMore(h, sd) == \A i \in Ids : IsSec(h[i]) => Len(h[i].opts) = Len(sd[i])
Reading(h, sd, lev, dr, r, s) ==
  /\ lev[r] = 1 /\ Legal(h, sd, lev, dr, Open(s)) /\ NoMore(h, sd)
  /\ Callers(s) /\ Working(h, lev, dr, s)

(***************************************************************************)
(* While the defaults are put in, F are the sections that have theirs.     *)
(***************************************************************************)
Got(h, F, s, def) ==
  Hits(h, s, def) # {} /\ (def.type = "sec" => h[s].opts[First(Hits(h, s, def))] \in F)
Good(h, lev, F) ==
  \A s \in F : s \in Ids /\ IsSec(h[s]) /\ \A d \in DOMAIN Schema[lev[s]] : Got(h, F, s, Schema[lev[s]][d])
Seen(l, n, name) == \E d \in 1..(n - 1) : Matches(Schema[l][d], Schema[l][d].name, name)
Upward(h, F, s) ==
  \A e \in F : \A p \in Ids : Holds(h, p, e) =>
    p \in F \/ \E k \in DOMAIN s : s[k].node = p /\ Seen(s[k].level, s[k].def, h[e].name)
Touched(h, sd, F, s) ==
  \A i \in Ids : IsSec(h[i]) /\ Len(h[i].opts) # Len(sd[i]) => i \in F \/ \E k \in DOMAIN s : s[k].node = i

\* One call: what it found at its start, and how far it is.
Started(sd, lev, F, f) ==
  /\ lev[f.node] = f.level /\ f.node \notin F
  /\ f.def \in 1..(Len(Schema[f.level]) + 1)
  /\ f.nopts = Len(sd[f.node]) /\ (f.fresh => f.nopts = 0)
Sofar(h, F, f) ==
  /\ f.grown => Len(h[f.node].opts) > f.nopts
  /\ \A d \in 1..(f.def - 1) : Got(h, F, f.node, Schema[f.level][d])
  /\ \A j \in DOMAIN h[f.node].opts : j > f.nopts => Seen(f.level, f.def, h[h[f.node].opts[j]].name)
At(h, sd, lev, F, f) == Started(sd, lev, F, f) /\ Sofar(h, F, f)

\* ... and the call it made: for a section of its own, or for its first entry of that name.
Under(h, lev, f, g) ==
  LET def  == Schema[f.level][f.def]
      hits == Hits(h, f.node, def)
  IN  /\ f.def <= Len(Schema[f.level]) /\ def.type = "sec" /\ lev[g.node] = def.opts
      /\ g.fresh => /\ hits = {} /\ h[g.node].name = def.name /\ h[g.node].kind = "sec"
                    /\ "NODEFAULT" \notin h[g.node].flags
      /\ ~g.fresh => hits # {} /\ First(hits) <= f.nopts /\ h[f.node].opts[First(hits)] = g.node
Running(h, sd, lev, F, s) ==
  /\ \A k \in DOMAIN s : At(h, sd, lev, F, s[k])
  /\ \A k \in DOMAIN s : k # 1 => Under(h, lev, s[k - 1], s[k])
Filling(h, sd, lev, dr, F, r, s) ==
  /\ lev[r] = 1 /\ Legal(h, sd, lev, dr, {})
  /\ Good(h, lev, F) /\ Upward(h, F, s) /\ Touched(h, sd, F, s)
  /\ Running(h, sd, lev, F, s)

\* When they are all in, the root has its own.
Ended(h, sd, lev, dr, F, r) == lev[r] = 1 /\ Legal(h, sd, lev, dr, {}) /\ Good(h, lev, F) /\ r \in F

NoTwins ==
  \A d \in DOMAIN Schema[1] : {"TITLE", "NODUPES"} \subseteq Schema[1][d].flags => ~SameTitle(Schema[1][d])

(***************************************************************************)
(* The invariant                                                           *)
(***************************************************************************)
Levels == [Ids -> DOMAIN Schema]
Loading ==
  /\ phase \in {"read", "parse", "defaults"} => SaidIs(heap, said)
  /\ phase = "parse" => \E lev \in Levels : Reading(heap, said, lev, dropped, root, stack)
  /\ phase = "defaults" => \E lev \in Levels, F \in SUBSET Ids :
                             Filling(heap, said, lev, dropped, F, root, stack)
  /\ phase \in {"validate", "done"} => \E lev \in Levels, F \in SUBSET Ids :
                                         Ended(heap, said, lev, dropped, F, root)
  /\ phase = "done" => NoTwins
Known ==
  /\ ncalls \in Nat /\ pending \in Tokens \cup {NoToken}
  /\ phase \in {"validate", "done"} /\ ncalls = 0 => why = "none"
  /\ why = "none" /\ ncalls = 0 => Loading

(***************************************************************************)
(* Definitions                                                             *)
(***************************************************************************)

(* A definition takes its own name, and no name that is another to         *)
(* strcasecmp.                                                             *)
LEMMA MatchesIs ==
  ASSUME NEW def, NEW a, NEW b
  PROVE  /\ Matches(def, a, a)
         /\ Matches(def, a, b) => SameName(a, b)
  BY DEF Matches, SameName

(* A level has at most one definition of a name.                           *)
LEMMA OneDef ==
  ASSUME NEW l \in DOMAIN Schema, NEW d \in DOMAIN Schema[l], NEW e \in DOMAIN Schema[l], NEW name,
         Matches(Schema[l][d], Schema[l][d].name, name), Matches(Schema[l][e], Schema[l][e].name, name)
  PROVE  d = e
<1>1. SameName(Schema[l][d].name, name) /\ SameName(Schema[l][e].name, name)
  BY MatchesIs
<1>2. SameName(Schema[l][d].name, Schema[l][e].name)
  BY <1>1 DEF SameName
<1> QED
  BY <1>2, NamesAssumption

(* What a level and its definitions are.                                   *)
LEMMA LevelsAre ==
  /\ 1 \in DOMAIN Schema
  /\ \A l \in DOMAIN Schema :
       /\ Len(Schema[l]) \in Nat /\ DOMAIN Schema[l] = 1..Len(Schema[l])
       /\ \A d \in DOMAIN Schema[l] :
            /\ Schema[l][d].type \in {"opt", "sec"}
            /\ Schema[l][d].type = "sec" => Schema[l][d].opts \in DOMAIN Schema
<1>1. ASSUME NEW l \in DOMAIN Schema, NEW d \in DOMAIN Schema[l], Schema[l][d].type = "sec"
      PROVE  Schema[l][d].opts \in DOMAIN Schema
  <2>1. Schema[l][d].opts \in (l + 1)..Len(Schema) /\ DOMAIN Schema = 1..Len(Schema) /\ Len(Schema) \in Nat
    BY <1>1, SchemaAssumption
  <2>2. \A o : o \in (l + 1)..Len(Schema) => o \in 1..Len(Schema)
    BY <2>1
  <2> QED
    BY <2>1, <2>2
<1> QED
  BY <1>1, SchemaAssumption

(* The first of some places is the least one, and there is no other.       *)
LEMMA FirstLeast ==
  ASSUME NEW S, S # {}, S \subseteq Nat
  PROVE  /\ First(S) \in S /\ \A m \in S : First(S) <= m
         /\ \A n \in S : (\A m \in S : n <= m) => First(S) = n
<1>1. PICK n \in S : \A m \in S : n <= m
  BY LeastNat
<1>2. First(S) \in S /\ \A m \in S : First(S) <= m
  BY <1>1 DEF First
<1>3. ASSUME NEW k \in S, \A m \in S : k <= m PROVE First(S) = k
  <2>1. k <= First(S) /\ First(S) <= k /\ k \in Nat /\ First(S) \in Nat
    BY <1>2, <1>3
  <2> QED
    BY <2>1
<1> QED
  BY <1>2, <1>3

(* Whether an option has as many values as it may have depends on its name *)
(* and its values alone.                                                   *)
LEMMA ValuesSame ==
  ASSUME NEW m, NEW n, m.kind = n.kind, m.name = n.name, m.vals = n.vals, NEW l, NEW dr, HasValues(m, l, dr)
  PROVE  HasValues(n, l, dr)
  BY DEF HasValues, Allowed

(* What was made for a definition fits it.                                 *)
LEMMA TypedIs ==
  ASSUME NEW l \in DOMAIN Schema, NEW d \in DOMAIN Schema[l], NEW n, NEW m,
         n.kind = Schema[l][d].type, Matches(Schema[l][d], Schema[l][d].name, n.name),
         n.kind = "opt" => n.vtype = Schema[l][d].vtype, n.kind = "sec" => m = Schema[l][d].opts
  PROVE  Typed(n, l, m)
  BY DEF Typed

(* An entry that a definition names fits that one.                         *)
LEMMA TypedBy ==
  ASSUME NEW l \in DOMAIN Schema, NEW d \in DOMAIN Schema[l], NEW n, NEW m, Typed(n, l, m),
         Matches(Schema[l][d], Schema[l][d].name, n.name)
  PROVE  /\ n.kind = Schema[l][d].type
         /\ n.kind = "opt" => n.vtype = Schema[l][d].vtype
         /\ n.kind = "sec" => m = Schema[l][d].opts
<1>1. PICK e \in DOMAIN Schema[l] :
         /\ n.kind = Schema[l][e].type /\ Matches(Schema[l][e], Schema[l][e].name, n.name)
         /\ n.kind = "opt" => n.vtype = Schema[l][e].vtype
         /\ n.kind = "sec" => m = Schema[l][e].opts
  BY DEF Typed
<1>2. e = d
  BY <1>1, OneDef
<1> QED
  BY <1>1, <1>2

(***************************************************************************)
(* A heap in which one section, at most, has other entries: nodes keep     *)
(* their kind, name, flags and type, and sections their level.             *)
(***************************************************************************)
Same(m, n) == m.kind = n.kind /\ m.name = n.name /\ m.flags = n.flags /\ m.vtype = n.vtype
Like(h, g, lev, lv, sec) ==
  \A i \in Ids : h[i].kind # "unused" =>
    Same(g[i], h[i]) /\ lv[i] = lev[i] /\ (i # sec => g[i].opts = h[i].opts)

(* What a tree has as an entry is used.                                    *)
LEMMA EntriesUsed ==
  ASSUME NEW h, NEW out, Tree(h, out), NEW s \in Ids, NEW k \in DOMAIN h[s].opts
  PROVE  h[s].opts[k] \in Ids /\ h[h[s].opts[k]].kind # "unused" /\ h[s].kind # "unused"
<1>1. h[s].opts[k] \in Ids /\ IsLive(h[h[s].opts[k]]) /\ IsSec(h[s])
  BY DEF Tree, Rising, Alive, OnlySecs
<1> QED
  BY <1>1 DEF IsLive, IsOpt, IsSec

(* The other sections keep their hits.                                     *)
LEMMA HitsLike ==
  ASSUME NEW h, NEW out, Tree(h, out), NEW g, NEW lev, NEW lv, NEW sec, Like(h, g, lev, lv, sec),
         NEW s \in Ids, h[s].kind # "unused", s # sec, NEW def
  PROVE  Hits(g, s, def) = Hits(h, s, def)
<1>1. g[s].opts = h[s].opts
  BY DEF Like
<1>2. \A k \in DOMAIN h[s].opts : g[h[s].opts[k]].name = h[h[s].opts[k]].name
  BY EntriesUsed DEF Like, Same
<1> QED
  BY <1>1, <1>2 DEF Hits

\* All entries that are not open have their values.
AllSet(h, g, lev, dr, open) ==
  \A s \in Ids : IsSec(h[s]) =>
    \A k \in DOMAIN h[s].opts : h[s].opts[k] \notin open => HasValues(g[h[s].opts[k]], lev[s], dr)

(* The entries that were there still fit.                                  *)
LEMMA FittingLike ==
  ASSUME NEW h, NEW out, Tree(h, out), NEW g, NEW lev, NEW lv, NEW sec, Like(h, g, lev, lv, sec),
         NEW dr, NEW dr2, NEW open, NEW open2, AllSet(h, g, lev, dr2, open2),
         NEW s \in Ids, IsSec(h[s]), NEW sd, NEW sd2, Section(h, sd, lev, dr, open, s),
         NEW k \in DOMAIN h[s].opts, sd2[s] = sd[s] \/ Origin(h[h[s].opts[k]], sd2[s], k)
  PROVE  LET i == h[s].opts[k] IN
         /\ Typed(g[i], lev[s], lv[i])
         /\ i \notin open2 => HasValues(g[i], lev[s], dr2)
         /\ Origin(g[i], sd2[s], k)
<1> DEFINE i == h[s].opts[k]
<1>1. i \in Ids /\ h[i].kind # "unused"
  BY EntriesUsed
<1>2. Same(g[i], h[i]) /\ lv[i] = lev[i]
  BY <1>1 DEF Like
<1>3. Typed(h[i], lev[s], lev[i]) /\ Origin(h[i], sd2[s], k)
  BY DEF Section, Fitting
<1>4. i \notin open2 => HasValues(g[i], lev[s], dr2)
  BY DEF AllSet
<1> HIDE DEF i
<1>5. Typed(g[i], lev[s], lv[i])
  BY <1>2, <1>3 DEF Typed, Same
<1>6. Origin(g[i], sd2[s], k)
  BY <1>2, <1>3 DEF Origin, Same
<1> QED
  BY <1>4, <1>5, <1>6 DEF i

(* A section that keeps its entries keeps what the file made of it.        *)
LEMMA SectionLike ==
  ASSUME NEW h, NEW out, Tree(h, out), NEW g, NEW lev, NEW lv, NEW sec, Like(h, g, lev, lv, sec),
         NEW dr, NEW dr2, NEW open, NEW open2, AllSet(h, g, lev, dr2, open2),
         NEW s \in Ids, IsSec(h[s]), s # sec, NEW sd, NEW sd2, sd2[s] = sd[s], Section(h, sd, lev, dr, open, s)
  PROVE  Section(g, sd2, lv, dr2, open2, s)
<1>1. h[s].kind # "unused"
  BY DEF IsSec
<1>2. g[s].opts = h[s].opts /\ lv[s] = lev[s]
  BY <1>1 DEF Like
<1>3. Len(sd2[s]) <= Len(g[s].opts)
  BY <1>2 DEF Section
<1>4. Fitting(g, sd2, lv, dr2, open2, s)
  BY <1>2, FittingLike DEF Fitting
<1>5. Single(g, lv[s], s)
  <2>1. \A def : Hits(g, s, def) = Hits(h, s, def)
    BY <1>1, HitsLike
  <2> QED
    BY <1>2, <2>1 DEF Section, Single
<1> QED
  BY <1>3, <1>4, <1>5 DEF Section

(* The places of an array that got longer.                                 *)
LEMMA LongerIs ==
  ASSUME NEW opts, Array(opts), NEW x, NEW id, Longer(x, opts, id)
  PROVE  LET n == Len(opts) + 1 IN
         /\ Len(opts) \in Nat /\ DOMAIN opts = 1..Len(opts) /\ n \in Nat /\ n \notin DOMAIN opts
         /\ DOMAIN x = DOMAIN opts \cup {n} /\ x[n] = id /\ Len(x) = n
         /\ \A k \in DOMAIN opts : x[k] = opts[k]
<1>1. Len(opts) \in Nat /\ DOMAIN opts = 1..Len(opts)
  BY DEF Array
<1>2. Len(x) = Len(opts) + 1 /\ DOMAIN x = 1..Len(x) /\ x[Len(x)] = id
  BY DEF Longer, Array
<1>3. \A n \in Nat : 1..(n + 1) = 1..n \cup {n + 1} /\ n + 1 \notin 1..n
  OBVIOUS
<1> QED
  BY <1>1, <1>2, <1>3 DEF Longer

(* Of a section that got one more entry a definition hits what it hit, and *)
(* the new one if it has its name.                                         *)
LEMMA HitsLonger ==
  ASSUME NEW h, Heap(h), NEW out, Tree(h, out), NEW g, NEW lev, NEW lv, NEW sec \in Ids,
         Like(h, g, lev, lv, sec), NEW id, Longer(g[sec].opts, h[sec].opts, id), NEW def
  PROVE  LET n == Len(h[sec].opts) + 1 IN
         /\ ~Matches(def, def.name, g[id].name) => Hits(g, sec, def) = Hits(h, sec, def)
         /\ Matches(def, def.name, g[id].name) => Hits(g, sec, def) = Hits(h, sec, def) \cup {n}
<1> DEFINE n == Len(h[sec].opts) + 1
           x == g[sec].opts
<1>1. Array(h[sec].opts)
  BY DEF Heap, IsNode
<1>2. n \notin DOMAIN h[sec].opts /\ DOMAIN x = DOMAIN h[sec].opts \cup {n}
  BY <1>1, LongerIs
<1>3. x[n] = id /\ \A k \in DOMAIN h[sec].opts : x[k] = h[sec].opts[k]
  BY <1>1, LongerIs
<1>4. \A k \in DOMAIN h[sec].opts : g[x[k]].name = h[h[sec].opts[k]].name
  BY <1>3, EntriesUsed DEF Like, Same
<1> HIDE DEF n
<1>5. \A k \in DOMAIN x : k \in DOMAIN h[sec].opts \/ k = n
  BY <1>2
<1>6. Hits(h, sec, def) \subseteq Hits(g, sec, def)
  BY <1>2, <1>4 DEF Hits
<1>7. Hits(g, sec, def) \subseteq Hits(h, sec, def) \cup {n}
  BY <1>4, <1>5 DEF Hits
<1>8. n \in Hits(g, sec, def) <=> Matches(def, def.name, g[id].name)
  BY <1>2, <1>3 DEF Hits
<1>9. n \notin Hits(h, sec, def)
  BY <1>2 DEF Hits
<1> QED
  BY <1>6, <1>7, <1>8, <1>9 DEF n

(* A section that gets one more entry that fits keeps fitting.             *)
LEMMA SectionLonger ==
  ASSUME NEW h, Heap(h), NEW out, Tree(h, out), NEW g, NEW lev, NEW lv, NEW sec \in Ids, IsSec(h[sec]),
         Like(h, g, lev, lv, sec), lev[sec] \in DOMAIN Schema,
         NEW dr, NEW dr2, NEW open, NEW open2, AllSet(h, g, lev, dr2, open2),
         NEW id, Longer(g[sec].opts, h[sec].opts, id), NEW sd, NEW sd2, Section(h, sd, lev, dr, open, sec),
         \A k \in DOMAIN h[sec].opts : sd2[sec] = sd[sec] \/ Origin(h[h[sec].opts[k]], sd2[sec], k),
         Len(sd2[sec]) <= Len(g[sec].opts),
         Typed(g[id], lev[sec], lv[id]), id \notin open2 => HasValues(g[id], lev[sec], dr2),
         Origin(g[id], sd2[sec], Len(h[sec].opts) + 1),
         NEW d \in DOMAIN Schema[lev[sec]],
         Matches(Schema[lev[sec]][d], Schema[lev[sec]][d].name, g[id].name),
         Alone(Schema[lev[sec]][d]) => Hits(h, sec, Schema[lev[sec]][d]) = {}
  PROVE  Section(g, sd2, lv, dr2, open2, sec)
<1> DEFINE n == Len(h[sec].opts) + 1
           x == g[sec].opts
           l == lev[sec]
<1>1. Array(h[sec].opts)
  BY DEF Heap, IsNode
<1>2. /\ DOMAIN x = DOMAIN h[sec].opts \cup {n} /\ x[n] = id
      /\ \A k \in DOMAIN h[sec].opts : x[k] = h[sec].opts[k]
  BY <1>1, LongerIs
<1>3. lv[sec] = l
  BY DEF Like, IsSec
<1>4. Fitting(g, sd2, lv, dr2, open2, sec)
  <2>1. SUFFICES ASSUME NEW k \in DOMAIN x
                 PROVE  LET i == x[k] IN
                        /\ Typed(g[i], l, lv[i])
                        /\ i \notin open2 => HasValues(g[i], l, dr2)
                        /\ Origin(g[i], sd2[sec], k)
    BY <1>3 DEF Fitting
  <2>2. CASE k = n
    BY <1>2, <2>2
  <2>3. CASE k \in DOMAIN h[sec].opts
    <3>1. LET i == h[sec].opts[k] IN
          /\ Typed(g[i], l, lv[i])
          /\ i \notin open2 => HasValues(g[i], l, dr2)
          /\ Origin(g[i], sd2[sec], k)
      BY <2>3, FittingLike
    <3> QED
      BY <1>2, <2>3, <3>1
  <2> HIDE DEF x, n, l
  <2> QED
    BY <1>2, <2>1, <2>2, <2>3
<1>5. Single(g, lv[sec], sec)
  <2>1. SUFFICES ASSUME NEW e \in DOMAIN Schema[l], Alone(Schema[l][e]),
                        NEW j \in Hits(g, sec, Schema[l][e]), NEW k \in Hits(g, sec, Schema[l][e])
                 PROVE  j = k
    BY <1>3 DEF Single
  <2>2. CASE e = d
    <3>1. Hits(g, sec, Schema[l][e]) = Hits(h, sec, Schema[l][e]) \cup {n}
      BY <2>2, HitsLonger
    <3> QED
      BY <2>1, <2>2, <3>1
  <2>3. CASE e # d
    <3>1. ~Matches(Schema[l][e], Schema[l][e].name, g[id].name)
      BY <2>3, OneDef
    <3>2. Hits(g, sec, Schema[l][e]) = Hits(h, sec, Schema[l][e])
      BY <3>1, HitsLonger
    <3> QED
      BY <2>1, <3>2 DEF Section, Single
  <2> QED
    BY <2>2, <2>3
<1> QED
  BY <1>4, <1>5 DEF Section

\* A section without entries, of which the file said nothing
Bare(h, sd, s) == h[s].opts = <<>> /\ sd[s] = <<>>

(* All sections of a heap like the other, and those that are new.          *)
LEMMA LegalLike ==
  ASSUME NEW h, NEW out, Tree(h, out), NEW g, NEW lev, NEW lv \in Levels, NEW sec, Like(h, g, lev, lv, sec),
         NEW dr, NEW dr2, NEW open, NEW open2, AllSet(h, g, lev, dr2, open2),
         NEW sd, NEW sd2, \A s \in Ids : s # sec => sd2[s] = sd[s], Legal(h, sd, lev, dr, open),
         sec \in Ids /\ IsSec(g[sec]) => Section(g, sd2, lv, dr2, open2, sec),
         \A i \in Ids : h[i].kind = "unused" /\ IsSec(g[i]) => Bare(g, sd2, i)
  PROVE  Legal(g, sd2, lv, dr2, open2)
<1>1. SUFFICES ASSUME NEW s \in Ids, IsSec(g[s]), s # sec PROVE Section(g, sd2, lv, dr2, open2, s)
  BY DEF Legal, Levels
<1>2. CASE h[s].kind = "unused"
  <2>1. g[s].opts = <<>> /\ sd2[s] = <<>>
    BY <1>1, <1>2 DEF Bare
  <2>2. DOMAIN g[s].opts = {} /\ Len(<<>>) = 0
    BY <2>1, EmptyArray
  <2>3. Fitting(g, sd2, lv, dr2, open2, s) /\ Single(g, lv[s], s)
    BY <2>2 DEF Fitting, Single, Hits
  <2> QED
    BY <2>1, <2>2, <2>3 DEF Section
<1>3. CASE h[s].kind # "unused"
  <2>1. IsSec(h[s]) /\ sd2[s] = sd[s]
    BY <1>1, <1>3 DEF Like, Same, IsSec
  <2>2. Section(h, sd, lev, dr, open, s)
    BY <2>1 DEF Legal
  <2> QED
    BY <1>1, <2>1, <2>2, SectionLike
<1> QED
  BY <1>2, <1>3

(***************************************************************************)
(* What the calls of vt_config_defaults have done stays done               *)
(***************************************************************************)

(* A section that keeps its entries has got what it had.                   *)
LEMMA GotLike ==
  ASSUME NEW h, NEW out, Tree(h, out), NEW g, NEW lev, NEW lv, NEW sec, Like(h, g, lev, lv, sec),
         NEW s \in Ids, h[s].kind # "unused", s # sec, NEW def, NEW F, NEW F2, F \subseteq F2, Got(h, F, s, def)
  PROVE  Got(g, F2, s, def)
<1>1. Hits(g, s, def) = Hits(h, s, def)
  BY HitsLike
<1>2. g[s].opts = h[s].opts
  BY DEF Like
<1> QED
  BY <1>1, <1>2 DEF Got

(* So has one that got an entry more: the first one of a name stays.       *)
LEMMA GotLonger ==
  ASSUME NEW h, Heap(h), NEW out, Tree(h, out), NEW g, NEW lev, NEW lv, NEW sec \in Ids,
         Like(h, g, lev, lv, sec), NEW id, Longer(g[sec].opts, h[sec].opts, id), NEW def,
         NEW F, NEW F2, F \subseteq F2, Got(h, F, sec, def)
  PROVE  Got(g, F2, sec, def)
<1> DEFINE m == Len(h[sec].opts)
           H == Hits(h, sec, def)
           G == Hits(g, sec, def)
<1>1. Array(h[sec].opts)
  BY DEF Heap, IsNode
<1>2. /\ m \in Nat /\ DOMAIN h[sec].opts = 1..m
      /\ \A k \in DOMAIN h[sec].opts : g[sec].opts[k] = h[sec].opts[k]
  BY <1>1, LongerIs
<1>3. H # {} /\ H \subseteq DOMAIN h[sec].opts /\ H \subseteq Nat
  BY <1>2 DEF Got, Hits
<1>4. G = H \/ G = H \cup {m + 1}
  BY HitsLonger
<1> HIDE DEF m, H, G
<1>5. G # {} /\ G \subseteq Nat /\ H \subseteq G /\ \A x \in G : x \in H \/ x = m + 1
  <2>1. m + 1 \in Nat
    BY <1>2
  <2>2. CASE G = H
    BY <1>3, <2>2
  <2>3. CASE G = H \cup {m + 1}
    BY <1>3, <2>1, <2>3
  <2> QED
    BY <1>4, <2>2, <2>3
<1>6. First(H) \in H /\ \A j \in H : First(H) <= j
  BY <1>3, FirstLeast
<1>7. First(G) = First(H)
  <2>1. First(H) \in 1..m
    BY <1>2, <1>3, <1>6
  <2>2. First(H) \in G /\ First(H) <= m + 1
    BY <1>2, <1>5, <1>6, <2>1
  <2>3. \A j \in G : First(H) <= j
    BY <1>5, <1>6, <2>2
  <2> QED
    BY <1>5, <2>2, <2>3, FirstLeast
<1>8. g[sec].opts[First(H)] = h[sec].opts[First(H)]
  BY <1>2, <1>3, <1>6
<1> QED
  BY <1>5, <1>7, <1>8 DEF Got, G, H

(* Sections that had all their defaults have them still.                   *)
LEMMA GoodLike ==
  ASSUME NEW h, NEW out, Tree(h, out), NEW g, NEW lev, NEW lv, NEW sec, Like(h, g, lev, lv, sec),
         NEW F, sec \notin F, Good(h, lev, F)
  PROVE  Good(g, lv, F)
<1>1. SUFFICES ASSUME NEW s \in F
               PROVE  s \in Ids /\ IsSec(g[s]) /\ \A d \in DOMAIN Schema[lv[s]] : Got(g, F, s, Schema[lv[s]][d])
  BY DEF Good
<1>2. s \in Ids /\ IsSec(h[s]) /\ \A d \in DOMAIN Schema[lev[s]] : Got(h, F, s, Schema[lev[s]][d])
  BY DEF Good
<1>3. h[s].kind # "unused" /\ s # sec
  BY <1>2 DEF IsSec
<1>4. IsSec(g[s]) /\ lv[s] = lev[s]
  BY <1>2, <1>3 DEF Like, Same, IsSec
<1>5. \A def : Got(h, F, s, def) => Got(g, F, s, def)
  BY <1>2, <1>3, GotLike
<1> QED
  BY <1>2, <1>4, <1>5

(* One more has them.                                                      *)
LEMMA GoodMore ==
  ASSUME NEW h, NEW lev, NEW F, Good(h, lev, F), NEW e \in Ids, IsSec(h[e]),
         \A d \in DOMAIN Schema[lev[e]] : Got(h, F, e, Schema[lev[e]][d])
  PROVE  Good(h, lev, F \cup {e})
<1>1. \A s, def : Got(h, F, s, def) => Got(h, F \cup {e}, s, def)
  BY DEF Got
<1> QED
  BY <1>1 DEF Good

(* What a definition has seen the next ones have seen, too.                *)
LEMMA SeenMore ==
  ASSUME NEW l, NEW n \in Int, NEW m \in Int, n <= m, NEW name, Seen(l, n, name)
  PROVE  Seen(l, m, name)
<1>1. 1..(n - 1) \subseteq 1..(m - 1)
  OBVIOUS
<1> QED
  BY <1>1 DEF Seen

\* The calls in s are still running in t, as far as they were or farther, or have ended.
Covers(s, t, F) ==
  \A k \in DOMAIN s : s[k].node \in F \/ \E j \in DOMAIN t :
    t[j].node = s[k].node /\ t[j].level = s[k].level /\ s[k].def \in Int /\ t[j].def \in Int /\ s[k].def <= t[j].def

(* Where the sections with all their defaults are entries.                 *)
LEMMA UpwardMore ==
  ASSUME NEW h, NEW F, NEW s, Upward(h, F, s), NEW t, NEW G, F \subseteq G, Covers(s, t, G),
         \A e \in G \ F : \A p \in Ids : Holds(h, p, e) =>
           \E k \in DOMAIN t : t[k].node = p /\ Seen(t[k].level, t[k].def, h[e].name)
  PROVE  Upward(h, G, t)
<1>1. SUFFICES ASSUME NEW e \in F, NEW p \in Ids, Holds(h, p, e), p \notin G
               PROVE  \E k \in DOMAIN t : t[k].node = p /\ Seen(t[k].level, t[k].def, h[e].name)
  BY DEF Upward
<1>2. PICK k \in DOMAIN s : s[k].node = p /\ Seen(s[k].level, s[k].def, h[e].name)
  BY <1>1 DEF Upward
<1>3. PICK j \in DOMAIN t : /\ t[j].node = s[k].node /\ t[j].level = s[k].level
                            /\ s[k].def \in Int /\ t[j].def \in Int /\ s[k].def <= t[j].def
  BY <1>1, <1>2 DEF Covers
<1>4. Seen(t[j].level, t[j].def, h[e].name)
  BY <1>2, <1>3, SeenMore
<1> QED
  BY <1>2, <1>3, <1>4

(* Only sections that are done or under way have more than the file said.  *)
LEMMA TouchedMore ==
  ASSUME NEW h, NEW sd, NEW F, NEW s, Touched(h, sd, F, s), NEW t, NEW G, F \subseteq G, Covers(s, t, G)
  PROVE  Touched(h, sd, G, t)
  BY DEF Touched, Covers

\* In g, nodes are new, without entries, or keep theirs, or are sec, with id more.
Adds(h, g, sec, id) ==
  /\ \A i \in Ids : h[i].kind = "unused" => g[i].opts = <<>>
  /\ \A e \in Ids : Holds(g, sec, e) => e = id \/ Holds(h, sec, e)

(* The new entry is none of those.                                         *)
LEMMA UpwardLike ==
  ASSUME NEW h, NEW g, NEW lev, NEW lv, NEW sec, Like(h, g, lev, lv, sec), NEW id, Adds(h, g, sec, id),
         NEW F, id \notin F, Good(h, lev, F), NEW s, Upward(h, F, s)
  PROVE  Upward(g, F, s)
<1>1. SUFFICES ASSUME NEW e \in F, NEW p \in Ids, Holds(g, p, e)
               PROVE  Holds(h, p, e) /\ g[e].name = h[e].name
  BY DEF Upward
<1>2. e \in Ids /\ h[e].kind # "unused"
  BY DEF Good, IsSec
<1>3. g[e].name = h[e].name
  BY <1>2 DEF Like, Same
<1>4. CASE p = sec
  BY <1>1, <1>2, <1>3, <1>4 DEF Adds
<1>5. CASE p # sec /\ h[p].kind = "unused"
  BY <1>1, <1>5, EmptyArray DEF Adds, Holds
<1>6. CASE p # sec /\ h[p].kind # "unused"
  BY <1>1, <1>3, <1>6 DEF Like, Holds
<1> QED
  BY <1>4, <1>5, <1>6

(* A section that got an entry is one that is under way.                   *)
LEMMA TouchedLike ==
  ASSUME NEW h, NEW g, NEW lev, NEW lv, NEW sec, Like(h, g, lev, lv, sec),
         \A i \in Ids : h[i].kind = "unused" => g[i].opts = <<>>,
         NEW sd, SaidIs(h, sd), NEW F, NEW s, Touched(h, sd, F, s),
         sec \in Ids /\ h[sec].kind # "unused" => \E k \in DOMAIN s : s[k].node = sec
  PROVE  Touched(g, sd, F, s)
<1>1. SUFFICES ASSUME NEW i \in Ids, IsSec(g[i]), Len(g[i].opts) # Len(sd[i])
               PROVE  i \in F \/ \E k \in DOMAIN s : s[k].node = i
  BY DEF Touched
<1>2. h[i].kind # "unused"
  BY <1>1 DEF SaidIs
<1>3. CASE i = sec
  BY <1>2, <1>3
<1>4. CASE i # sec
  BY <1>1, <1>2, <1>4 DEF Like, Same, Touched, IsSec
<1> QED
  BY <1>3, <1>4

(* A call that is not for the section that grows is as far as it was.      *)
LEMMA AtLike ==
  ASSUME NEW h, NEW out, Tree(h, out), NEW g, NEW lev, NEW lv, NEW sec, Like(h, g, lev, lv, sec),
         NEW F, NEW F2, F \subseteq F2, NEW sd, NEW f, At(h, sd, lev, F, f), f.node \notin F2,
         f.node \in Ids, h[f.node].kind # "unused", f.node # sec
  PROVE  At(g, sd, lv, F2, f)
<1>1. g[f.node].opts = h[f.node].opts /\ lv[f.node] = lev[f.node]
  BY DEF Like
<1>2. \A def : Got(h, F, f.node, def) => Got(g, F2, f.node, def)
  BY GotLike
<1>3. \A j \in DOMAIN h[f.node].opts : g[h[f.node].opts[j]].name = h[h[f.node].opts[j]].name
  BY EntriesUsed DEF Like, Same
<1>4. Started(sd, lv, F2, f)
  BY <1>1 DEF At, Started
<1>5. Sofar(g, F2, f)
  BY <1>1, <1>2, <1>3 DEF At, Sofar
<1> QED
  BY <1>4, <1>5 DEF At

(* So is the call it made.                                                 *)
LEMMA UnderLike ==
  ASSUME NEW h, NEW out, Tree(h, out), NEW g, NEW lev, NEW lv, NEW sec, Like(h, g, lev, lv, sec),
         NEW f, NEW a, NEW b, Under(h, lev, f, a), b.node = a.node, b.fresh <=> a.fresh,
         f.node \in Ids, h[f.node].kind # "unused", f.node # sec, a.node \in Ids, h[a.node].kind # "unused"
  PROVE  Under(g, lv, f, b)
<1>1. g[f.node].opts = h[f.node].opts /\ lv[a.node] = lev[a.node] /\ Same(g[a.node], h[a.node])
  BY DEF Like
<1>2. Hits(g, f.node, Schema[f.level][f.def]) = Hits(h, f.node, Schema[f.level][f.def])
  BY HitsLike
<1> QED
  BY <1>1, <1>2 DEF Under, Same

\* The calls of t but the innermost are those of s, which are not for sec and have not ended.
Waits(s, t) == \A k \in DOMAIN t : k # Len(t) => k \in DOMAIN s /\ t[k] = s[k]
Others(s, sec, F) == \A k \in DOMAIN s : k # Len(s) => s[k].node # sec /\ s[k].node \notin F

(* The calls that wait are as far as they were.                            *)
LEMMA CallsLike ==
  ASSUME NEW h, NEW out, Tree(h, out), NEW g, NEW lev, NEW lv, NEW sec, Like(h, g, lev, lv, sec),
         NEW r, NEW s, Frames(s), Completing(h, r, s), NEW F, NEW F2, F \subseteq F2, NEW sd,
         Running(h, sd, lev, F, s), NEW t, Array(t), Len(t) > 0, Waits(s, t), Others(t, sec, F2),
         At(g, sd, lv, F2, t[Len(t)]), Len(t) # 1 => Under(g, lv, t[Len(t) - 1], t[Len(t)])
  PROVE  Running(g, sd, lv, F2, t)
<1>1. \A k \in DOMAIN s : s[k].node \in Ids /\ h[s[k].node].kind # "unused"
  BY DEF Frames, Completing, Completed, IsSec
<1>2. ASSUME NEW k \in DOMAIN t, k # Len(t) PROVE At(g, sd, lv, F2, t[k])
  <2>1. k \in DOMAIN s /\ t[k] = s[k] /\ s[k].node # sec /\ s[k].node \notin F2
    BY <1>2 DEF Waits, Others
  <2>2. At(h, sd, lev, F, s[k]) /\ s[k].node \in Ids /\ h[s[k].node].kind # "unused"
    BY <1>1, <2>1 DEF Running
  <2>3. At(g, sd, lv, F2, s[k])
    BY <2>1, <2>2, AtLike
  <2> QED
    BY <2>1, <2>3
<1>3. ASSUME NEW k \in DOMAIN t, k # Len(t), k # 1 PROVE Under(g, lv, t[k - 1], t[k])
  <2>1. k \in 1..Len(t) /\ Len(t) \in Nat /\ DOMAIN t = 1..Len(t)
    BY DEF Array
  <2>2. k - 1 \in DOMAIN t /\ k - 1 # Len(t)
    BY <1>3, <2>1
  <2>3. /\ k \in DOMAIN s /\ t[k] = s[k] /\ k - 1 \in DOMAIN s /\ t[k - 1] = s[k - 1]
        /\ s[k - 1].node # sec
    BY <1>3, <2>2 DEF Waits, Others
  <2>4. Under(h, lev, s[k - 1], s[k])
    BY <1>3, <2>3 DEF Running
  <2>5. Under(g, lv, s[k - 1], s[k])
    <3> DEFINE f == s[k - 1]
               a == s[k]
    <3>1. f.node \in Ids /\ h[f.node].kind # "unused" /\ a.node \in Ids /\ h[a.node].kind # "unused"
      BY <1>1, <2>3
    <3>2. Under(h, lev, f, a) /\ f.node # sec
      BY <2>3, <2>4
    <3> HIDE DEF f, a
    <3>3. Under(g, lv, f, a)
      BY <3>1, <3>2, UnderLike
    <3> QED
      BY <3>3 DEF f, a
  <2> QED
    BY <2>3, <2>5
<1> QED
  BY <1>2, <1>3 DEF Running

(***************************************************************************)
(* Nodes that are added, and values                                        *)
(***************************************************************************)

\* A new node goes to the end of a section.
Joins(h, g, lev, lv, sec, id, n) ==
  /\ id \in Ids /\ id # sec /\ h[id].kind = "unused" /\ g[id] = n
  /\ Like(h, g, lev, lv, sec) /\ Adds(h, g, sec, id) /\ Longer(g[sec].opts, h[sec].opts, id)
  /\ \A i \in Ids : /\ h[i].kind # "unused" => g[i].vals = h[i].vals
                    /\ h[i].kind = "unused" /\ i # id => g[i].kind = "unused"

(* A node that is not used has no entries.                                 *)
LEMMA UnusedEmpty ==
  ASSUME NEW h, Heap(h), NEW out, Tree(h, out), NEW i \in Ids, ~IsSec(h[i])
  PROVE  h[i].opts = <<>>
<1>1. DOMAIN h[i].opts = {}
  BY DEF Tree, OnlySecs
<1>2. Array(h[i].opts)
  BY DEF Heap, IsNode
<1>3. Len(h[i].opts) \in Nat /\ DOMAIN h[i].opts = 1..Len(h[i].opts)
  BY <1>2 DEF Array
<1>4. Len(h[i].opts) = 0
  <2>1. \A n \in Nat : n # 0 => 1 \in 1..n
    OBVIOUS
  <2> QED
    BY <1>1, <1>3, <2>1
<1> QED
  BY <1>2, <1>4, ArrayEmpty

(* A level for a new node leaves the others theirs.                        *)
LEMMA LevelNew ==
  ASSUME NEW lev \in Levels, NEW id \in Ids, NEW l \in DOMAIN Schema
  PROVE  LET lv == [lev EXCEPT ![id] = l] IN lv \in Levels /\ lv[id] = l /\ \A i \in Ids : i # id => lv[i] = lev[i]
  BY DEF Levels

(* A node that was just made, in nobody's section.                         *)
LEMMA NewLike ==
  ASSUME NEW h, Heap(h), NEW out, Tree(h, out), FreeIds(h) # {},
         NEW n, IsNode(n), IsLive(n), n.opts = <<>>, NEW lev \in Levels, NEW l \in DOMAIN Schema
  PROVE  LET id == NewId(h)
             g  == WithNew(h, n)
             lv == [lev EXCEPT ![id] = l]
         IN  /\ id \in Ids /\ h[id].kind = "unused" /\ g[id] = n /\ lv \in Levels /\ lv[id] = l
             /\ \A i \in Ids : i # id => g[i] = h[i] /\ lv[i] = lev[i]
             /\ Like(h, g, lev, lv, id)
             /\ \A i \in Ids : h[i].kind = "unused" => g[i].opts = <<>>
<1> DEFINE id == NewId(h)
           g == WithNew(h, n)
           lv == [lev EXCEPT ![id] = l]
<1>1. id \in Ids /\ h[id].kind = "unused"
  BY NewIs
<1>2. Heap(g) /\ \A i \in Ids : g[i] = IF i = id THEN n ELSE h[i]
  <2>1. Heap(g)
    BY TreeNew
  <2>2. g = [h EXCEPT ![id] = n]
    BY Zenon DEF WithNew
  <2> HIDE DEF id, g
  <2>3. \A i \in Ids : [h EXCEPT ![id] = n][i] = IF i = id THEN n ELSE h[i]
    BY DEF Heap
  <2> QED
    BY <2>1, <2>2, <2>3
<1>3. lv \in Levels /\ lv[id] = l /\ \A i \in Ids : i # id => lv[i] = lev[i]
  <2> HIDE DEF id
  <2> QED
    BY <1>1, LevelNew
<1> HIDE DEF id, g, lv
<1>4. Like(h, g, lev, lv, id)
  BY <1>1, <1>2, <1>3 DEF Like, Same
<1>5. \A i \in Ids : h[i].kind = "unused" => g[i].opts = <<>>
  BY <1>2, UnusedEmpty DEF IsSec
<1> QED
  BY <1>1, <1>2, <1>3, <1>4, <1>5 DEF id, g, lv

(* What has one entry more holds the new one and what it held.             *)
LEMMA HoldsLonger ==
  ASSUME NEW h, NEW g, NEW sec, Array(h[sec].opts), NEW id, Longer(g[sec].opts, h[sec].opts, id), NEW e
  PROVE  Holds(g, sec, e) <=> e = id \/ Holds(h, sec, e)
<1>1. LET n == Len(h[sec].opts) + 1 IN
      /\ DOMAIN g[sec].opts = DOMAIN h[sec].opts \cup {n} /\ g[sec].opts[n] = id
      /\ \A k \in DOMAIN h[sec].opts : g[sec].opts[k] = h[sec].opts[k]
  BY LongerIs
<1> QED
  BY <1>1 DEF Holds

(* It joins a section.                                                     *)
LEMMA JoinsIs ==
  ASSUME NEW h, Heap(h), NEW out, Tree(h, out), FreeIds(h) # {},
         NEW n, IsNode(n), IsLive(n), n.opts = <<>>, NEW lev \in Levels, NEW l \in DOMAIN Schema,
         NEW sec \in Ids, IsSec(h[sec]), NEW x, Longer(x, WithNew(h, n)[sec].opts, NewId(h))
  PROVE  LET id == NewId(h)
             lv == [lev EXCEPT ![id] = l]
         IN  lv \in Levels /\ lv[id] = l /\ Joins(h, WithOpts(WithNew(h, n), sec, x), lev, lv, sec, id, n)
<1> DEFINE id == NewId(h)
           lv == [lev EXCEPT ![id] = l]
           m == WithNew(h, n)
           g == WithOpts(m, sec, x)
<1>1. /\ id \in Ids /\ h[id].kind = "unused" /\ m[id] = n /\ lv \in Levels /\ lv[id] = l
      /\ \A i \in Ids : i # id => m[i] = h[i] /\ lv[i] = lev[i]
  BY NewLike
<1>2. Heap(m)
  BY TreeNew
<1>3. id # sec
  BY <1>1 DEF IsSec
<1>4. Longer(x, h[sec].opts, id)
  BY <1>1, <1>3
<1> HIDE DEF id, lv, m
<1>5. /\ \A i \in Ids : i # sec => g[i] = m[i]
      /\ g[sec].opts = x /\ But(g[sec], m[sec])
  BY <1>2, <1>4, HeapOpts DEF Longer
<1> HIDE DEF g
<1>6. \A i \in Ids : i # sec => g[i] = IF i = id THEN n ELSE h[i]
  BY <1>1, <1>5
<1>7. But(g[sec], h[sec])
  BY <1>1, <1>3, <1>5
<1>8. Like(h, g, lev, lv, sec)
  BY <1>1, <1>6, <1>7 DEF Like, Same, But
<1>9. Adds(h, g, sec, id)
  <2>1. \A i \in Ids : h[i].kind = "unused" => g[i].opts = <<>>
    BY <1>6, UnusedEmpty DEF IsSec
  <2>2. Array(h[sec].opts)
    BY DEF Heap, IsNode
  <2> QED
    BY <1>4, <1>5, <2>1, <2>2, HoldsLonger DEF Adds
<1>10. \A i \in Ids : /\ h[i].kind # "unused" => g[i].vals = h[i].vals
                      /\ h[i].kind = "unused" /\ i # id => g[i].kind = "unused"
  BY <1>1, <1>6, <1>7 DEF But, IsSec
<1>11. Joins(h, g, lev, lv, sec, id, n)
  BY <1>1, <1>3, <1>4, <1>5, <1>6, <1>8, <1>9, <1>10 DEF Joins
<1> QED
  BY <1>1, <1>11 DEF id, lv, m, g

(* Where no values change, the options keep theirs.                        *)
LEMMA AllSetIs ==
  ASSUME NEW h, NEW out, Tree(h, out), NEW g, NEW lev, NEW lv, NEW sec, Like(h, g, lev, lv, sec),
         \A i \in Ids : h[i].kind # "unused" => g[i].vals = h[i].vals,
         NEW sd, NEW dr, NEW open, NEW open2, open \subseteq open2, Legal(h, sd, lev, dr, open)
  PROVE  AllSet(h, g, lev, dr, open2)
<1>1. SUFFICES ASSUME NEW s \in Ids, IsSec(h[s]), NEW k \in DOMAIN h[s].opts, h[s].opts[k] \notin open2
               PROVE  HasValues(g[h[s].opts[k]], lev[s], dr)
  BY DEF AllSet
<1> DEFINE i == h[s].opts[k]
<1>2. i \in Ids /\ h[i].kind # "unused"
  BY EntriesUsed
<1>3. HasValues(h[i], lev[s], dr)
  BY <1>1 DEF Legal, Section, Fitting
<1>4. Same(g[i], h[i]) /\ g[i].vals = h[i].vals
  BY <1>2 DEF Like
<1> HIDE DEF i
<1>5. HasValues(g[i], lev[s], dr)
  BY <1>3, <1>4, ValuesSame DEF Same
<1> QED
  BY <1>5 DEF i

(* A value that is appended, or the first one, makes the values one more.  *)
LEMMA SetnLonger ==
  ASSUME NEW m, IsNode(m), NEW val, NEW inst, inst = {"SET", "APPEND"} \/ (inst = {"SET"} /\ m.vals = <<>>)
  PROVE  LET n == SetnCmn(m, val, -1, inst).node IN IsNode(n) /\ Beside(n, m) /\ Len(n.vals) = Len(m.vals) + 1
<1> DEFINE pos == GetnCmn(m.vals, val, -1, inst)
           grow == m.vals = <<>> \/ inst \cap Insert # {}
           len == Len(m.vals)
           p == Position(Cardinality(DOMAIN m.vals), DOMAIN m.vals, -1, inst, len)
           new == PutAt(m.vals, pos, val, WildValue)
<1>1. len \in Nat /\ DOMAIN m.vals = 1..len
  BY DEF IsNode, Array
<1>2. grow /\ "COMPARE" \notin inst /\ "SET" \in inst
  BY DEF Insert
<1>3. pos = p
  BY <1>2, Zenon DEF GetnCmn
<1>4. ~(p < 0)
  <2>1. CASE Cardinality(DOMAIN m.vals) = 0
    <3>1. p = len \/ p = 0
      BY <1>2, <2>1, Zenon DEF Position
    <3> QED
      BY <1>1, <3>1
  <2>2. CASE Cardinality(DOMAIN m.vals) # 0
    <3>1. Cardinality(1..len) \in Nat
      BY <1>1, HitsFinite
    <3>2. inst = {"SET", "APPEND"}
      <4>1. m.vals # <<>>
        <5>1. DOMAIN <<>> = {} /\ Cardinality({}) = 0
          BY EmptyArray, FS_EmptySet
        <5> QED
          BY <2>2, <5>1
      <4> QED
        BY <4>1
    <3>3. "APPEND" \in inst
      BY <3>2
    <3>4. p = Walk(1..len, Steps(Cardinality(1..len), -1), len) - 0
      BY <1>1, <2>2, <3>3, Zenon DEF Position
    <3>5. Steps(Cardinality(1..len), -1) \in Nat
      <4> DEFINE c == Cardinality(1..len)
      <4>1. c \in Nat \ {0} /\ -1 \in Int
        BY <1>1, <2>2, <3>1
      <4> HIDE DEF c
      <4>2. Steps(c, -1) \in 0..c
        BY <4>1, StepsIn
      <4>3. \A n \in 0..c : n \in Nat
        OBVIOUS
      <4> QED
        BY <4>2, <4>3 DEF c
    <3>6. Walk(1..len, Steps(Cardinality(1..len), -1), len) \in 0..len
      BY <1>1, <3>5, WalkIs
    <3> QED
      BY <1>1, <3>4, <3>6
  <2> QED
    BY <2>1, <2>2
<1>5. Len(new) = len + 1
  BY PutAtIs DEF IsNode
<1>6. SetnCmn(m, val, -1, inst).node = [m EXCEPT !.vals = new]
  <2>1. SetnCmn(m, val, -1, inst).node =
          IF pos < 0 THEN m ELSE [m EXCEPT !.vals = IF grow THEN new ELSE [m.vals EXCEPT ![pos + 1] = val]]
    BY DEF SetnCmn
  <2> HIDE DEF p, pos, new, grow
  <2> QED
    BY <1>2, <1>3, <1>4, <2>1, Zenon
<1>7. [m EXCEPT !.vals = new].vals = new
  <2> HIDE DEF new
  <2> QED
    BY DEF IsNode
<1> HIDE DEF new
<1>8. IsNode(SetnCmn(m, val, -1, inst).node) /\ Beside(SetnCmn(m, val, -1, inst).node, m)
  <2>1. \A idx, i : IsNode(SetnCmn(m, val, idx, i).node) /\ Beside(SetnCmn(m, val, idx, i).node, m)
    BY SetnIs
  <2> QED
    BY <2>1, Zenon
<1> QED
  BY <1>5, <1>6, <1>7, <1>8

(***************************************************************************)
(* The file is parsed                                                      *)
(***************************************************************************)

(* A section without entries, of which the file said nothing.              *)
LEMMA SectionEmpty ==
  ASSUME NEW h, NEW s, h[s].opts = <<>>, NEW sd, sd[s] = <<>>, NEW lev, NEW dr, NEW open
  PROVE  Section(h, sd, lev, dr, open, s)
<1>1. DOMAIN h[s].opts = {} /\ Len(<<>>) = 0
  BY EmptyArray
<1>2. Fitting(h, sd, lev, dr, open, s) /\ Single(h, lev[s], s)
  BY <1>1 DEF Fitting, Single, Hits
<1> QED
  BY <1>1, <1>2 DEF Section

(* The root is made, and no name has been read.                            *)
LEMMA ReadKnown ==
  ASSUME Heap(heap), Shape(phase, heap, root, stack), Loading, ReadStep, why' = "none", why = "none"
  PROVE  Loading'
<1>1. phase = "read" /\ (\A i \in Ids : heap[i] = Unused) /\ SaidIs(heap, said) /\ said' = said
  BY DEF ReadStep, ReadBlock, ReadInterrupted, ReadFails, ReadEnd, Shape, Loading, tree
<1>2. CASE UNCHANGED <<phase, heap, root, stack>>
  BY <1>1, <1>2 DEF Loading
<1>3. CASE phase' = "failed"
  BY <1>3 DEF Loading
<1>4. CASE ReadEnd
  <2> DEFINE id == NewId(heap)
             file == Node("file", "", {})
             f == Frame("parse", id, 1, 0)
             lev == [i \in Ids |-> 1]
  <2>1. CASE /\ FreeIds(heap) # {} /\ phase' = "parse" /\ root' = id
             /\ heap' = [heap EXCEPT ![id] = file] /\ stack' = <<f>>
    <3>1. id \in Ids
      BY <2>1, NewIs
    <3>2. \A i \in Ids : heap'[i] = IF i = id THEN file ELSE Unused
      <4> HIDE DEF id, file
      <4>1. heap' = [heap EXCEPT ![id] = file]
        BY <2>1
      <4>2. \A i \in Ids : [heap EXCEPT ![id] = file][i] = IF i = id THEN file ELSE heap[i]
        BY DEF Heap
      <4> QED
        BY <1>1, <4>1, <4>2
    <3>3. file.opts = <<>> /\ file.kind = "file" /\ Unused.opts = <<>> /\ Unused.kind = "unused"
      <4>1. \A k, n, x : Node(k, n, x).opts = <<>> /\ Node(k, n, x).kind = k
        BY PlainNodeIs
      <4>2. file.opts = <<>> /\ file.kind = "file"
        BY <4>1, Zenon
      <4> HIDE DEF file
      <4> QED
        BY <4>2, UnusedIs
    <3>4. \A i \in Ids : said'[i] = <<>> /\ heap'[i].opts = <<>>
      BY <1>1, <3>2, <3>3 DEF SaidIs
    <3>5. lev \in Levels
      BY LevelsAre DEF Levels
    <3>6. f.fn = "parse" /\ f.node = id /\ f.level = 1
      BY FrameIs DEF Begun
    <3>7. SaidIs(heap', said')
      BY <1>1, <3>2, <3>3, <3>4 DEF SaidIs
    <3>8. Len(stack') = 1 /\ DOMAIN stack' = {1} /\ stack'[1] = f
      BY <2>1, OneIs
    <3>9. lev[id] = 1
      BY <3>1
    <3> HIDE DEF lev, f, id, file
    <3>10. Legal(heap', said', lev, dropped', Open(stack'))
      BY <3>4, <3>5, SectionEmpty DEF Legal, Levels
    <3>11. Callers(stack') /\ Working(heap', lev, dropped', stack')
      BY <3>6, <3>8, <3>9 DEF Callers, Call, Working
    <3>12. NoMore(heap', said')
      BY <3>4 DEF NoMore
    <3>13. Reading(heap', said', lev, dropped', root', stack')
      BY <2>1, <3>9, <3>10, <3>11, <3>12 DEF Reading
    <3> QED
      BY <2>1, <3>5, <3>7, <3>13 DEF Loading
  <2> HIDE DEF id, file, f, lev
  <2> QED
    BY <1>2, <1>3, <1>4, <2>1, ReadEndCases DEF id, file, f
<1> QED
  BY <1>2, <1>3, <1>4 DEF ReadStep, ReadBlock, ReadInterrupted, ReadFails, tree

(* The calls of the parser that wait are calls of vt_config_parse.         *)
LEMMA CallersNext ==
  ASSUME NEW h, NEW lev, NEW dr, NEW s, Working(h, lev, dr, s),
         NEW t, Array(t), Waits(s, t), \A k \in DOMAIN t : k # Len(t) => s[k].fn = "parse",
         NEW g, NEW lv, NEW dr2, \A k \in DOMAIN t : k # Len(t) => lv[s[k].node] = lev[s[k].node],
         Call(g, lv, dr2, t[Len(t)])
  PROVE  Callers(t) /\ Working(g, lv, dr2, t)
<1>1. Callers(t)
  BY DEF Callers, Waits
<1>2. ASSUME NEW k \in DOMAIN t, k # Len(t) PROVE Call(g, lv, dr2, t[k])
  <2>1. k \in DOMAIN s /\ t[k] = s[k] /\ s[k].fn = "parse" /\ lv[s[k].node] = lev[s[k].node]
    BY <1>2 DEF Waits
  <2>2. Call(h, lev, dr, s[k])
    BY <2>1 DEF Working
  <2> QED
    BY <2>1, <2>2 DEF Call
<1> QED
  BY <1>1, <1>2 DEF Working

(* When a call returns, the one that made it goes on parsing.              *)
LEMMA CallersPop ==
  ASSUME NEW h, NEW lev, NEW dr, NEW s, Array(s), Len(s) > 1, Callers(s),
         Working(h, lev, dr, s), NEW g, NEW dr2
  PROVE  LET t == SubSeq(s, 1, Len(s) - 1) IN
         Open(t) = {} /\ Callers(t) /\ Working(g, lev, dr2, t)
<1> DEFINE t == SubSeq(s, 1, Len(s) - 1)
<1>1. Len(s) \in Nat
  BY DEF Array
<1>2. Array(t) /\ Len(t) = Len(s) - 1 /\ \A k \in DOMAIN t : k \in DOMAIN s /\ t[k] = s[k]
  BY <1>1, PopIs
<1> HIDE DEF t
<1>3. Len(t) \in DOMAIN t /\ \A k \in DOMAIN t : k # Len(s)
  BY <1>1, <1>2 DEF Array
<1>4. \A k \in DOMAIN t : t[k].fn = "parse"
  BY <1>2, <1>3 DEF Callers
<1>5. Open(t) = {}
  BY <1>3, <1>4 DEF Open
<1>6. Working(g, lev, dr2, t)
  BY <1>2, <1>4 DEF Working, Call
<1>7. Callers(t)
  BY <1>4 DEF Callers
<1> QED
  BY <1>5, <1>6, <1>7 DEF t

(* The heap is like itself.                                                *)
LEMMA LikeSelf ==
  ASSUME NEW h, NEW lev, NEW sec
  PROVE  Like(h, h, lev, lev, sec)
  BY DEF Like, Same

(* What the parser reads in a heap of which only values and titles have    *)
(* changed.                                                                *)
LEMMA ReadingLike ==
  ASSUME Heap(heap), NEW out, Tree(heap, out), NEW lev \in Levels, SaidIs(heap, said), said' = said,
         Reading(heap, said, lev, dropped, root, stack), phase' = "parse", root' = root,
         Like(heap, heap', lev, lev, Wild), \A i \in Ids : heap[i].kind = "unused" => heap'[i] = heap[i],
         NEW open, Open(stack') = open, AllSet(heap, heap', lev, dropped', open),
         Callers(stack') /\ Working(heap', lev, dropped', stack')
  PROVE  Loading'
<1>1. Wild \notin Ids
  BY IdsAssumption
<1>2. Legal(heap, said, lev, dropped, Open(stack)) /\ NoMore(heap, said) /\ lev[root] = 1
  BY DEF Reading
<1>3. \A i \in Ids : heap[i].kind = "unused" => ~IsSec(heap'[i])
  BY DEF IsSec
<1>4. Legal(heap', said', lev, dropped', open)
  BY <1>1, <1>2, <1>3, LegalLike
<1>5. \A i \in Ids : /\ heap[i].kind = "unused" <=> heap'[i].kind = "unused"
                     /\ heap[i].kind # "unused" => heap'[i].kind = heap[i].kind /\ heap'[i].opts = heap[i].opts
  BY <1>1 DEF Like, Same
<1>6. SaidIs(heap', said')
  BY <1>5 DEF SaidIs
<1>7. NoMore(heap', said')
  BY <1>2, <1>5 DEF NoMore, IsSec
<1>8. Reading(heap', said', lev, dropped', root', stack')
  BY <1>2, <1>4, <1>7 DEF Reading
<1> QED
  BY <1>6, <1>8 DEF Loading

\* What the parser makes of a name that a definition of the section's level takes
Names(def, name, n) ==
  /\ n.kind = def.type /\ n.name = name /\ n.vtype = def.vtype /\ n.opts = <<>> /\ n.vals = <<>>
  /\ Matches(def, def.name, name) /\ "NODEFAULT" \in n.flags

(* The entry for a name of the file, which joins its section.              *)
LEMMA DeclareLegal ==
  ASSUME Heap(heap), NEW out, Tree(heap, out), NEW lev \in Levels, NEW lv \in Levels,
         NEW sec \in Ids, IsSec(heap[sec]), NEW id, NEW n, Joins(heap, heap', lev, lv, sec, id, n),
         NEW d \in DOMAIN Schema[lev[sec]], NEW name, Names(Schema[lev[sec]][d], name, n),
         n.kind = "sec" => lv[id] = Schema[lev[sec]][d].opts,
         Alone(Schema[lev[sec]][d]) => Hits(heap, sec, Schema[lev[sec]][d]) = {},
         SaidIs(heap, said), said' = [said EXCEPT ![sec] = Append(said[sec], name)], dropped' = dropped,
         NoMore(heap, said), Legal(heap, said, lev, dropped, {}),
         NEW open, n.kind = "opt" => id \in open
  PROVE  SaidIs(heap', said') /\ NoMore(heap', said') /\ Legal(heap', said', lv, dropped', open)
<1> DEFINE m == Len(heap[sec].opts)
           l == lev[sec]
           def == Schema[l][d]
<1>1. /\ id \in Ids /\ id # sec /\ heap[id].kind = "unused" /\ heap'[id] = n
      /\ Like(heap, heap', lev, lv, sec) /\ Adds(heap, heap', sec, id)
      /\ Longer(heap'[sec].opts, heap[sec].opts, id)
      /\ \A i \in Ids : /\ heap[i].kind # "unused" => heap'[i].vals = heap[i].vals
                        /\ heap[i].kind = "unused" /\ i # id => heap'[i].kind = "unused"
  BY DEF Joins
<1>2. Array(said[sec]) /\ Len(said[sec]) = m /\ m \in Nat /\ DOMAIN heap[sec].opts = 1..m
      /\ Len(heap'[sec].opts) = m + 1
  BY <1>1 DEF SaidIs, NoMore, Heap, IsNode, Array, Longer
<1>3. \A i \in Ids : said'[i] = IF i = sec THEN Append(said[sec], name) ELSE said[i]
  BY DEF SaidIs
<1>4. /\ Array(said'[sec]) /\ Len(said'[sec]) = m + 1 /\ said'[sec][m + 1] = name
      /\ \A k \in 1..m : said'[sec][k] = said[sec][k]
  <2>1. DOMAIN said[sec] = 1..m
    BY <1>2 DEF Array
  <2>2. said'[sec] = Append(said[sec], name)
    BY <1>3
  <2> HIDE DEF m
  <2>3. /\ Array(Append(said[sec], name)) /\ Len(Append(said[sec], name)) = Len(said[sec]) + 1
        /\ \A k \in DOMAIN said[sec] : Append(said[sec], name)[k] = said[sec][k]
        /\ Append(said[sec], name)[Len(said[sec]) + 1] = name
    BY <1>2, PushIs
  <2> QED
    BY <1>2, <2>1, <2>2, <2>3
<1>5. \A i \in Ids : heap'[i].kind = "unused" => heap[i].kind = "unused" /\ i # sec
  BY <1>1 DEF Like, Same, IsSec
<1>6. SaidIs(heap', said')
  <2>1. said' = [i \in Ids |-> said'[i]]
    BY DEF SaidIs
  <2> QED
    BY <1>3, <1>4, <1>5, <2>1 DEF SaidIs
<1>7. \A i \in Ids : heap[i].kind = "unused" => heap'[i].opts = <<>> /\ said'[i] = <<>>
  BY <1>1, <1>3 DEF Adds, SaidIs, IsSec
<1>8. NoMore(heap', said')
  <2>1. SUFFICES ASSUME NEW i \in Ids, IsSec(heap'[i]) PROVE Len(heap'[i].opts) = Len(said'[i])
    BY DEF NoMore
  <2>2. CASE i = sec
    BY <1>2, <1>4, <2>2
  <2>3. CASE i # sec /\ heap[i].kind = "unused"
    BY <1>7, <2>3
  <2>4. CASE i # sec /\ heap[i].kind # "unused"
    BY <1>1, <1>3, <2>1, <2>4 DEF Like, Same, IsSec, NoMore
  <2> QED
    BY <2>2, <2>3, <2>4
<1>9. AllSet(heap, heap', lev, dropped', open)
  <2>1. {} \subseteq open
    OBVIOUS
  <2> QED
    BY <1>1, <2>1, AllSetIs
<1>10. Section(heap', said', lv, dropped', open, sec)
  <2>1. Section(heap, said, lev, dropped, {}, sec)
    BY DEF Legal
  <2>2. \A k \in DOMAIN heap[sec].opts : Origin(heap[heap[sec].opts[k]], said'[sec], k)
    <3>1. SUFFICES ASSUME NEW k \in 1..m PROVE Origin(heap[heap[sec].opts[k]], said'[sec], k)
      BY <1>2
    <3>2. Origin(heap[heap[sec].opts[k]], said[sec], k)
      BY <1>2, <2>1 DEF Section, Fitting
    <3>3. k <= m /\ k <= m + 1 /\ said'[sec][k] = said[sec][k]
      BY <1>2, <1>4
    <3> HIDE DEF m
    <3> QED
      BY <1>2, <1>4, <3>2, <3>3 DEF Origin
  <2>3. Len(said'[sec]) <= Len(heap'[sec].opts)
    BY <1>2, <1>4
  <2>4. n.kind = def.type /\ n.name = name /\ n.vtype = def.vtype /\ Matches(def, def.name, name)
    BY DEF Names
  <2>5. l \in DOMAIN Schema /\ def.type \in {"opt", "sec"}
    BY LevelsAre DEF Levels
  <2>6. Typed(n, l, lv[id])
    BY <2>4, <2>5, TypedIs
  <2>7. id \notin open => HasValues(n, l, dropped')
    BY <2>4, <2>5 DEF HasValues
  <2>8. Origin(n, said'[sec], m + 1)
    BY <1>2, <1>4 DEF Names, Origin
  <2> HIDE DEF def
  <2>9. Alone(def) => Hits(heap, sec, def) = {}
    BY DEF def
  <2>10. Matches(Schema[lev[sec]][d], Schema[lev[sec]][d].name, heap'[id].name)
    BY <1>1, <2>4 DEF def
  <2> HIDE DEF m, l
  <2> QED
    BY <1>1, <1>9, <2>1, <2>2, <2>3, <2>5, <2>6, <2>7, <2>8, <2>9, <2>10, SectionLonger DEF m, l, def
<1>11. Legal(heap', said', lv, dropped', open)
  <2>1. \A s \in Ids : s # sec => said'[s] = said[s]
    BY <1>3
  <2>2. \A i \in Ids : heap[i].kind = "unused" => Bare(heap', said', i)
    BY <1>7 DEF Bare
  <2>3. Like(heap, heap', lev, lv, sec)
    BY <1>1
  <2>4. Tree(heap, out) /\ lv \in Levels /\ sec \in Ids /\ Legal(heap, said, lev, dropped, {})
    OBVIOUS
  <2> HIDE DEF m, l, def
  <2> QED
    BY ONLY <1>9, <1>10, <2>1, <2>2, <2>3, <2>4, LegalLike
<1> QED
  BY <1>6, <1>8, <1>11

(* The call that parses the entry.                                         *)
LEMMA DeclareCall ==
  ASSUME NEW h, NEW out, Tree(h, out), NEW g, NEW lev, NEW lv, NEW sec \in Ids, IsSec(h[sec]), NEW id, NEW n,
         Joins(h, g, lev, lv, sec, id, n),
         NEW d \in DOMAIN Schema[lev[sec]], NEW name, Names(Schema[lev[sec]][d], name, n),
         n.kind = "sec" => lv[id] = Schema[lev[sec]][d].opts, NEW dr,
         NEW f, f = Frame(Schema[lev[sec]][d].type, id, lev[sec], d), n.kind \in {"opt", "sec"}
  PROVE  Call(g, lv, dr, f)
<1> DEFINE l == lev[sec]
           def == Schema[l][d]
<1>1. f.fn = def.type /\ f.node = id /\ f.level = l /\ f.def = d /\ f.expect = "EQUAL"
  BY DEF Frame
<1>2. /\ n.kind = def.type /\ n.name = name /\ n.vals = <<>> /\ Matches(def, def.name, name) /\ g[id] = n
      /\ id \in Ids /\ h[id].kind = "unused" /\ Like(h, g, lev, lv, sec) /\ Adds(h, g, sec, id)
  BY DEF Names, Joins
<1>3. \A s \in Ids : Holds(g, s, id) => lv[s] = l
  <2>1. SUFFICES ASSUME NEW s \in Ids, Holds(g, s, id), s # sec PROVE FALSE
    BY <1>2 DEF Like, IsSec
  <2>2. CASE h[s].kind = "unused"
    BY <1>2, <2>1, <2>2, EmptyArray DEF Adds, Holds
  <2>3. CASE h[s].kind # "unused"
    <3>1. Holds(h, s, id)
      BY <1>2, <2>1, <2>3 DEF Like, Holds
    <3> QED
      BY <1>2, <3>1, EntriesUsed DEF Holds
  <2> QED
    BY <2>2, <2>3
<1> HIDE DEF def, l
<1>4. CASE def.type = "sec"
  <2>1. lv[f.node] = Schema[f.level][f.def].opts
    BY <1>1, <1>2, <1>4 DEF def, l
  <2> QED
    BY <1>1, <1>4, <2>1 DEF Call
<1>5. CASE def.type = "opt"
  <2>1. OptCall(g, lv, dr, f)
    BY <1>1, <1>2, <1>3, <1>5 DEF OptCall, def, l
  <2> QED
    BY <1>1, <1>5, <2>1 DEF Call
<1> QED
  BY <1>2, <1>4, <1>5

(* Once loading is over, or has been given up, nothing is left to say.     *)
LEMMA LoadingOver ==
  ASSUME phase' \in {"failed", "closed"}
  PROVE  Loading'
  BY DEF Loading

(* A name of the file.                                                     *)
LEMMA DeclareKnown ==
  ASSUME Heap(heap), root \in Ids, Frames(stack), Tree(heap, {root}), Parsing(heap, root, stack),
         phase = "parse", Top.fn = "parse", NEW name, Declare(name), why' = "none",
         SaidIs(heap, said), NEW lev \in Levels, Reading(heap, said, lev, dropped, root, stack)
  PROVE  Loading'
<1> DEFINE id == NewId(heap)
           def == DefOf(name)
           n == Entry(def, name)
           d == First(Named(name))
           f == Frame(def.type, id, Top.level, d)
           sec == Top.node
           inst == {"APPEND", "COMPARE"}
           put == SecSetnCmn(WithNew(heap, n), sec, id, -1, inst)
           l == IF def.type = "sec" THEN def.opts ELSE 1
           lv == [lev EXCEPT ![id] = l]
<1>1. CASE Reject
  BY <1>1, LoadingOver DEF Reject
<1>2. CASE /\ Named(name) # {} /\ FreeIds(heap) # {}
           /\ (\E k \in DOMAIN Opts(Top.node) :
                  Matches(DefOf(name), DefOf(name).name, heap[Opts(Top.node)[k]].name))
                => DefOf(name).type = "sec" /\ "MULTI" \in DefOf(name).flags
           /\ PutEntry(name).pos >= 0
           /\ heap' = PutEntry(name).heap
           /\ why' = IF PutEntry(name).whole THEN "none" ELSE "moved"
           /\ said' = [said EXCEPT ![Top.node] = Append(@, name)]
           /\ stack' = Push(Frame(DefOf(name).type, NewId(heap), Top.level, First(Named(name))))
           /\ UNCHANGED <<phase, root, dropped>>
  <2>1. Len(stack) \in DOMAIN stack /\ sec \in Ids /\ Parsed(heap, Top) /\ Top = stack[Len(stack)]
    BY TopIs DEF Top
  <2>2. IsSec(heap[sec]) /\ Top.level \in DOMAIN Schema /\ lev[sec] = Top.level
    BY <2>1 DEF Parsed, Reading, Call, Working
  <2>3. d \in DOMAIN Schema[Top.level] /\ def = Schema[Top.level][d] /\ Matches(def, def.name, name)
    <3>1. Named(name) \subseteq DOMAIN Schema[Top.level] /\ DOMAIN Schema[Top.level] \subseteq Nat
      BY <2>2, SchemaAssumption DEF Named
    <3>2. d \in Named(name)
      BY <1>2, <3>1, FirstIs
    <3> QED
      BY <3>1, <3>2 DEF DefOf, Named
  <2>4. def.type \in {"opt", "sec"} /\ l \in DOMAIN Schema
    BY <2>2, <2>3, LevelsAre
  <2>5. /\ IsNode(n) /\ n.kind = def.type /\ n.opts = <<>> /\ n.name = name
        /\ n.flags = def.flags \cup {"NODEFAULT"} /\ n.vals = <<>> /\ n.vtype = def.vtype
    <3> HIDE DEF def
    <3> QED
      BY EntryIs
  <2>6. IsLive(n)
    BY <2>4, <2>5 DEF IsLive, IsOpt, IsSec
  <2>7. heap' = put.heap /\ put.pos >= 0 /\ put.whole
    <3>1. put = PutEntry(name)
      BY Zenon DEF PutEntry, WithNew
    <3>2. PutEntry(name).whole
      BY <1>2, Zenon
    <3> HIDE DEF put
    <3> QED
      BY <1>2, <3>1, <3>2, Zenon
  <2>8. said' = [said EXCEPT ![sec] = Append(said[sec], name)] /\ stack' = Append(stack, f)
    BY <1>2, Zenon DEF Push
  <2>9. Alone(def) => Hits(heap, sec, def) = {}
    BY <1>2, <2>4 DEF Alone, Hits, Opts
  <2>10. UNCHANGED <<phase, root, dropped>> /\ FreeIds(heap) # {}
    BY <1>2
  <2>11. f.fn = def.type /\ f.node = id
    BY DEF Frame
  <2> HIDE DEF def, n, d, f, sec, l
  <2>12. Heap(WithNew(heap, n))
    BY <2>5, <2>6, <2>10, TreeNew
  <2>13. Grows(WithNew(heap, n), sec, inst)
    BY DEF Grows, Insert
  <2>14. PICK x : heap' = WithOpts(WithNew(heap, n), sec, x) /\ Longer(x, WithNew(heap, n)[sec].opts, id)
    <3>1. \E x : put.heap = WithOpts(WithNew(heap, n), sec, x) /\ Longer(x, WithNew(heap, n)[sec].opts, id)
      <4> HIDE DEF inst
      <4> QED
        BY <2>1, <2>7, <2>12, <2>13, GrownIs
    <3> HIDE DEF put
    <3> QED
      BY <2>7, <3>1
  <2>15. lv \in Levels /\ lv[id] = l /\ Joins(heap, heap', lev, lv, sec, id, n)
    BY <2>1, <2>2, <2>4, <2>5, <2>6, <2>10, <2>14, JoinsIs
  <2> HIDE DEF id, lv, put
  <2>16. Names(def, name, n)
    BY <2>3, <2>5 DEF Names
  <2>17. n.kind = "sec" => lv[id] = def.opts
    BY <2>5, <2>15 DEF l
  <2>18. Top.fn = "parse" /\ Legal(heap, said, lev, dropped, {}) /\ NoMore(heap, said) /\ lev[root] = 1
    <3>1. Open(stack) = {}
      BY <2>1 DEF Open
    <3> QED
      BY <3>1 DEF Reading
  <2>19. Open(stack') = {i \in {id} : n.kind = "opt"} /\ Array(stack) /\ Array(stack')
         /\ Len(stack') = Len(stack) + 1 /\ stack'[Len(stack')] = f
         /\ (\A k \in DOMAIN stack : stack'[k] = stack[k]) /\ DOMAIN stack' = 1..Len(stack')
         /\ Len(stack) \in Nat /\ DOMAIN stack = 1..Len(stack)
    <3>1. Array(stack)
      BY DEF Frames
    <3>2. /\ Array(stack') /\ Len(stack') = Len(stack) + 1 /\ stack'[Len(stack) + 1] = f
          /\ \A k \in DOMAIN stack : stack'[k] = stack[k]
      BY <2>8, <3>1, PushIs
    <3>3. Open(stack') = {i \in {id} : n.kind = "opt"}
      BY <2>5, <2>11, <3>2 DEF Open
    <3> QED
      BY <3>1, <3>2, <3>3 DEF Array
  <2>20. SaidIs(heap', said') /\ NoMore(heap', said') /\ Legal(heap', said', lv, dropped', Open(stack'))
    <3>1. n.kind = "opt" => id \in Open(stack')
      BY <2>19
    <3>2. d \in DOMAIN Schema[lev[sec]] /\ def = Schema[lev[sec]][d] /\ dropped' = dropped
      BY <2>2, <2>3, <2>10
    <3> QED
      BY <2>1, <2>2, <2>8, <2>9, <2>15, <2>16, <2>17, <2>18, <3>1, <3>2, DeclareLegal
  <2>21. Call(heap', lv, dropped', f)
    <3>1. f = Frame(Schema[lev[sec]][d].type, id, lev[sec], d) /\ d \in DOMAIN Schema[lev[sec]]
          /\ def = Schema[lev[sec]][d]
      BY <2>2, <2>3 DEF f
    <3>2. n.kind \in {"opt", "sec"}
      BY <2>4, <2>5
    <3> QED
      BY <2>1, <2>2, <2>15, <2>16, <2>17, <3>1, <3>2, DeclareCall
  <2>22. Callers(stack') /\ Working(heap', lv, dropped', stack')
    <3>1. \A k \in DOMAIN stack' : k # Len(stack') => k \in DOMAIN stack
      BY <2>19
    <3>2. \A k \in DOMAIN stack : stack[k].fn = "parse"
      BY <2>1, <2>18 DEF Reading, Callers
    <3>3. \A k \in DOMAIN stack : lv[stack[k].node] = lev[stack[k].node]
      <4>1. \A k \in DOMAIN stack : stack[k].node \in Ids /\ heap[stack[k].node].kind # "unused"
        BY <3>2 DEF Frames, Parsing, Parsed, IsSec
      <4> QED
        BY <2>15, <4>1 DEF Joins, Like
    <3>4. Waits(stack, stack')
      BY <2>19, <3>1 DEF Waits
    <3>5. Working(heap, lev, dropped, stack)
      BY DEF Reading
    <3>6. Call(heap', lv, dropped', stack'[Len(stack')])
      BY <2>19, <2>21
    <3>7. \A k \in DOMAIN stack' : k # Len(stack') => stack[k].fn = "parse"
      BY <3>1, <3>2
    <3>8. \A k \in DOMAIN stack' : k # Len(stack') => lv[stack[k].node] = lev[stack[k].node]
      BY <3>1, <3>3
    <3>9. Array(stack')
      BY <2>19
    <3> QED
      BY ONLY <3>4, <3>5, <3>6, <3>7, <3>8, <3>9, CallersNext
  <2>23. lv[root] = 1
    <3>1. heap[root].kind # "unused"
      BY DEF Parsing
    <3> QED
      BY <2>15, <2>18, <3>1 DEF Joins, Like
  <2>24. Reading(heap', said', lv, dropped', root', stack')
    BY <2>10, <2>20, <2>22, <2>23 DEF Reading
  <2> QED
    BY <2>10, <2>15, <2>20, <2>24 DEF Loading
<1> QED
  BY <1>1, <1>2, DeclareCases, Zenon

Begins(f, node, level, nopts, fresh) ==
  /\ f.node = node /\ f.level = level /\ f.def = 1 /\ f.nopts = nopts /\ ~f.grown
  /\ f.fresh <=> fresh

(* What a call of vt_config_defaults starts with.                          *)
LEMMA DefaultsFrameHas ==
  ASSUME NEW node, NEW level, NEW nopts, NEW fresh
  PROVE  Begins(DefaultsFrame(node, level, nopts, fresh), node, level, nopts, fresh)
<1>1. LET f == DefaultsFrame(node, level, nopts, fresh) IN
      f.node = node /\ f.level = level /\ f.def = 1 /\ f.nopts = nopts /\ ~f.grown
  BY DEF DefaultsFrame
<1>2. DefaultsFrame(node, level, nopts, fresh).fresh = fresh
  BY Zenon DEF DefaultsFrame
<1> QED
  BY <1>1, <1>2, Zenon DEF Begins

(* It starts at the first definition, with the entries of the file.        *)
LEMMA AtStart ==
  ASSUME NEW h, Heap(h), NEW node \in Ids, NEW lev, lev[node] \in DOMAIN Schema, NEW sd,
         Len(sd[node]) = Len(h[node].opts), NEW F, node \notin F,
         NEW f, f.node = node, f.level = lev[node], f.def = 1, f.nopts = Len(h[node].opts), ~f.grown,
         f.fresh => f.nopts = 0
  PROVE  At(h, sd, lev, F, f)
<1>1. Len(Schema[lev[node]]) \in Nat
  BY LevelsAre
<1>2. 1 \in 1..(Len(Schema[lev[node]]) + 1) /\ 1..(1 - 1) = {}
  BY <1>1
<1>3. Len(h[node].opts) \in Nat /\ DOMAIN h[node].opts = 1..Len(h[node].opts)
  BY DEF Heap, IsNode, Array
<1>4. \A j \in DOMAIN h[node].opts : ~(j > f.nopts)
  <2> DEFINE m == Len(h[node].opts)
  <2>1. m \in Nat /\ DOMAIN h[node].opts = 1..m /\ f.nopts = m
    BY <1>3
  <2> HIDE DEF m
  <2> QED
    BY <2>1
<1>5. Started(sd, lev, F, f)
  BY <1>2 DEF Started
<1>6. Sofar(h, F, f)
  BY <1>2, <1>4 DEF Sofar
<1> QED
  BY <1>5, <1>6 DEF At

(* The end of the file.                                                    *)
LEMMA EndKnown ==
  ASSUME Heap(heap), root \in Ids, Frames(stack), Parsing(heap, root, stack), Top.fn = "parse",
         SaidIs(heap, said), NEW lev \in Levels, Reading(heap, said, lev, dropped, root, stack),
         phase' = "defaults", stack' = <<Defaults(root, 1)>>, UNCHANGED tree
  PROVE  Loading'
<1> DEFINE f == DefaultsFrame(root, 1, Len(heap[root].opts), FALSE)
<1>1. Begins(f, root, 1, Len(heap[root].opts), FALSE)
  BY DefaultsFrameHas
<1>2. stack' = <<f>>
  BY Zenon DEF Defaults, Opts
<1> HIDE DEF f
<1>3. DOMAIN stack' = {1} /\ stack'[1] = f
  BY <1>2, OneIs
<1>4. Len(said[root]) = Len(heap[root].opts)
  BY DEF Reading, NoMore, Parsing, IsSec
<1>5. lev[root] = 1 /\ 1 \in DOMAIN Schema
  BY LevelsAre DEF Reading
<1>6. At(heap, said, lev, {}, f)
  BY <1>1, <1>4, <1>5, AtStart DEF Begins
<1>7. Legal(heap, said, lev, dropped, {})
  <2>1. Open(stack) = {}
    BY DEF Open, Top
  <2> QED
    BY <2>1 DEF Reading
<1>8. Good(heap, lev, {}) /\ Upward(heap, {}, stack') /\ Touched(heap, said, {}, stack')
  BY DEF Good, Upward, Touched, Reading, NoMore
<1>9. Running(heap, said, lev, {}, stack')
  BY <1>3, <1>6 DEF Running
<1>10. Filling(heap, said, lev, dropped, {}, root, stack')
  BY <1>5, <1>7, <1>8, <1>9 DEF Filling
<1>11. {} \in SUBSET Ids /\ heap' = heap /\ said' = said /\ dropped' = dropped /\ root' = root
  BY DEF tree
<1> QED
  BY <1>10, <1>11 DEF Loading

(* A token for vt_config_parse.                                            *)
LEMMA ParseKnown ==
  ASSUME Heap(heap), root \in Ids, Frames(stack), Tree(heap, {root}), Parsing(heap, root, stack),
         phase = "parse", NEW t, Parse(t), why' = "none", Loading,
         SaidIs(heap, said), NEW lev \in Levels, Reading(heap, said, lev, dropped, root, stack)
  PROVE  Loading'
<1>1. Top.fn = "parse"
  BY DEF Parse
<1>2. CASE UNCHANGED <<phase, tree, stack>>
  BY <1>2 DEF Loading, tree
<1>3. CASE /\ heap[Top.node].kind = "file" /\ phase' = "defaults"
           /\ stack' = <<Defaults(root, 1)>> /\ UNCHANGED tree
  BY <1>1, <1>3, EndKnown
<1>4. CASE heap[Top.node].kind = "sec" /\ stack' = Pop /\ UNCHANGED <<phase, tree>>
  <2>1. Len(stack) > 1
    BY <1>4, TopIs
  <2>2. heap' = heap /\ said' = said /\ dropped' = dropped /\ root' = root /\ phase' = "parse"
    BY <1>4 DEF tree
  <2>3. Open(stack') = {} /\ Callers(stack') /\ Working(heap', lev, dropped', stack')
    <3>1. Array(stack) /\ Callers(stack) /\ Working(heap, lev, dropped, stack)
      BY DEF Frames, Reading
    <3> QED
      BY <1>4, <2>1, <3>1, CallersPop DEF Pop
  <2>4. Like(heap, heap', lev, lev, Wild)
    BY <2>2, LikeSelf
  <2>5. AllSet(heap, heap', lev, dropped', {})
    <3>1. Legal(heap, said, lev, dropped, {})
      <4>1. Open(stack) = {}
        BY <1>1 DEF Open, Top
      <4> QED
        BY <4>1 DEF Reading
    <3>2. {} \subseteq {}
      OBVIOUS
    <3>3. \A i \in Ids : heap[i].kind # "unused" => heap'[i].vals = heap[i].vals
      BY <2>2
    <3> QED
      BY <2>2, <2>4, <3>1, <3>2, <3>3, AllSetIs
  <2>6. \A i \in Ids : heap[i].kind = "unused" => heap'[i] = heap[i]
    BY <2>2
  <2> QED
    BY <2>2, <2>3, <2>4, <2>5, <2>6, ReadingLike
<1>5. CASE Declare(t.v)
  BY <1>1, <1>5, DeclareKnown
<1>6. CASE Reject
  BY <1>6, LoadingOver DEF Reject
<1> QED
  BY <1>2, <1>3, <1>4, <1>5, <1>6, ParseCases

(* Where only titles change, the options keep their values.                *)
LEMMA SecLikeSet ==
  ASSUME NEW out, Tree(heap, out), NEW lev, NEW sd,
         Like(heap, heap', lev, lev, Wild), \A i \in Ids : heap'[i].vals = heap[i].vals,
         NEW open, open = {}, Legal(heap, sd, lev, dropped, open)
  PROVE  AllSet(heap, heap', lev, dropped, open)
<1>1. open \subseteq open
  OBVIOUS
<1> QED
  BY <1>1, AllSetIs

(* A token for vt_config_parse_sec.                                        *)
LEMMA ParseSecKnown ==
  ASSUME Heap(heap), root \in Ids, Frames(stack), Tree(heap, {root}), Parsing(heap, root, stack),
         phase = "parse", NEW t, ParseSec(t), why' = "none", Loading,
         SaidIs(heap, said), NEW lev \in Levels, Reading(heap, said, lev, dropped, root, stack)
  PROVE  Loading'
<1>1. Top.fn = "sec"
  BY DEF ParseSec
<1>2. /\ Array(stack) /\ Len(stack) \in DOMAIN stack /\ Top = stack[Len(stack)] /\ Top.node \in Ids
      /\ Callers(stack) /\ Working(heap, lev, dropped, stack) /\ IsSec(heap[Top.node])
  BY <1>1, TopIs DEF Top, Frames, Reading, Parsed
<1>3. Open(stack) = {} /\ Legal(heap, said, lev, dropped, {})
  <2>1. Open(stack) = {}
    BY <1>1, <1>2 DEF Open
  <2> QED
    BY <2>1 DEF Reading
<1>4. CASE UNCHANGED <<phase, tree, stack>>
  BY <1>4 DEF Loading, tree
<1>5. CASE stack' = Continue(Frame("parse", Top.node, Def.opts, 0)) /\ UNCHANGED <<phase, tree>>
  <2> DEFINE f == Frame("parse", Top.node, Def.opts, 0)
  <2>1. f.fn = "parse" /\ f.node = Top.node /\ f.level = Def.opts
    BY DEF Frame
  <2>2. stack' = [stack EXCEPT ![Len(stack)] = f]
    BY <1>5, Zenon DEF Continue
  <2>3. heap' = heap /\ said' = said /\ dropped' = dropped /\ root' = root /\ phase' = "parse"
    BY <1>5 DEF tree
  <2> HIDE DEF f
  <2>4. /\ Array(stack') /\ Len(stack') = Len(stack) /\ stack'[Len(stack)] = f
        /\ \A k \in DOMAIN stack : k # Len(stack) => stack'[k] = stack[k]
    <3>1. Len(stack) > 0
      BY DEF Parsing
    <3> QED
      BY <1>2, <2>2, <3>1, SetTopIs
  <2>5. DOMAIN stack' = DOMAIN stack
    BY <1>2, <2>4 DEF Array
  <2>6. lev[f.node] = f.level
    BY <1>1, <1>2, <2>1 DEF Working, Call, Def
  <2>7. Call(heap', lev, dropped', stack'[Len(stack')])
    BY <2>1, <2>4, <2>6 DEF Call
  <2>8. Waits(stack, stack')
    BY <2>4, <2>5 DEF Waits
  <2>9. \A k \in DOMAIN stack' : k # Len(stack') => stack[k].fn = "parse"
    BY <1>2, <2>4, <2>5 DEF Callers
  <2>10. \A k \in DOMAIN stack' : k # Len(stack') => lev[stack[k].node] = lev[stack[k].node]
    OBVIOUS
  <2>11. Callers(stack') /\ Working(heap', lev, dropped', stack')
    BY ONLY <1>2, <2>4, <2>7, <2>8, <2>9, <2>10, CallersNext
  <2>12. Open(stack') = {}
    BY <2>1, <2>4 DEF Open
  <2>13. Like(heap, heap', lev, lev, Wild)
    BY <2>3, LikeSelf
  <2>14. AllSet(heap, heap', lev, dropped', {})
    <3>1. \A i \in Ids : heap'[i].vals = heap[i].vals
      BY <2>3
    <3> QED
      BY <1>3, <2>3, <2>13, <3>1, SecLikeSet
  <2>15. \A i \in Ids : heap[i].kind = "unused" => heap'[i] = heap[i]
    BY <2>3
  <2> QED
    BY <2>3, <2>11, <2>12, <2>13, <2>14, <2>15, ReadingLike
<1>6. CASE /\ heap' = [heap EXCEPT ![Top.node].title = t.v]
           /\ UNCHANGED <<phase, root, said, dropped, why, stack>>
  <2>1. heap' = WithTitle(heap, Top.node, t.v)
    BY <1>6, Zenon DEF WithTitle
  <2>2. (\A i \in Ids \ {Top.node} : heap'[i] = heap[i]) /\ Titled(heap'[Top.node], heap[Top.node])
    BY <1>2, <2>1, HeapTitle
  <2>3. said' = said /\ dropped' = dropped /\ root' = root /\ phase' = "parse" /\ stack' = stack
    BY <1>6
  <2>4. \A i \in Ids : heap'[i].vals = heap[i].vals /\ heap'[i].opts = heap[i].opts /\ Same(heap'[i], heap[i])
    BY <2>2 DEF Titled, Same
  <2>5. Like(heap, heap', lev, lev, Wild)
    BY <2>4 DEF Like
  <2>6. AllSet(heap, heap', lev, dropped', {})
    BY <1>3, <2>3, <2>4, <2>5, SecLikeSet
  <2>7. \A i \in Ids : heap[i].kind = "unused" => heap'[i] = heap[i]
    BY <1>2, <2>2 DEF IsSec
  <2>8. Working(heap', lev, dropped', stack')
    <3>1. \A k \in DOMAIN stack : stack[k].fn \in {"parse", "sec"}
      BY <1>1, <1>2 DEF Callers
    <3> QED
      BY <1>2, <2>3, <3>1 DEF Working, Call
  <2>9. Callers(stack') /\ Open(stack') = {}
    BY <1>2, <1>3, <2>3
  <2> QED
    BY <2>3, <2>5, <2>6, <2>7, <2>8, <2>9, ReadingLike
<1>7. CASE Reject
  BY <1>7, LoadingOver DEF Reject
<1> QED
  BY <1>4, <1>5, <1>6, <1>7, ParseSecCases, Zenon

\* Enough values for the definition, and not too many
Enough(def, n, dr) == (n.vals = <<>> => dr) /\ ("LIST" \notin def.flags => Len(n.vals) <= 1)

(* The values of an option that is done.                                   *)
LEMMA OptDone ==
  ASSUME NEW h, NEW lev, NEW dr, NEW f, OptCall(h, lev, dr, f),
         NEW n, n.kind = h[f.node].kind, n.name = h[f.node].name, Array(n.vals),
         NEW dr2, Enough(Schema[f.level][f.def], n, dr2),
         NEW s \in Ids, Holds(h, s, f.node), lev[s] \in DOMAIN Schema
  PROVE  HasValues(n, lev[s], dr2)
<1>1. lev[s] = f.level /\ f.def \in DOMAIN Schema[f.level]
      /\ Matches(Schema[f.level][f.def], Schema[f.level][f.def].name, n.name)
  BY DEF OptCall
<1>2. SUFFICES ASSUME NEW d \in DOMAIN Schema[f.level],
                      Matches(Schema[f.level][d], Schema[f.level][d].name, n.name)
               PROVE  Allowed(n, Schema[f.level][d], dr2)
  BY <1>1 DEF HasValues
<1>3. d = f.def
  BY <1>1, <1>2, OneDef
<1>4. Len(n.vals) \in Nat
  BY DEF Array
<1> QED
  BY <1>3, <1>4 DEF Enough, Allowed

(* vt_config_parse_opt goes on with the option, or is done with it.        *)
LEMMA OptKnown ==
  ASSUME Heap(heap), Heap(heap'), root \in Ids, Frames(stack), Tree(heap, {root}), Parsing(heap, root, stack),
         phase = "parse", Top.fn = "opt", UNCHANGED <<phase, root, said>>,
         SaidIs(heap, said), NEW lev \in Levels, Reading(heap, said, lev, dropped, root, stack),
         \A i \in Ids : heap'[i] = heap[i] \/ (i = Top.node /\ Beside(heap'[i], heap[i])), dropped => dropped',
         \/ \E x : /\ stack' = Continue([Top EXCEPT !.expect = x])
                   /\ OptCall(heap', lev, dropped', [Top EXCEPT !.expect = x])
         \/ stack' = Pop /\ Enough(Def, heap'[Top.node], dropped')
  PROVE  Loading'
<1>1. /\ Array(stack) /\ Len(stack) \in DOMAIN stack /\ Top = stack[Len(stack)] /\ Top.node \in Ids
      /\ Callers(stack) /\ Working(heap, lev, dropped, stack) /\ Len(stack) > 1 /\ IsFrame(Top)
  BY TopIs DEF Top, Frames, Reading
<1>2. OptCall(heap, lev, dropped, Top)
  BY <1>1 DEF Working, Call
<1>3. Legal(heap, said, lev, dropped, {Top.node})
  <2>1. Open(stack) = {Top.node}
    BY <1>1 DEF Open
  <2> QED
    BY <2>1 DEF Reading
<1>4. Like(heap, heap', lev, lev, Wild)
  BY DEF Like, Same, Beside
<1>5. \A i \in Ids : heap[i].kind = "unused" => heap'[i] = heap[i]
  BY <1>2 DEF OptCall
<1>6. AllSet(heap, heap', lev, dropped', {Top.node})
  <2>1. SUFFICES ASSUME NEW s \in Ids, IsSec(heap[s]), NEW k \in DOMAIN heap[s].opts, heap[s].opts[k] # Top.node
                 PROVE  HasValues(heap'[heap[s].opts[k]], lev[s], dropped')
    BY DEF AllSet
  <2>2. HasValues(heap[heap[s].opts[k]], lev[s], dropped)
    BY <1>3, <2>1 DEF Legal, Section, Fitting
  <2>3. heap[s].opts[k] \in Ids /\ heap'[heap[s].opts[k]] = heap[heap[s].opts[k]]
    BY <2>1, EntriesUsed
  <2> QED
    BY <2>2, <2>3 DEF HasValues, Allowed
<1>7. CASE \E x : /\ stack' = Continue([Top EXCEPT !.expect = x])
                  /\ OptCall(heap', lev, dropped', [Top EXCEPT !.expect = x])
  <2>1. PICK x : /\ stack' = Continue([Top EXCEPT !.expect = x])
                 /\ OptCall(heap', lev, dropped', [Top EXCEPT !.expect = x])
    BY <1>7
  <2> DEFINE f == [Top EXCEPT !.expect = x]
  <2>2. f.fn = "opt" /\ f.node = Top.node
    BY <1>1, ExpectIs DEF Goes
  <2>3. stack' = [stack EXCEPT ![Len(stack)] = f] /\ OptCall(heap', lev, dropped', f)
    BY <2>1, Zenon DEF Continue
  <2> HIDE DEF f
  <2>4. /\ Array(stack') /\ Len(stack') = Len(stack) /\ stack'[Len(stack)] = f
        /\ \A k \in DOMAIN stack : k # Len(stack) => stack'[k] = stack[k]
    <3>1. Len(stack) > 0
      BY DEF Parsing
    <3> QED
      BY <1>1, <2>3, <3>1, SetTopIs
  <2>5. DOMAIN stack' = DOMAIN stack
    BY <1>1, <2>4 DEF Array
  <2>6. Call(heap', lev, dropped', stack'[Len(stack')])
    BY <2>2, <2>3, <2>4 DEF Call
  <2>7. Waits(stack, stack')
    BY <2>4, <2>5 DEF Waits
  <2>8. \A k \in DOMAIN stack' : k # Len(stack') => stack[k].fn = "parse"
    BY <1>1, <2>4, <2>5 DEF Callers
  <2>9. \A k \in DOMAIN stack' : k # Len(stack') => lev[stack[k].node] = lev[stack[k].node]
    OBVIOUS
  <2>10. Callers(stack') /\ Working(heap', lev, dropped', stack')
    BY ONLY <1>1, <2>4, <2>6, <2>7, <2>8, <2>9, CallersNext
  <2>11. Open(stack') = {Top.node}
    BY <2>2, <2>4 DEF Open
  <2> QED
    BY <1>4, <1>5, <1>6, <2>10, <2>11, ReadingLike
<1>8. CASE stack' = Pop /\ Enough(Def, heap'[Top.node], dropped')
  <2>1. Open(stack') = {} /\ Callers(stack') /\ Working(heap', lev, dropped', stack')
    BY <1>1, <1>8, CallersPop DEF Pop
  <2>2. AllSet(heap, heap', lev, dropped', {})
    <3>1. SUFFICES ASSUME NEW s \in Ids, IsSec(heap[s]), NEW k \in DOMAIN heap[s].opts
                   PROVE  HasValues(heap'[heap[s].opts[k]], lev[s], dropped')
      BY DEF AllSet
    <3>2. CASE heap[s].opts[k] # Top.node
      BY <1>6, <3>1, <3>2 DEF AllSet
    <3>3. CASE heap[s].opts[k] = Top.node
      <4>1. Holds(heap, s, Top.node)
        BY <3>3 DEF Holds
      <4>2. lev[s] \in DOMAIN Schema
        BY DEF Levels
      <4>3. heap'[Top.node].kind = heap[Top.node].kind /\ heap'[Top.node].name = heap[Top.node].name
        BY <1>1 DEF Beside
      <4>4. Array(heap'[Top.node].vals)
        BY <1>1 DEF Heap, IsNode
      <4>5. Enough(Schema[Top.level][Top.def], heap'[Top.node], dropped')
        BY <1>8 DEF Def
      <4> QED
        BY <1>2, <3>3, <4>1, <4>2, <4>3, <4>4, <4>5, OptDone
    <3> QED
      BY <3>2, <3>3
  <2> QED
    BY <1>4, <1>5, <2>1, <2>2, ReadingLike
<1> QED
  BY <1>7, <1>8

\* What a token does to an option and to the calls that run.
LEMMA OptCases ==
  ASSUME NEW t, ParseOpt(t)
  PROVE  \/ stack' = Continue([Top EXCEPT !.expect = "NONE"]) /\ UNCHANGED <<phase, tree>>
         \/ Top.expect = "COMMA" /\ stack' = Pop /\ UNCHANGED <<phase, tree>>
         \/ /\ Store(t.v)
            /\ stack' = IF "LIST" \in Def.flags THEN Continue([Top EXCEPT !.expect = "COMMA"]) ELSE Pop
            /\ UNCHANGED <<phase, root, said, why>>
         \/ Reject
  BY Zenon DEF ParseOpt, HandsBack

(* An option goes on with what it has.                                     *)
LEMMA OptGoes ==
  ASSUME NEW h, NEW lev, NEW dr, NEW f, IsFrame(f), OptCall(h, lev, dr, f),
         NEW g, \A i \in Ids : g[i].opts = h[i].opts,
         g[f.node].kind = h[f.node].kind, g[f.node].name = h[f.node].name,
         NEW dr2, NEW x, x = "COMMA" => g[f.node].vals # <<>> \/ dr2,
         "LIST" \notin Schema[f.level][f.def].flags => g[f.node].vals = <<>>
  PROVE  OptCall(g, lev, dr2, [f EXCEPT !.expect = x])
<1> DEFINE e == [f EXCEPT !.expect = x]
<1>1. e.node = f.node /\ e.level = f.level /\ e.def = f.def /\ e.expect = x
  BY ExpectIs DEF IsFrame, Goes
<1> HIDE DEF e
<1>2. \A s \in Ids : Holds(g, s, f.node) => lev[s] = f.level
  BY DEF OptCall, Holds
<1>3. OptCall(g, lev, dr2, e)
  BY <1>1, <1>2 DEF OptCall
<1> QED
  BY <1>3 DEF e

(* A token for vt_config_parse_opt.                                        *)
LEMMA ParseOptKnown ==
  ASSUME Heap(heap), Heap(heap'), root \in Ids, Frames(stack), Tree(heap, {root}), Parsing(heap, root, stack),
         phase = "parse", NEW t, ParseOpt(t), why' = "none",
         SaidIs(heap, said), NEW lev \in Levels, Reading(heap, said, lev, dropped, root, stack)
  PROVE  Loading'
<1>1. Top.fn = "opt"
  BY DEF ParseOpt
<1>2. IsFrame(Top) /\ Top.node \in Ids /\ OptCall(heap, lev, dropped, Top)
  <2>1. Len(stack) \in DOMAIN stack /\ Top = stack[Len(stack)] /\ Working(heap, lev, dropped, stack)
    BY TopIs DEF Top, Reading
  <2>2. Call(heap, lev, dropped, Top)
    BY <2>1 DEF Working
  <2> QED
    BY <1>1, <2>2, TopIs DEF Call
<1> DEFINE def == Schema[Top.level][Top.def]
<1>3. /\ "LIST" \notin def.flags => heap[Top.node].vals = <<>>
      /\ Top.expect = "COMMA" => heap[Top.node].vals # <<>> \/ dropped
      /\ Def = def
  BY <1>2 DEF OptCall, Def
<1>4. CASE stack' = Continue([Top EXCEPT !.expect = "NONE"]) /\ UNCHANGED <<phase, tree>>
  <2>1. UNCHANGED <<phase, root, said>> /\ heap' = heap /\ dropped' = dropped
    BY <1>4 DEF tree
  <2>2. OptCall(heap', lev, dropped', [Top EXCEPT !.expect = "NONE"])
    BY <1>2, <1>3, <2>1, OptGoes
  <2>3. \E x : /\ stack' = Continue([Top EXCEPT !.expect = x])
               /\ OptCall(heap', lev, dropped', [Top EXCEPT !.expect = x])
    BY <1>4, <2>2
  <2>4. dropped => dropped'
    BY <2>1, Zenon
  <2>5. \A i \in Ids : heap'[i] = heap[i] \/ (i = Top.node /\ Beside(heap'[i], heap[i]))
    BY <2>1, Zenon
  <2> QED
    BY <1>1, <2>1, <2>3, <2>4, <2>5, OptKnown
<1>5. CASE Top.expect = "COMMA" /\ stack' = Pop /\ UNCHANGED <<phase, tree>>
  <2>1. UNCHANGED <<phase, root, said>> /\ heap' = heap /\ dropped' = dropped
    BY <1>5 DEF tree
  <2>2. Enough(Def, heap'[Top.node], dropped')
    <3>1. Len(<<>>) <= 1
      OBVIOUS
    <3> QED
      BY <1>3, <1>5, <2>1, <3>1 DEF Enough
  <2>3. dropped => dropped'
    BY <2>1, Zenon
  <2>4. \A i \in Ids : heap'[i] = heap[i] \/ (i = Top.node /\ Beside(heap'[i], heap[i]))
    BY <2>1, Zenon
  <2> QED
    BY <1>1, <1>5, <2>1, <2>2, <2>3, <2>4, OptKnown
<1>6. CASE /\ Store(t.v)
           /\ stack' = IF "LIST" \in Def.flags THEN Continue([Top EXCEPT !.expect = "COMMA"]) ELSE Pop
           /\ UNCHANGED <<phase, root, said, why>>
  <2> DEFINE n == SetnCmn(heap[Top.node], t.v, -1, {"SET", "APPEND"}).node
  <2>1. IsNode(n) /\ Beside(n, heap[Top.node]) /\ Len(n.vals) = Len(heap[Top.node].vals) + 1
    <3>1. IsNode(heap[Top.node])
      BY <1>2 DEF Heap
    <3>2. ASSUME NEW m, IsNode(m), NEW inst, inst = {"SET", "APPEND"}
          PROVE  LET k == SetnCmn(m, t.v, -1, inst).node IN
                 IsNode(k) /\ Beside(k, m) /\ Len(k.vals) = Len(m.vals) + 1
      BY ONLY <3>2, SetnLonger, Zenon
    <3> QED
      BY <3>1, <3>2, Zenon
  <2> HIDE DEF n
  <2>2. n.vals # <<>> /\ (heap[Top.node].vals = <<>> => Len(n.vals) = 1)
    <3>1. Len(heap[Top.node].vals) \in Nat /\ Len(<<>>) = 0
      BY <1>2, EmptyArray DEF Heap, IsNode, Array
    <3> QED
      BY <2>1, <3>1
  <2>3. /\ \A i \in Ids : heap'[i] = heap[i] \/ (i = Top.node /\ heap'[i] = n)
        /\ heap'[Top.node] = n \/ (dropped' = TRUE /\ heap' = heap)
        /\ dropped => dropped'
    <3>1. \/ heap' = [heap EXCEPT ![Top.node] = n] /\ dropped' = dropped
          \/ heap' = heap /\ dropped' = TRUE
      BY <1>6, Zenon DEF Store, n
    <3>2. \A i \in Ids : [heap EXCEPT ![Top.node] = n][i] = IF i = Top.node THEN n ELSE heap[i]
      BY DEF Heap
    <3>3. dropped => dropped'
      BY <3>1, Zenon
    <3>4. CASE heap' = [heap EXCEPT ![Top.node] = n] /\ dropped' = dropped
      <4>1. \A i \in Ids : heap'[i] = IF i = Top.node THEN n ELSE heap[i]
        BY <3>2, <3>4
      <4> QED
        BY <1>2, <3>3, <4>1, Zenon
    <3>5. CASE heap' = heap /\ dropped' = TRUE
      BY <3>3, <3>5, Zenon
    <3> QED
      BY <3>1, <3>4, <3>5
  <2>4. /\ \A i \in Ids : heap'[i] = heap[i] \/ (i = Top.node /\ Beside(heap'[i], heap[i]))
        /\ \A i \in Ids : heap'[i].opts = heap[i].opts
        /\ heap'[Top.node].kind = heap[Top.node].kind /\ heap'[Top.node].name = heap[Top.node].name
        /\ heap'[Top.node].vals # <<>> \/ dropped'
    BY <1>2, <2>1, <2>2, <2>3 DEF Beside
  <2>5. CASE "LIST" \in Def.flags
    <3>1. stack' = Continue([Top EXCEPT !.expect = "COMMA"])
      BY <1>6, <2>5
    <3>2. OptCall(heap', lev, dropped', [Top EXCEPT !.expect = "COMMA"])
      <4>1. "COMMA" = "COMMA" => heap'[Top.node].vals # <<>> \/ dropped'
        BY <2>4
      <4>2. "LIST" \notin Schema[Top.level][Top.def].flags => heap'[Top.node].vals = <<>>
        BY <1>3, <2>5
      <4> QED
        BY <1>2, <2>4, <4>1, <4>2, OptGoes
    <3> QED
      BY <1>1, <1>6, <2>3, <2>4, <3>1, <3>2, OptKnown
  <2>6. CASE "LIST" \notin Def.flags
    <3>1. stack' = Pop
      BY <1>6, <2>6
    <3>2. Enough(Def, heap'[Top.node], dropped')
      <4>1. heap[Top.node].vals = <<>> /\ Len(<<>>) <= 1
        BY <1>3, <2>6
      <4>2. Len(n.vals) = 1
        BY <2>2, <4>1
      <4>3. Len(n.vals) <= 1
        BY <4>2
      <4> QED
        BY <2>2, <2>3, <4>1, <4>3 DEF Enough
    <3> QED
      BY <1>1, <1>6, <2>3, <2>4, <3>1, <3>2, OptKnown
  <2> QED
    BY <2>5, <2>6
<1>7. CASE Reject
  BY <1>7, LoadingOver DEF Reject
<1> QED
  BY <1>4, <1>5, <1>6, <1>7, OptCases, Zenon

(* A token, or the end of the file.                                        *)
LEMMA ParseStepKnown ==
  ASSUME Heap(heap), Heap(heap'), Shape(phase, heap, root, stack), ParseStep, why' = "none", Loading
  PROVE  Loading'
<1>1. phase = "parse" /\ root \in Ids /\ Frames(stack) /\ Tree(heap, {root}) /\ Parsing(heap, root, stack)
  BY DEF ParseStep, Shape
<1>2. PICK t : Parse(t) \/ ParseSec(t) \/ ParseOpt(t)
  BY Zenon DEF ParseStep
<1>3. SaidIs(heap, said) /\ \E lev \in Levels : Reading(heap, said, lev, dropped, root, stack)
  BY <1>1 DEF Loading
<1>4. PICK lev \in Levels : Reading(heap, said, lev, dropped, root, stack)
  BY <1>3
<1> QED
  BY <1>1, <1>2, <1>3, <1>4, ParseKnown, ParseSecKnown, ParseOptKnown

(***************************************************************************)
(* The defaults are put in                                                 *)
(***************************************************************************)

(* The next definition, without and with an entry that was added.          *)
LEMMA NextHas ==
  ASSUME NEW f, IsFrame(f), NEW m, f.def = m
  PROVE  /\ NextDef(f).level = f.level /\ NextDef(f).def = m + 1 /\ NextDef(f).grown = f.grown
         /\ Added(f).level = f.level /\ Added(f).def = m + 1 /\ Added(f).grown = TRUE
<1>1. \A g, x : IsFrame(g) => [g EXCEPT !.def = x].level = g.level /\ [g EXCEPT !.def = x].def = x
  BY DEF IsFrame
<1>2. \A g, x : IsFrame(g) => [g EXCEPT !.def = x].grown = g.grown
  BY Zenon DEF IsFrame
<1>3. \A g, x : IsFrame(g) => [g EXCEPT !.grown = x].level = g.level /\ [g EXCEPT !.grown = x].def = g.def
  BY DEF IsFrame
<1>4. \A g, x : IsFrame(g) => [g EXCEPT !.grown = x].grown = x
  BY Zenon DEF IsFrame
<1>5. NextDef(f) = [f EXCEPT !.def = m + 1]
  BY Zenon DEF NextDef
<1>6. IsFrame(NextDef(f))
  BY NextIs DEF Goes
<1>7. NextDef(f).level = f.level /\ NextDef(f).def = m + 1
  BY <1>1, <1>5
<1>8. NextDef(f).grown = f.grown
  BY <1>2, <1>5, Zenon
<1>9. Added(f) = [NextDef(f) EXCEPT !.grown = TRUE]
  BY Zenon DEF Added
<1>10. Added(f).level = f.level /\ Added(f).def = m + 1
  BY <1>3, <1>6, <1>7, <1>9
<1>11. Added(f).grown = TRUE
  BY <1>4, <1>6, <1>9, Zenon
<1> QED
  BY <1>7, <1>8, <1>10, <1>11

(* Every call has a node of its own.                                       *)
LEMMA CallsApart ==
  ASSUME NEW h, NEW r, NEW s, Frames(s), Completing(h, r, s), NEW j \in DOMAIN s, NEW k \in DOMAIN s,
         s[j].node = s[k].node
  PROVE  j = k
<1>1. j \in Nat /\ k \in Nat
  BY DEF Frames, Array
<1>2. s[j].node \in Nat /\ s[k].node \in Nat
  BY IdsAssumption DEF Frames
<1>3. ASSUME j < k PROVE FALSE
  BY <1>2, <1>3 DEF Completing, Deeper
<1>4. ASSUME k < j PROVE FALSE
  BY <1>2, <1>4 DEF Completing, Deeper
<1> QED
  BY <1>1, <1>3, <1>4

\* A call as far as it was, or farther
Onward(f, g) == g.node = f.node /\ g.level = f.level /\ f.def \in Int /\ g.def \in Int /\ f.def <= g.def

(* One call more.                                                          *)
LEMMA PushCalls ==
  ASSUME NEW s, Array(s), Len(s) > 0, \A k \in DOMAIN s : s[k].def \in Int, NEW f, NEW F
  PROVE  LET t == Append(s, f) IN
         /\ Array(t) /\ Len(t) > 0 /\ Waits(s, t) /\ Covers(s, t, F)
         /\ Len(t) \in DOMAIN t /\ t[Len(t)] = f /\ t[Len(t) - 1] = s[Len(s)]
         /\ \A k \in DOMAIN s : k \in DOMAIN t /\ t[k] = s[k]
<1> DEFINE t == Append(s, f)
           n == Len(s)
<1>1. Array(t) /\ Len(t) = n + 1 /\ (\A k \in DOMAIN s : t[k] = s[k]) /\ t[n + 1] = f
  BY PushIs
<1>2. n \in Nat /\ n > 0 /\ DOMAIN s = 1..n
  BY DEF Array
<1> HIDE DEF t, n
<1>3. DOMAIN t = 1..(n + 1)
  BY <1>1, <1>2 DEF Array
<1>4. /\ n + 1 \in DOMAIN t /\ n \in DOMAIN s /\ (n + 1) - 1 = n
      /\ \A k \in DOMAIN t : k # n + 1 => k \in DOMAIN s
      /\ \A k \in DOMAIN s : k \in DOMAIN t
  BY <1>2, <1>3
<1>5. Waits(s, t)
  BY <1>1, <1>4 DEF Waits
<1>6. Covers(s, t, F)
  <2>1. \A k \in DOMAIN s : s[k].def <= s[k].def
    OBVIOUS
  <2> QED
    BY <1>1, <1>4, <2>1 DEF Covers
<1>7. t[Len(t) - 1] = s[n] /\ Len(t) > 0
  BY <1>1, <1>2, <1>4
<1> QED
  BY <1>1, <1>4, <1>5, <1>6, <1>7 DEF t, n

(* The innermost goes on.                                                  *)
LEMMA TopCalls ==
  ASSUME NEW s, Array(s), Len(s) > 0, \A k \in DOMAIN s : s[k].def \in Int, NEW f, Onward(s[Len(s)], f), NEW F
  PROVE  LET t == [s EXCEPT ![Len(s)] = f] IN
         /\ Array(t) /\ Len(t) = Len(s) /\ Waits(s, t) /\ Covers(s, t, F)
         /\ Len(t) \in DOMAIN t /\ t[Len(t)] = f
         /\ Len(t) # 1 => t[Len(t) - 1] = s[Len(s) - 1] /\ Len(s) - 1 \in DOMAIN s
<1> DEFINE n == Len(s)
           t == [s EXCEPT ![n] = f]
<1>1. Array(t) /\ Len(t) = n /\ t[n] = f /\ \A k \in DOMAIN s : k # n => t[k] = s[k]
  BY SetTopIs
<1>2. n \in Nat /\ n > 0 /\ DOMAIN s = 1..n /\ Onward(s[n], f)
  BY DEF Array
<1> HIDE DEF t, n
<1>3. DOMAIN t = 1..n
  BY <1>1 DEF Array
<1>4. n \in DOMAIN t /\ (n # 1 => n - 1 \in DOMAIN s /\ n - 1 # n)
  BY <1>2, <1>3
<1>5. Waits(s, t)
  BY <1>1, <1>2, <1>3 DEF Waits
<1>6. Covers(s, t, F)
  <2>1. ASSUME NEW k \in DOMAIN s
        PROVE  \E j \in DOMAIN t : t[j].node = s[k].node /\ t[j].level = s[k].level
                                   /\ s[k].def \in Int /\ t[j].def \in Int /\ s[k].def <= t[j].def
    <3>1. CASE k = n
      BY <1>1, <1>2, <1>4, <3>1 DEF Onward
    <3>2. CASE k # n
      <4>1. s[k].def <= s[k].def
        OBVIOUS
      <4> QED
        BY <1>1, <1>2, <1>3, <3>2, <4>1
    <3> QED
      BY <3>1, <3>2
  <2> QED
    BY <2>1 DEF Covers
<1> QED
  BY <1>1, <1>4, <1>5, <1>6 DEF t, n

(* It returns, and its caller goes on.                                     *)
LEMMA ReturnCalls ==
  ASSUME NEW s, Array(s), Len(s) > 1, \A k \in DOMAIN s : s[k].def \in Int,
         NEW f, Onward(s[Len(s) - 1], f), NEW F, s[Len(s)].node \in F
  PROVE  LET p == SubSeq(s, 1, Len(s) - 1)
             t == [p EXCEPT ![Len(p)] = f]
         IN  /\ Array(t) /\ Len(t) > 0 /\ Len(t) = Len(s) - 1 /\ Waits(s, t) /\ Covers(s, t, F)
             /\ Len(t) \in DOMAIN t /\ t[Len(t)] = f
             /\ Len(t) # 1 => t[Len(t) - 1] = s[Len(t) - 1] /\ Len(t) - 1 \in DOMAIN s
<1> DEFINE n == Len(s) - 1
           p == SubSeq(s, 1, n)
           t == [p EXCEPT ![Len(p)] = f]
<1>1. Len(s) \in Nat /\ n \in Nat /\ n > 0 /\ Len(s) = n + 1 /\ DOMAIN s = 1..(n + 1)
  BY DEF Array
<1>2. Array(p) /\ Len(p) = n /\ \A k \in DOMAIN p : k \in DOMAIN s /\ p[k] = s[k]
  BY <1>1, PopIs
<1>3. s[n + 1].node \in F /\ Onward(s[n], f)
  BY <1>1
<1> HIDE DEF n, p
<1>4. Array(t) /\ Len(t) = n /\ t[n] = f /\ \A k \in DOMAIN p : k # n => t[k] = p[k]
  BY <1>1, <1>2, SetTopIs
<1> HIDE DEF t
<1>5. DOMAIN p = 1..n /\ DOMAIN t = 1..n
  BY <1>2, <1>4 DEF Array
<1>6. n \in DOMAIN t /\ (n # 1 => n - 1 \in DOMAIN p /\ n - 1 # n)
  BY <1>1, <1>5
<1>7. Waits(s, t)
  BY <1>2, <1>4, <1>5 DEF Waits
<1>8. Covers(s, t, F)
  <2>1. SUFFICES ASSUME NEW k \in DOMAIN s, k # n + 1
                 PROVE  \E j \in DOMAIN t : t[j].node = s[k].node /\ t[j].level = s[k].level
                                   /\ s[k].def \in Int /\ t[j].def \in Int /\ s[k].def <= t[j].def
    BY <1>3 DEF Covers
  <2>2. CASE k = n
    BY <1>3, <1>4, <1>6, <2>2 DEF Onward
  <2>3. CASE k # n
    <3>1. k \in DOMAIN p
      BY <1>1, <1>5, <2>1
    <3>2. s[k].def <= s[k].def
      OBVIOUS
    <3> QED
      BY <1>2, <1>4, <1>5, <2>3, <3>1, <3>2
  <2> QED
    BY <2>2, <2>3
<1>9. n # 1 => t[n - 1] = s[n - 1] /\ n - 1 \in DOMAIN s
  BY <1>2, <1>4, <1>6
<1> QED
  BY <1>1, <1>4, <1>6, <1>7, <1>8, <1>9 DEF t, p, n

(* A definition has not seen what it names itself.                         *)
LEMMA NotSeen ==
  ASSUME NEW l \in DOMAIN Schema, NEW d \in DOMAIN Schema[l], NEW name,
         Matches(Schema[l][d], Schema[l][d].name, name)
  PROVE  ~Seen(l, d, name)
<1>1. SUFFICES ASSUME NEW e \in 1..(d - 1), Matches(Schema[l][e], Schema[l][e].name, name) PROVE FALSE
  BY DEF Seen
<1>2. DOMAIN Schema[l] = 1..Len(Schema[l]) /\ Len(Schema[l]) \in Nat
  BY LevelsAre
<1>3. e \in DOMAIN Schema[l] /\ e # d
  BY <1>2
<1> QED
  BY <1>1, <1>3, OneDef

(* Where a call of vt_config_defaults is.                                  *)
LEMMA CallIs ==
  ASSUME root \in Ids, Frames(stack), Completing(heap, root, stack),
         NEW lev \in Levels, NEW F, Filling(heap, said, lev, dropped, F, root, stack),
         NEW k \in DOMAIN stack
  PROVE  LET f == stack[k] IN
         /\ IsFrame(f) /\ f.node \in Ids /\ IsSec(heap[f.node]) /\ f.node \notin F /\ At(heap, said, lev, F, f)
         /\ lev[f.node] = f.level /\ f.level \in DOMAIN Schema
         /\ Len(Schema[f.level]) \in Nat /\ DOMAIN Schema[f.level] = 1..Len(Schema[f.level])
         /\ f.def \in Int /\ f.def \in 1..(Len(Schema[f.level]) + 1)
         /\ f.nopts \in Nat /\ f.nopts <= Len(heap[f.node].opts)
         /\ Section(heap, said, lev, dropped, {}, f.node)
<1> DEFINE f == stack[k]
<1>1. IsFrame(f) /\ f.node \in Ids /\ Completed(heap, f) /\ At(heap, said, lev, F, f)
  BY DEF Frames, Completing, Filling, Running
<1> HIDE DEF f
<1>2. /\ lev[f.node] = f.level /\ f.node \notin F /\ f.def \in 1..(Len(Schema[f.level]) + 1)
  BY <1>1 DEF At, Started
<1>3. f.level \in DOMAIN Schema
  BY <1>1, <1>2 DEF Levels
<1>4. Len(Schema[f.level]) \in Nat /\ DOMAIN Schema[f.level] = 1..Len(Schema[f.level])
  BY <1>3, LevelsAre
<1>5. f.def \in Int
  BY <1>2, <1>4
<1>6. Section(heap, said, lev, dropped, {}, f.node)
  BY <1>1 DEF Completed, Filling, Legal
<1> QED
  BY <1>1, <1>2, <1>3, <1>4, <1>5, <1>6 DEF Completed, f

(* Of the entries it found and of those it added, a definition names the   *)
(* ones it found.                                                          *)
LEMMA PresentIs ==
  ASSUME Heap(heap), root \in Ids, Frames(stack), Completing(heap, root, stack),
         NEW lev \in Levels, NEW F, Filling(heap, said, lev, dropped, F, root, stack), AtDef
  PROVE  /\ Len(stack) \in DOMAIN stack /\ Len(stack) > 0 /\ Top = stack[Len(stack)]
         /\ Top.def \in DOMAIN Schema[Top.level] /\ Def = Schema[Top.level][Top.def]
         /\ Present(Def) = Hits(heap, Top.node, Def) /\ Hits(heap, Top.node, Def) \subseteq 1..Top.nopts
<1>1. Len(stack) \in DOMAIN stack /\ Len(stack) > 0 /\ Top = stack[Len(stack)]
  BY LevelIs
<1> DEFINE f == Top
           opts == heap[f.node].opts
<1>2. /\ f.node \in Ids /\ f.level \in DOMAIN Schema /\ At(heap, said, lev, F, f)
      /\ Len(Schema[f.level]) \in Nat /\ DOMAIN Schema[f.level] = 1..Len(Schema[f.level])
      /\ f.def \in 1..(Len(Schema[f.level]) + 1) /\ f.nopts \in Nat /\ f.nopts <= Len(opts)
  BY <1>1, CallIs
<1>3. f.def \in DOMAIN Schema[f.level] /\ Def = Schema[f.level][f.def]
  BY <1>2 DEF AtDef, Def
<1>4. Len(opts) \in Nat /\ DOMAIN opts = 1..Len(opts)
  BY <1>2 DEF Heap, IsNode, Array
<1>5. Present(Def) \subseteq Hits(heap, f.node, Def)
  <2>1. 1..f.nopts \subseteq DOMAIN opts
    BY <1>2, <1>4
  <2> QED
    BY <2>1 DEF Present, Hits, Opts
<1>6. ASSUME NEW j \in Hits(heap, f.node, Def) PROVE j \in Present(Def) /\ j \in 1..f.nopts
  <2>1. j \in DOMAIN opts /\ Matches(Def, Def.name, heap[opts[j]].name)
    BY <1>6 DEF Hits
  <2>2. ~Seen(f.level, f.def, heap[opts[j]].name)
    BY <1>2, <1>3, <2>1, NotSeen
  <2>3. ~(j > f.nopts)
    BY <1>2, <2>1, <2>2 DEF At, Sofar
  <2>4. j \in 1..f.nopts
    <3> DEFINE m == Len(opts)
    <3>1. m \in Nat /\ j \in 1..m /\ f.nopts \in Nat
      BY <1>2, <1>4, <2>1
    <3> HIDE DEF m
    <3> QED
      BY <2>3, <3>1
  <2> QED
    BY <2>1, <2>4 DEF Present, Opts
<1>7. Present(Def) = Hits(heap, f.node, Def)
  BY <1>5, <1>6
<1> QED
  BY <1>1, <1>3, <1>6, <1>7

(* A section that is looked into next has what the file said, and is not   *)
(* done yet.                                                               *)
LEMMA NextSection ==
  ASSUME Heap(heap), root \in Ids, Frames(stack), Tree(heap, {root} \cup Hands(stack)),
         Completing(heap, root, stack),
         NEW lev \in Levels, NEW F, Filling(heap, said, lev, dropped, F, root, stack), AtDef,
         NEW k \in Hits(heap, Top.node, Def), NEW e, e = heap[Top.node].opts[k]
  PROVE  /\ e \in Ids /\ Top.node < e /\ heap[e].kind = Def.type
         /\ IsSec(heap[e]) => /\ Def.type = "sec" /\ lev[e] = Def.opts /\ e \notin F
                              /\ Len(said[e]) = Len(heap[e].opts)
<1>1. /\ Len(stack) \in DOMAIN stack /\ Top = stack[Len(stack)]
      /\ Top.def \in DOMAIN Schema[Top.level] /\ Def = Schema[Top.level][Top.def]
  BY PresentIs
<1>2. /\ Top.node \in Ids /\ lev[Top.node] = Top.level /\ Top.level \in DOMAIN Schema /\ Top.node \notin F
      /\ Section(heap, said, lev, dropped, {}, Top.node) /\ IsSec(heap[Top.node])
  BY <1>1, CallIs
<1>3. k \in DOMAIN heap[Top.node].opts /\ Matches(Def, Def.name, heap[e].name)
  BY DEF Hits
<1>4. e \in Ids /\ Top.node < e
  BY <1>2, <1>3, IdsAssumption DEF Tree, Rising
<1>5. Typed(heap[e], Top.level, lev[e])
  BY <1>2, <1>3 DEF Section, Fitting
<1>6. /\ heap[e].kind = Def.type
      /\ heap[e].kind = "sec" => lev[e] = Def.opts
  BY <1>1, <1>2, <1>3, <1>5, TypedBy
<1>7. IsSec(heap[e]) => heap[e].kind = "sec"
  BY <1>1, <1>2, <1>6, LevelsAre DEF IsSec
<1>8. e \notin F
  <2>1. SUFFICES ASSUME e \in F PROVE FALSE
    OBVIOUS
  <2>2. Holds(heap, Top.node, e) /\ Upward(heap, F, stack)
    BY <1>3 DEF Holds, Filling
  <2>3. PICK j \in DOMAIN stack : stack[j].node = Top.node /\ Seen(stack[j].level, stack[j].def, heap[e].name)
    BY <1>2, <2>1, <2>2 DEF Upward
  <2>4. j = Len(stack)
    BY <1>1, <2>3, CallsApart
  <2>5. Seen(Top.level, Top.def, heap[e].name)
    BY <1>1, <2>3, <2>4
  <2> QED
    BY <1>1, <1>2, <1>3, <2>5, NotSeen
<1>9. IsSec(heap[e]) => Len(said[e]) = Len(heap[e].opts)
  <2>1. SUFFICES ASSUME IsSec(heap[e]), Len(said[e]) # Len(heap[e].opts) PROVE FALSE
    OBVIOUS
  <2>2. PICK j \in DOMAIN stack : stack[j].node = e
    BY <1>4, <1>8, <2>1 DEF Filling, Touched
  <2>3. j \in Nat /\ Len(stack) \in Nat /\ j \in 1..Len(stack)
    BY DEF Frames, Array
  <2>4. j = Len(stack) \/ j < Len(stack)
    BY <2>3
  <2>5. stack[j].node = Top.node \/ stack[j].node < Top.node
    BY <1>1, <2>4 DEF Completing, Deeper
  <2>6. e \in Nat /\ Top.node \in Nat /\ Top.node < e
    BY <1>2, <1>4, IdsAssumption
  <2>7. e = Top.node \/ e < Top.node
    BY <2>2, <2>5
  <2> QED
    BY <2>6, <2>7
<1> QED
  BY <1>4, <1>6, <1>7, <1>8, <1>9

(* A definition that is dealt with: the next one.                          *)
LEMMA AtNext ==
  ASSUME NEW h, NEW sd, NEW lev, NEW F, NEW f, IsFrame(f), f.def \in Int,
         f.def \in DOMAIN Schema[f.level], Len(Schema[f.level]) \in Nat,
         DOMAIN Schema[f.level] = 1..Len(Schema[f.level]),
         Started(sd, lev, F, f), f.grown => Len(h[f.node].opts) > f.nopts,
         \A d \in 1..f.def : Got(h, F, f.node, Schema[f.level][d]),
         \A j \in DOMAIN h[f.node].opts : j > f.nopts => Seen(f.level, f.def + 1, h[h[f.node].opts[j]].name)
  PROVE  /\ At(h, sd, lev, F, NextDef(f)) /\ Onward(f, NextDef(f))
         /\ Len(h[f.node].opts) > f.nopts => At(h, sd, lev, F, Added(f)) /\ Onward(f, Added(f))
<1> DEFINE m == f.def
<1>1. ASSUME NEW g, Goes(f, g), g.level = f.level, g.def = m + 1, g.grown => Len(h[f.node].opts) > f.nopts
      PROVE  At(h, sd, lev, F, g) /\ Onward(f, g)
  <2>1. g.node = f.node /\ g.nopts = f.nopts /\ (g.fresh <=> f.fresh)
    BY <1>1 DEF Goes
  <2>2. m + 1 \in 1..(Len(Schema[f.level]) + 1) /\ (m + 1) - 1 = m /\ m <= m + 1 /\ m + 1 \in Int
    OBVIOUS
  <2>3. Started(sd, lev, F, g)
    BY <1>1, <2>1, <2>2 DEF Started
  <2>4. Sofar(h, F, g)
    <3>1. \A d \in 1..(g.def - 1) : Got(h, F, g.node, Schema[g.level][d])
      BY <1>1, <2>1, <2>2
    <3>2. \A j \in DOMAIN h[g.node].opts : j > g.nopts => Seen(g.level, g.def, h[h[g.node].opts[j]].name)
      BY <1>1, <2>1
    <3> QED
      BY <1>1, <2>1, <3>1, <3>2 DEF Sofar
  <2> QED
    BY <1>1, <2>1, <2>2, <2>3, <2>4 DEF At, Onward
<1>2. Goes(f, NextDef(f)) /\ Goes(f, Added(f))
  BY NextIs
<1>3. /\ NextDef(f).level = f.level /\ NextDef(f).def = m + 1 /\ (NextDef(f).grown <=> f.grown)
      /\ Added(f).level = f.level /\ Added(f).def = m + 1
  BY NextHas
<1> QED
  BY <1>1, <1>2, <1>3

(* What Sofar says of the definitions before, and of this one.             *)
LEMMA SofarNext ==
  ASSUME NEW h, NEW sd, NEW lev, NEW F, NEW f, At(h, sd, lev, F, f), f.def \in Int,
         Got(h, F, f.node, Schema[f.level][f.def])
  PROVE  /\ \A d \in 1..f.def : Got(h, F, f.node, Schema[f.level][d])
         /\ \A j \in DOMAIN h[f.node].opts : j > f.nopts => Seen(f.level, f.def + 1, h[h[f.node].opts[j]].name)
<1>1. \A d \in 1..f.def : d = f.def \/ d \in 1..(f.def - 1)
  BY DEF At, Started
<1>2. \A d \in 1..f.def : Got(h, F, f.node, Schema[f.level][d])
  BY <1>1 DEF At, Sofar
<1>3. f.def <= f.def + 1 /\ f.def + 1 \in Int
  OBVIOUS
<1>4. \A name : Seen(f.level, f.def, name) => Seen(f.level, f.def + 1, name)
  BY <1>3, SeenMore
<1> QED
  BY <1>2, <1>4 DEF At, Sofar

(* A call made the one that goes on, too.                                  *)
LEMMA UnderSame ==
  ASSUME NEW h, NEW lev, NEW f, NEW a, NEW b, Under(h, lev, f, a), b.node = a.node, b.fresh <=> a.fresh
  PROVE  Under(h, lev, f, b)
  BY DEF Under

(* The first of some places of an array.                                   *)
LEMMA FirstIn ==
  ASSUME NEW m \in Nat, NEW S, S # {}, S \subseteq 1..m
  PROVE  First(S) \in S /\ First(S) <= m /\ \A n \in S : First(S) <= n
<1>1. S \subseteq Nat /\ \A n \in S : n <= m
  OBVIOUS
<1> QED
  BY <1>1, FirstLeast

(* An entry of the file: a section is looked into.                         *)
LEMMA IntoSection ==
  ASSUME Heap(heap), root \in Ids, Frames(stack), Tree(heap, {root} \cup Hands(stack)),
         Completing(heap, root, stack),
         NEW lev \in Levels, NEW F, Filling(heap, said, lev, dropped, F, root, stack), AtDef,
         Hits(heap, Top.node, Def) # {},
         NEW e, e = heap[Top.node].opts[First(Hits(heap, Top.node, Def))], IsSec(heap[e]),
         NEW f, Begins(f, e, Def.opts, Len(heap[e].opts), FALSE), NEW t, t = Append(stack, f)
  PROVE  Filling(heap, said, lev, dropped, F, root, t)
<1> DEFINE H == Hits(heap, Top.node, Def)
<1>1. /\ Array(stack) /\ Len(stack) \in DOMAIN stack /\ Len(stack) > 0 /\ Top = stack[Len(stack)]
      /\ Top.def \in DOMAIN Schema[Top.level] /\ Def = Schema[Top.level][Top.def]
      /\ H \subseteq 1..Top.nopts
  BY PresentIs DEF Frames
<1>2. /\ Top.node \in Ids /\ Top.nopts \in Nat
      /\ Len(Schema[Top.level]) \in Nat /\ DOMAIN Schema[Top.level] = 1..Len(Schema[Top.level])
      /\ \A k \in DOMAIN stack : stack[k].def \in Int /\ stack[k].node \notin F
  BY <1>1, CallIs
<1>3. First(H) \in H /\ First(H) <= Top.nopts
  BY <1>1, <1>2, FirstIn
<1>4. e \in Ids /\ Def.type = "sec" /\ lev[e] = Def.opts /\ e \notin F /\ Len(said[e]) = Len(heap[e].opts)
  BY <1>3, NextSection
<1>5. At(heap, said, lev, F, f)
  <2>1. lev[e] \in DOMAIN Schema
    BY <1>4 DEF Levels
  <2> QED
    BY <1>4, <2>1, AtStart DEF Begins
<1>6. Under(heap, lev, Top, f)
  <2>1. Top.def <= Len(Schema[Top.level])
    BY DEF AtDef
  <2> QED
    BY <1>1, <1>3, <1>4, <2>1 DEF Under, Begins
<1> HIDE DEF H
<1>7. /\ Array(t) /\ Len(t) > 0 /\ Waits(stack, t) /\ Covers(stack, t, F) /\ t[Len(t)] = f
      /\ t[Len(t) - 1] = Top
  BY <1>1, <1>2, PushCalls
<1>8. Others(t, Wild, F)
  <2>1. \A k \in DOMAIN t : k # Len(t) => k \in DOMAIN stack /\ t[k] = stack[k]
    BY <1>7 DEF Waits
  <2>2. \A k \in DOMAIN stack : stack[k].node \in Ids
    BY DEF Frames
  <2> QED
    BY <1>2, <2>1, <2>2, IdsAssumption DEF Others
<1>9. Running(heap, said, lev, F, t)
  <2>1. Like(heap, heap, lev, lev, Wild) /\ F \subseteq F
    BY LikeSelf
  <2>2. Running(heap, said, lev, F, stack)
    BY DEF Filling
  <2> QED
    BY <1>5, <1>6, <1>7, <1>8, <2>1, <2>2, CallsLike
<1>10. Upward(heap, F, t) /\ Touched(heap, said, F, t)
  <2>1. F \subseteq F /\ F \ F = {} /\ Upward(heap, F, stack) /\ Touched(heap, said, F, stack)
    BY DEF Filling
  <2> QED
    BY <1>7, <2>1, UpwardMore, TouchedMore
<1> QED
  BY <1>9, <1>10 DEF Filling

(* ... and an option is passed over.                                       *)
LEMMA PastOption ==
  ASSUME Heap(heap), root \in Ids, Frames(stack), Tree(heap, {root} \cup Hands(stack)),
         Completing(heap, root, stack),
         NEW lev \in Levels, NEW F, Filling(heap, said, lev, dropped, F, root, stack), AtDef,
         Hits(heap, Top.node, Def) # {},
         NEW e, e = heap[Top.node].opts[First(Hits(heap, Top.node, Def))], ~IsSec(heap[e]),
         NEW t, t = Continue(NextDef(Top))
  PROVE  Filling(heap, said, lev, dropped, F, root, t)
<1> DEFINE H == Hits(heap, Top.node, Def)
           f == NextDef(Top)
           m == Top.def
<1>1. /\ Array(stack) /\ Len(stack) \in DOMAIN stack /\ Len(stack) > 0 /\ Top = stack[Len(stack)]
      /\ Top.def \in DOMAIN Schema[Top.level] /\ Def = Schema[Top.level][Top.def]
      /\ H \subseteq 1..Top.nopts
  BY PresentIs DEF Frames
<1>2. /\ Top.node \in Ids /\ Top.nopts \in Nat /\ IsFrame(Top) /\ At(heap, said, lev, F, Top)
      /\ Len(Schema[Top.level]) \in Nat /\ DOMAIN Schema[Top.level] = 1..Len(Schema[Top.level])
      /\ \A k \in DOMAIN stack : stack[k].def \in Int /\ stack[k].node \notin F
  BY <1>1, CallIs
<1>3. First(H) \in H /\ First(H) <= Top.nopts
  BY <1>1, <1>2, FirstIn
<1>4. Def.type # "sec"
  <2>1. heap[e].kind = Def.type
    BY <1>3, NextSection
  <2> QED
    BY <2>1 DEF IsSec
<1>5. Got(heap, F, Top.node, Schema[Top.level][Top.def])
  BY <1>1, <1>4 DEF Got
<1> HIDE DEF H
<1>6. At(heap, said, lev, F, f) /\ Onward(Top, f)
  <2>1. /\ \A d \in 1..m : Got(heap, F, Top.node, Schema[Top.level][d])
        /\ \A j \in DOMAIN heap[Top.node].opts :
             j > Top.nopts => Seen(Top.level, m + 1, heap[heap[Top.node].opts[j]].name)
    BY <1>1, <1>2, <1>5, SofarNext
  <2>2. Started(said, lev, F, Top) /\ (Top.grown => Len(heap[Top.node].opts) > Top.nopts)
    BY <1>2 DEF At, Sofar
  <2> QED
    BY <1>1, <1>2, <2>1, <2>2, AtNext
<1>7. t = [stack EXCEPT ![Len(stack)] = f] /\ (f.fresh <=> Top.fresh) /\ f.node = Top.node
  <2>1. t = [stack EXCEPT ![Len(stack)] = f]
    BY Zenon DEF Continue
  <2>2. (f.fresh <=> Top.fresh) /\ f.node = Top.node
    BY <1>2, NextIs DEF Goes
  <2> QED
    BY <2>1, <2>2
<1> HIDE DEF f
<1>8. /\ Array(t) /\ Len(t) = Len(stack) /\ Waits(stack, t) /\ Covers(stack, t, F) /\ t[Len(t)] = f
      /\ Len(t) # 1 => t[Len(t) - 1] = stack[Len(stack) - 1] /\ Len(stack) - 1 \in DOMAIN stack
  <2>1. Onward(stack[Len(stack)], f)
    BY <1>1, <1>6
  <2>2. Array(stack) /\ Len(stack) > 0 /\ \A k \in DOMAIN stack : stack[k].def \in Int
    BY <1>1, <1>2
  <2> QED
    BY ONLY <1>7, <2>1, <2>2, TopCalls
<1>9. Len(t) # 1 => Under(heap, lev, t[Len(t) - 1], t[Len(t)])
  <2>1. SUFFICES ASSUME Len(stack) # 1 PROVE Under(heap, lev, stack[Len(stack) - 1], f)
    BY <1>8
  <2>2. Under(heap, lev, stack[Len(stack) - 1], Top)
    BY <1>1, <2>1 DEF Filling, Running
  <2> QED
    BY <1>7, <2>2, UnderSame
<1>10. Others(t, Wild, F)
  <2>1. \A k \in DOMAIN t : k # Len(t) => k \in DOMAIN stack /\ t[k] = stack[k]
    BY <1>8 DEF Waits
  <2>2. \A k \in DOMAIN stack : stack[k].node \in Ids
    BY DEF Frames
  <2> QED
    BY <1>2, <2>1, <2>2, IdsAssumption DEF Others
<1>11. Running(heap, said, lev, F, t)
  <2>1. Like(heap, heap, lev, lev, Wild) /\ F \subseteq F
    BY LikeSelf
  <2>2. Running(heap, said, lev, F, stack)
    BY DEF Filling
  <2> QED
    BY <1>1, <1>6, <1>8, <1>9, <1>10, <2>1, <2>2, CallsLike
<1>12. Upward(heap, F, t) /\ Touched(heap, said, F, t)
  <2>1. F \subseteq F /\ F \ F = {} /\ Upward(heap, F, stack) /\ Touched(heap, said, F, stack)
    BY DEF Filling
  <2> QED
    BY <1>8, <2>1, UpwardMore, TouchedMore
<1> QED
  BY <1>11, <1>12 DEF Filling

(* A definition the file has an entry of.                                  *)
LEMMA PresentKnown ==
  ASSUME Heap(heap), root \in Ids, Frames(stack), Tree(heap, {root} \cup Hands(stack)),
         Completing(heap, root, stack), phase = "defaults", DefaultPresent, SaidIs(heap, said),
         NEW lev \in Levels, NEW F \in SUBSET Ids, Filling(heap, said, lev, dropped, F, root, stack)
  PROVE  Loading'
<1> DEFINE H == Hits(heap, Top.node, Def)
           e == heap[Top.node].opts[First(H)]
<1>1. AtDef
  BY DEF DefaultPresent
<1>2. Present(Def) = H
  BY <1>1, PresentIs
<1>3. /\ H # {} /\ phase' = phase /\ heap' = heap /\ root' = root /\ said' = said /\ dropped' = dropped
      /\ stack' = IF IsSec(heap[e]) THEN Push(Defaults(e, Def.opts)) ELSE Continue(NextDef(Top))
  BY <1>2, Zenon DEF DefaultPresent, inDefaults, Opts
<1>4. Filling(heap, said, lev, dropped, F, root, stack')
  <2>1. CASE IsSec(heap[e])
    <3> DEFINE f == DefaultsFrame(e, Def.opts, Len(heap[e].opts), FALSE)
    <3>1. stack' = Append(stack, f)
      BY <1>3, <2>1, Zenon DEF Push, Defaults, Opts
    <3>2. Begins(f, e, Def.opts, Len(heap[e].opts), FALSE)
      BY DefaultsFrameHas
    <3> HIDE DEF f
    <3> QED
      BY <1>1, <1>3, <2>1, <3>1, <3>2, IntoSection
  <2>2. CASE ~IsSec(heap[e])
    <3>1. stack' = Continue(NextDef(Top))
      BY <1>3, <2>2
    <3> QED
      BY <1>1, <1>3, <2>2, <3>1, PastOption
  <2> QED
    BY <2>1, <2>2
<1> QED
  BY <1>3, <1>4 DEF Loading

(* What a section that was not in the file is made with.                   *)
LEMMA SecNodeHas ==
  ASSUME NEW name, NEW flags
  PROVE  LET n == SecNode(name, flags) IN n.name = name /\ n.flags = flags /\ n.kind = "sec" /\ n.opts = <<>>
  BY DEF SecNode, Node

(* It is filled before it is put in.                                       *)
LEMMA FreshSection ==
  ASSUME Heap(heap), root \in Ids, Frames(stack), Tree(heap, {root} \cup Hands(stack)),
         Completing(heap, root, stack), SaidIs(heap, said),
         NEW lev \in Levels, NEW F \in SUBSET Ids, Filling(heap, said, lev, dropped, F, root, stack), AtDef,
         Hits(heap, Top.node, Def) = {}, Def.type = "sec", FreeIds(heap) # {},
         NEW n, IsNode(n), n.kind = "sec", n.opts = <<>>, n.name = Def.name, "NODEFAULT" \notin n.flags,
         NEW f, Begins(f, NewId(heap), Def.opts, 0, TRUE), NEW t, t = Append(stack, f),
         NEW lv, lv = [lev EXCEPT ![NewId(heap)] = Def.opts]
  PROVE  /\ lv \in Levels /\ SaidIs(WithNew(heap, n), said)
         /\ Filling(WithNew(heap, n), said, lv, dropped, F, root, t)
<1> DEFINE id == NewId(heap)
           g == WithNew(heap, n)
           out == {root} \cup Hands(stack)
<1>1. /\ Array(stack) /\ Len(stack) \in DOMAIN stack /\ Len(stack) > 0 /\ Top = stack[Len(stack)]
      /\ Top.def \in DOMAIN Schema[Top.level] /\ Def = Schema[Top.level][Top.def]
  BY PresentIs DEF Frames
<1>2. /\ Top.node \in Ids /\ IsSec(heap[Top.node]) /\ Top.level \in DOMAIN Schema
      /\ \A k \in DOMAIN stack : stack[k].def \in Int /\ stack[k].node \notin F
                                 /\ stack[k].node \in Ids /\ IsSec(heap[stack[k].node])
  BY <1>1, CallIs
<1>3. Def.opts \in DOMAIN Schema
  BY <1>1, <1>2, LevelsAre
<1>4. Tree(heap, out)
  OBVIOUS
<1>5. /\ id \in Ids /\ heap[id].kind = "unused" /\ g[id] = n /\ lv \in Levels /\ lv[id] = Def.opts
      /\ \A i \in Ids : i # id => g[i] = heap[i] /\ lv[i] = lev[i]
      /\ Like(heap, g, lev, lv, id)
      /\ \A i \in Ids : heap[i].kind = "unused" => g[i].opts = <<>>
  <2>1. IsLive(n)
    BY DEF IsLive, IsSec
  <2> DEFINE l == Def.opts
             x == [lev EXCEPT ![id] = l]
  <2>2. Heap(heap) /\ l \in DOMAIN Schema /\ lev \in Levels /\ FreeIds(heap) # {} /\ IsNode(n) /\ n.opts = <<>>
    BY <1>3
  <2> HIDE DEF l
  <2>3. /\ id \in Ids /\ heap[id].kind = "unused" /\ g[id] = n /\ x \in Levels /\ x[id] = l
        /\ \A i \in Ids : i # id => g[i] = heap[i] /\ x[i] = lev[i]
        /\ Like(heap, g, lev, x, id)
        /\ \A i \in Ids : heap[i].kind = "unused" => g[i].opts = <<>>
    BY ONLY <1>4, <2>1, <2>2, NewLike
  <2>4. lv = x
    BY DEF l
  <2> HIDE DEF x
  <2> QED
    BY <2>3, <2>4 DEF l
<1>6. Heap(g)
  <2>1. IsLive(n)
    BY DEF IsLive, IsSec
  <2> QED
    BY <2>1, TreeNew
<1>7. /\ lev[root] = 1 /\ Legal(heap, said, lev, dropped, {}) /\ Good(heap, lev, F) /\ Upward(heap, F, stack)
      /\ Touched(heap, said, F, stack) /\ Running(heap, said, lev, F, stack)
  BY DEF Filling
<1>8. root # id
  BY <1>5, LevelIs DEF Made
<1> HIDE DEF id, g, out
<1>9. id \notin F /\ \A k \in DOMAIN stack : stack[k].node # id
  BY <1>2, <1>5, <1>7 DEF Good, IsSec
<1>10. said[id] = <<>> /\ \A i \in Ids : heap[i].kind = "unused" => said[i] = <<>>
  BY <1>5 DEF SaidIs
<1>11. Legal(g, said, lv, dropped, {})
  <2>1. AllSet(heap, g, lev, dropped, {})
    <3>1. {} \subseteq {} /\ \A i \in Ids : heap[i].kind # "unused" => g[i].vals = heap[i].vals
      BY <1>5
    <3> QED
      BY <1>5, <1>4, <1>7, <3>1, AllSetIs
  <2>2. Section(g, said, lv, dropped, {}, id)
    BY <1>5, <1>10, SectionEmpty
  <2>3. \A i \in Ids : heap[i].kind = "unused" /\ IsSec(g[i]) => Bare(g, said, i)
    BY <1>5, <1>10 DEF Bare
  <2>4. \A s \in Ids : s # id => said[s] = said[s]
    OBVIOUS
  <2> QED
    BY <1>5, <1>4, <1>7, <2>1, <2>2, <2>3, <2>4, LegalLike
<1>12. Good(g, lv, F)
  BY <1>5, <1>4, <1>7, <1>9, GoodLike
<1>13. /\ Array(t) /\ Len(t) > 0 /\ Waits(stack, t) /\ Covers(stack, t, F) /\ t[Len(t)] = f
       /\ t[Len(t) - 1] = Top
  BY <1>1, <1>2, PushCalls
<1>14. Upward(g, F, t) /\ Touched(g, said, F, t)
  <2>1. Adds(heap, g, id, id)
    BY <1>5, EmptyArray DEF Adds, Holds
  <2>2. Upward(g, F, stack)
    BY <1>5, <1>7, <1>9, <2>1, UpwardLike
  <2>3. Touched(g, said, F, stack)
    BY <1>5, <1>7, TouchedLike
  <2>4. F \subseteq F /\ F \ F = {}
    OBVIOUS
  <2> QED
    BY <1>13, <2>2, <2>3, <2>4, UpwardMore, TouchedMore
<1>15. f.node = id /\ f.level = Def.opts /\ f.def = 1 /\ f.nopts = 0 /\ ~f.grown /\ f.fresh
  BY DEF Begins, id
<1>16. At(g, said, lv, F, f)
  <2>1. Len(<<>>) = 0
    OBVIOUS
  <2>2. Len(said[id]) = Len(g[id].opts) /\ Len(g[id].opts) = 0
    BY <1>5, <1>10, <2>1
  <2> QED
    BY <1>3, <1>5, <1>6, <1>9, <1>15, <2>2, AtStart
<1>17. Under(g, lv, Top, f)
  <2>1. Hits(g, Top.node, Def) = {}
    <3>1. Top.node # id /\ heap[Top.node].kind # "unused"
      BY <1>1, <1>2, <1>9 DEF IsSec
    <3> QED
      BY <1>2, <1>5, <1>4, <3>1, HitsLike
  <2>2. Top.def <= Len(Schema[Top.level])
    BY DEF AtDef
  <2> QED
    BY <1>1, <1>5, <1>15, <2>1, <2>2 DEF Under
<1>18. Others(t, id, F)
  <2>1. \A k \in DOMAIN t : k # Len(t) => k \in DOMAIN stack /\ t[k] = stack[k]
    BY <1>13 DEF Waits
  <2> QED
    BY <1>2, <1>9, <2>1 DEF Others
<1>19. Running(g, said, lv, F, t)
  <2>1. F \subseteq F /\ Frames(stack) /\ Completing(heap, root, stack)
    OBVIOUS
  <2>2. At(g, said, lv, F, t[Len(t)]) /\ Under(g, lv, t[Len(t) - 1], t[Len(t)])
    BY <1>13, <1>16, <1>17
  <2> QED
    BY ONLY <1>5, <1>4, <1>7, <1>13, <1>18, <2>1, <2>2, CallsLike
<1>20. SaidIs(g, said)
  <2>1. \A i \in Ids : g[i].kind = "unused" => heap[i].kind = "unused"
    BY <1>5
  <2> QED
    BY <2>1 DEF SaidIs
<1>21. lv[root] = 1
  BY <1>5, <1>7, <1>8
<1> QED
  BY <1>5, <1>11, <1>12, <1>14, <1>19, <1>20, <1>21 DEF Filling, g

(* The default of a section.                                               *)
LEMMA NewSectionKnown ==
  ASSUME Heap(heap), root \in Ids, Frames(stack), Tree(heap, {root} \cup Hands(stack)),
         Completing(heap, root, stack), phase = "defaults", DefaultSec, SaidIs(heap, said),
         NEW lev \in Levels, NEW F \in SUBSET Ids, Filling(heap, said, lev, dropped, F, root, stack)
  PROVE  Loading'
<1> DEFINE id == NewId(heap)
           n == SecNode(Def.name, Def.flags \ {"LIST", "NODEFAULT"})
           f == DefaultsFrame(id, Def.opts, 0, TRUE)
           lv == [lev EXCEPT ![id] = Def.opts]
<1>1. AtDef
  BY DEF DefaultSec
<1>2. Present(Def) = Hits(heap, Top.node, Def)
  BY <1>1, PresentIs
<1>3. /\ Hits(heap, Top.node, Def) = {} /\ Def.type = "sec" /\ FreeIds(heap) # {}
      /\ phase' = phase /\ root' = root /\ said' = said /\ dropped' = dropped
      /\ heap' = WithNew(heap, n) /\ stack' = Append(stack, f)
  BY <1>2, Zenon DEF DefaultSec, inDefaults, WithNew, Push
<1>4. IsNode(n)
  BY DefaultNodeIs
<1>5. n.name = Def.name /\ n.kind = "sec" /\ n.opts = <<>> /\ "NODEFAULT" \notin n.flags
  <2>1. "NODEFAULT" \notin Def.flags \ {"LIST", "NODEFAULT"}
    OBVIOUS
  <2> QED
    BY <2>1, SecNodeHas
<1>6. Begins(f, id, Def.opts, 0, TRUE)
  BY DefaultsFrameHas
<1> HIDE DEF n, f
<1>7. lv \in Levels /\ SaidIs(heap', said) /\ Filling(heap', said, lv, dropped, F, root, stack')
  BY <1>1, <1>3, <1>4, <1>5, <1>6, FreshSection
<1> HIDE DEF lv, id
<1> QED
  BY <1>3, <1>7 DEF Loading

(* What an option that was not in the file is made with.                   *)
LEMMA OptNodeHas ==
  ASSUME NEW name, NEW flags, NEW type
  PROVE  LET n == OptNode(name, flags, type) IN
         /\ n.name = name /\ n.flags = flags /\ n.vtype = type /\ n.kind = "opt" /\ n.opts = <<>> /\ n.vals = <<>>
  BY DEF OptNode, Node

(* It has the value of its definition, if that one has a value.            *)
LEMMA DefaultSet ==
  ASSUME NEW def
  PROVE  LET node == OptNode(def.name, def.flags \ {"LIST", "TITLE", "NODEFAULT"}, def.vtype)
             n == IF "NODEFAULT" \in def.flags THEN node ELSE SetnCmn(node, def.val, -1, {"SET"}).node
         IN
         /\ IsNode(n) /\ n.kind = "opt" /\ n.opts = <<>> /\ n.name = def.name /\ n.vtype = def.vtype
         /\ "NODEFAULT" \notin n.flags /\ \A dr : Allowed(n, def, dr)
<1> DEFINE node == OptNode(def.name, def.flags \ {"LIST", "TITLE", "NODEFAULT"}, def.vtype)
           n == IF "NODEFAULT" \in def.flags THEN node ELSE SetnCmn(node, def.val, -1, {"SET"}).node
<1>1. IsNode(node)
  BY DefaultNodeIs
<1>2. /\ node.name = def.name /\ node.flags = def.flags \ {"LIST", "TITLE", "NODEFAULT"} /\ node.vtype = def.vtype
      /\ node.kind = "opt" /\ node.opts = <<>> /\ node.vals = <<>>
  BY OptNodeHas
<1>3. "NODEFAULT" \notin node.flags /\ Len(<<>>) = 0 /\ ~(0 > 1) /\ ~(1 > 1)
  <2>1. "NODEFAULT" \notin def.flags \ {"LIST", "TITLE", "NODEFAULT"}
    OBVIOUS
  <2>2. Len(<<>>) = 0 /\ ~(0 > 1) /\ ~(1 > 1)
    OBVIOUS
  <2> QED
    BY ONLY <1>2, <2>1, <2>2
<1> HIDE DEF node
<1>4. ASSUME "NODEFAULT" \in def.flags
      PROVE  /\ IsNode(n) /\ n.kind = "opt" /\ n.opts = <<>> /\ n.name = def.name /\ n.vtype = def.vtype
              /\ "NODEFAULT" \notin n.flags /\ \A dr : Allowed(n, def, dr)
  <2>1. n = node
    BY <1>4, Zenon
  <2> HIDE DEF n
  <2> QED
    BY ONLY <1>1, <1>2, <1>3, <1>4, <2>1 DEF Allowed
<1>5. ASSUME "NODEFAULT" \notin def.flags
      PROVE  /\ IsNode(n) /\ n.kind = "opt" /\ n.opts = <<>> /\ n.name = def.name /\ n.vtype = def.vtype
              /\ "NODEFAULT" \notin n.flags /\ \A dr : Allowed(n, def, dr)
  <2> DEFINE set == SetnCmn(node, def.val, -1, {"SET"}).node
  <2>1. IsNode(set) /\ Beside(set, node) /\ Len(set.vals) = Len(node.vals) + 1
    <3>1. ASSUME NEW m, IsNode(m), NEW val, NEW inst, inst = {"SET"} /\ m.vals = <<>>
          PROVE  LET k == SetnCmn(m, val, -1, inst).node IN
                 IsNode(k) /\ Beside(k, m) /\ Len(k.vals) = Len(m.vals) + 1
      BY ONLY <3>1, SetnLonger, Zenon
    <3> QED
      BY <1>1, <1>2, <3>1, Zenon
  <2>2. n = set
    BY <1>5, Zenon
  <2> HIDE DEF set, n
  <2>3. Len(n.vals) = 1 /\ n.vals # <<>>
    BY ONLY <1>2, <1>3, <2>1, <2>2
  <2>4. \A dr : Allowed(n, def, dr)
    BY ONLY <1>3, <2>3 DEF Allowed
  <2> QED
    BY <1>2, <1>3, <2>1, <2>2, <2>4 DEF Beside
<1> HIDE DEF n
<1>6. /\ IsNode(n) /\ n.kind = "opt" /\ n.opts = <<>> /\ n.name = def.name /\ n.vtype = def.vtype
      /\ "NODEFAULT" \notin n.flags /\ \A dr : Allowed(n, def, dr)
  BY <1>4, <1>5
<1> QED
  BY <1>6, Zenon DEF n, node

\* A node that vt_config_defaults makes for a definition, when that is done
Suits(n, m, def, l, dr) ==
  /\ n.kind = def.type /\ Matches(def, def.name, n.name) /\ (n.kind = "opt" => n.vtype = def.vtype)
  /\ n.kind = "sec" => m = def.opts
  /\ HasValues(n, l, dr) /\ "NODEFAULT" \notin n.flags
Ready(def, id, F) == def.type = "sec" => id \in F
Unset(h, g) == \A i \in Ids : h[i].kind # "unused" => g[i].vals = h[i].vals

(* What vt_config_defaults adds to a section is the first entry of its     *)
(* name, and the section goes on as it was.                                *)
LEMMA EntryAdded ==
  ASSUME NEW h, Heap(h), NEW out, Tree(h, out), NEW g, NEW lev, NEW lv, NEW sec \in Ids, IsSec(h[sec]),
         Like(h, g, lev, lv, sec), Unset(h, g),
         NEW id, Longer(g[sec].opts, h[sec].opts, id),
         NEW sd, NEW dr, Legal(h, sd, lev, dr, {}), NEW F, NEW F2, F \subseteq F2, sec \notin F2,
         NEW f, IsFrame(f), f.node = sec, At(h, sd, lev, F, f), f.level \in DOMAIN Schema,
         f.def \in DOMAIN Schema[f.level], Array(sd[sec]),
         NEW def, def = Schema[f.level][f.def], Hits(h, sec, def) = {},
         Suits(g[id], lv[id], def, f.level, dr), Ready(def, id, F2)
  PROVE  /\ Section(g, sd, lv, dr, {}, sec)
         /\ At(g, sd, lv, F2, Added(f)) /\ Onward(f, Added(f))
<1> DEFINE l == f.level
           d == f.def
           n == Len(h[sec].opts) + 1
<1>1. lev[sec] = l /\ lv[sec] = l /\ f.nopts = Len(sd[sec]) /\ Started(sd, lev, F, f) /\ Sofar(h, F, f)
  BY DEF Like, IsSec, At, Started
<1>2. Section(h, sd, lev, dr, {}, sec)
  BY DEF Legal
<1>3. /\ Len(h[sec].opts) \in Nat /\ DOMAIN g[sec].opts = DOMAIN h[sec].opts \cup {n}
      /\ g[sec].opts[n] = id /\ Len(g[sec].opts) = n /\ \A k \in DOMAIN h[sec].opts : g[sec].opts[k] = h[sec].opts[k]
  <2>1. Array(h[sec].opts)
    BY DEF Heap, IsNode
  <2>2. Longer(g[sec].opts, h[sec].opts, id)
    OBVIOUS
  <2> QED
    BY ONLY <2>1, <2>2, LongerIs
<1>4. Len(sd[sec]) \in Nat /\ Len(sd[sec]) <= Len(h[sec].opts) /\ Len(sd[sec]) < n
  <2>1. Len(sd[sec]) \in Nat /\ Len(sd[sec]) <= Len(h[sec].opts)
    BY <1>2 DEF Section, Array
  <2> QED
    BY <1>3, <2>1
<1>5. /\ DOMAIN Schema[l] = 1..Len(Schema[l]) /\ Len(Schema[l]) \in Nat /\ d \in 1..Len(Schema[l])
      /\ def = Schema[l][d] /\ d \in DOMAIN Schema[l]
  BY LevelsAre
<1>6. /\ g[id].kind = def.type /\ Matches(def, def.name, g[id].name)
      /\ (g[id].kind = "opt" => g[id].vtype = def.vtype) /\ (g[id].kind = "sec" => lv[id] = def.opts)
      /\ HasValues(g[id], l, dr) /\ "NODEFAULT" \notin g[id].flags /\ (def.type = "sec" => id \in F2)
  BY DEF Suits, Ready
<1> HIDE DEF l, d
<1>7. AllSet(h, g, lev, dr, {})
  <2>1. {} \subseteq {}
    OBVIOUS
  <2> QED
    BY <2>1, AllSetIs DEF Unset
<1>8. Section(g, sd, lv, dr, {}, sec)
  <2>1. Typed(g[id], l, lv[id])
    BY <1>6, <1>5, TypedIs DEF l
  <2>2. Origin(g[id], sd[sec], n)
    <3>1. ~(n <= Len(sd[sec]))
      BY <1>3, <1>4
    <3> QED
      BY <1>6, <3>1 DEF Origin
  <2>3. Len(sd[sec]) <= Len(g[sec].opts)
    BY <1>3, <1>4
  <2>4. HasValues(g[id], l, dr)
    BY <1>6
  <2>5. lev[sec] \in DOMAIN Schema
    BY <1>1 DEF l
  <2>6. /\ d \in DOMAIN Schema[lev[sec]]
        /\ Matches(Schema[lev[sec]][d], Schema[lev[sec]][d].name, g[id].name)
        /\ Hits(h, sec, Schema[lev[sec]][d]) = {}
    BY <1>6, <1>1, <1>5
  <2>7. Typed(g[id], lev[sec], lv[id]) /\ HasValues(g[id], lev[sec], dr)
    BY <1>1, <2>1, <2>4
  <2>8. /\ Heap(h) /\ Tree(h, out) /\ sec \in Ids /\ IsSec(h[sec]) /\ Like(h, g, lev, lv, sec)
        /\ Longer(g[sec].opts, h[sec].opts, id)
        /\ \A k \in DOMAIN h[sec].opts : sd[sec] = sd[sec] \/ Origin(h[h[sec].opts[k]], sd[sec], k)
    OBVIOUS
  <2>9. Origin(g[id], sd[sec], Len(h[sec].opts) + 1)
    BY <2>2
  <2> HIDE DEF n
  <2> QED
    BY ONLY <1>2, <1>7, <2>3, <2>5, <2>6, <2>7, <2>8, <2>9, SectionLonger
<1>9. \A e \in 1..(d - 1) : Got(g, F2, sec, Schema[l][e])
  <2>1. ASSUME NEW e \in 1..(d - 1) PROVE Got(g, F2, sec, Schema[l][e])
    <3>1. Got(h, F, sec, Schema[l][e])
      BY <1>1, <2>1 DEF Sofar, l, d
    <3> QED
      BY <3>1, GotLonger
  <2> QED
    BY <2>1
<1>10. Got(g, F2, sec, def)
  <2>1. Hits(g, sec, def) = {n}
    <3>1. Hits(g, sec, def) = Hits(h, sec, def) \cup {n}
      BY <1>6, HitsLonger
    <3> QED
      BY <3>1
  <2>2. First({n}) = n
    <3>1. n \in Nat
      BY <1>3
    <3> HIDE DEF n
    <3>2. {n} # {} /\ {n} \subseteq Nat
      BY <3>1
    <3>3. First({n}) \in {n}
      BY ONLY <3>2, FirstLeast
    <3> QED
      BY <3>3
  <2> QED
    BY <1>6, <1>3, <2>1, <2>2 DEF Got
<1>11. \A e \in 1..d : Got(g, F2, sec, Schema[l][e])
  <2>1. \A e \in 1..d : e = d \/ e \in 1..(d - 1)
    BY <1>5
  <2> QED
    BY <1>5, <1>9, <1>10, <2>1
<1>12. \A j \in DOMAIN g[sec].opts : j > f.nopts => Seen(l, d + 1, g[g[sec].opts[j]].name)
  <2>1. SUFFICES ASSUME NEW j \in DOMAIN g[sec].opts, j > f.nopts PROVE Seen(l, d + 1, g[g[sec].opts[j]].name)
    OBVIOUS
  <2>2. CASE j = n
    <3>1. d \in 1..((d + 1) - 1)
      BY <1>5
    <3> QED
      BY <1>6, <1>3, <1>5, <2>2, <3>1 DEF Seen
  <2>3. CASE j \in DOMAIN h[sec].opts
    <3>1. Seen(l, d, h[h[sec].opts[j]].name)
      BY <1>1, <2>1, <2>3 DEF Sofar, l, d
    <3>2. g[h[sec].opts[j]].name = h[h[sec].opts[j]].name
      BY <2>3, EntriesUsed DEF Like, Same
    <3>3. d \in Int /\ d + 1 \in Int /\ d <= d + 1
      BY <1>5
    <3>4. Seen(l, d + 1, h[h[sec].opts[j]].name)
      BY <3>1, <3>3, SeenMore
    <3> QED
      BY <1>3, <2>3, <3>2, <3>4
  <2> QED
    BY <1>3, <2>1, <2>2, <2>3
<1>13. Started(sd, lv, F2, f)
  BY <1>1 DEF Started
<1>14. Len(g[sec].opts) > f.nopts
  BY <1>1, <1>3, <1>4
<1>15. At(g, sd, lv, F2, Added(f)) /\ Onward(f, Added(f))
  <2>1. /\ IsFrame(f) /\ d \in Int /\ d = f.def /\ l = f.level /\ sec = f.node
        /\ d \in DOMAIN Schema[l] /\ Len(Schema[l]) \in Nat /\ DOMAIN Schema[l] = 1..Len(Schema[l])
    BY <1>5 DEF d, l
  <2> QED
    BY ONLY <1>11, <1>12, <1>13, <1>14, <2>1, AtNext
<1> QED
  BY <1>8, <1>15

(* The innermost call, and the one it was made by, after an entry was      *)
(* added to its section.                                                   *)
LEMMA UnderAdded ==
  ASSUME NEW h, NEW out, Tree(h, out), NEW g, NEW lev, NEW lv, NEW sec, Like(h, g, lev, lv, sec),
         NEW r, NEW s, Frames(s), Completing(h, r, s), NEW F, NEW sd, Running(h, sd, lev, F, s),
         NEW k \in DOMAIN s, k # 1, k - 1 \in DOMAIN s, s[k].node = sec, NEW f, Goes(s[k], f)
  PROVE  Under(g, lv, s[k - 1], f)
<1>1. Under(h, lev, s[k - 1], s[k])
  BY DEF Running
<1>2. k \in Int /\ k - 1 # k
  BY DEF Frames, Array
<1>3. s[k - 1].node # sec
  BY <1>2, CallsApart
<1>4. \A j \in DOMAIN s : s[j].node \in Ids /\ h[s[j].node].kind # "unused"
  BY DEF Frames, Completing, Completed, IsSec
<1>5. f.node = s[k].node /\ (f.fresh <=> s[k].fresh)
  BY DEF Goes
<1> DEFINE a == s[k]
           c == s[k - 1]
<1>6. /\ Under(h, lev, c, a) /\ f.node = a.node /\ (f.fresh <=> a.fresh)
      /\ c.node \in Ids /\ h[c.node].kind # "unused" /\ c.node # sec /\ a.node \in Ids /\ h[a.node].kind # "unused"
      /\ Tree(h, out) /\ Like(h, g, lev, lv, sec)
  BY <1>1, <1>3, <1>4, <1>5
<1> HIDE DEF a, c
<1>7. Under(g, lv, c, f)
  BY ONLY <1>6, UnderLike
<1> QED
  BY <1>7 DEF c

(* The default of an option goes to the end of the section.                *)
LEMMA FreshOption ==
  ASSUME Heap(heap), root \in Ids, Frames(stack), Tree(heap, {root} \cup Hands(stack)),
         Completing(heap, root, stack), SaidIs(heap, said),
         NEW lev \in Levels, NEW F \in SUBSET Ids, Filling(heap, said, lev, dropped, F, root, stack), AtDef,
         Hits(heap, Top.node, Def) = {}, Def.type = "opt", FreeIds(heap) # {},
         NEW n, IsNode(n), n.kind = "opt", n.opts = <<>>, n.name = Def.name, n.vtype = Def.vtype,
         "NODEFAULT" \notin n.flags, Allowed(n, Def, dropped),
         NEW x, Longer(x, WithNew(heap, n)[Top.node].opts, NewId(heap)),
         NEW t, t = [stack EXCEPT ![Len(stack)] = Added(Top)]
  PROVE  LET g == WithOpts(WithNew(heap, n), Top.node, x) IN
         SaidIs(g, said) /\ \E lv \in Levels : Filling(g, said, lv, dropped, F, root, t)
<1> DEFINE id == NewId(heap)
           sec == Top.node
           out == {root} \cup Hands(stack)
           g == WithOpts(WithNew(heap, n), sec, x)
           lv == [lev EXCEPT ![id] = 1]
<1>1. /\ Array(stack) /\ Len(stack) \in DOMAIN stack /\ Len(stack) > 0 /\ Top = stack[Len(stack)]
      /\ Top.def \in DOMAIN Schema[Top.level] /\ Def = Schema[Top.level][Top.def]
  BY PresentIs DEF Frames
<1>2. /\ sec \in Ids /\ IsSec(heap[sec]) /\ Top.level \in DOMAIN Schema /\ sec \notin F
      /\ IsFrame(Top) /\ At(heap, said, lev, F, Top)
      /\ \A k \in DOMAIN stack : stack[k].def \in Int /\ stack[k].node \notin F
                                 /\ stack[k].node \in Ids /\ IsSec(heap[stack[k].node])
  BY <1>1, CallIs
<1>3. Tree(heap, out) /\ 1 \in DOMAIN Schema /\ IsLive(n)
  BY LevelsAre DEF IsLive, IsOpt
<1>4. lv \in Levels /\ lv[id] = 1 /\ Joins(heap, g, lev, lv, sec, id, n)
  <2>1. Heap(heap) /\ Tree(heap, out) /\ FreeIds(heap) # {} /\ IsNode(n) /\ IsLive(n) /\ n.opts = <<>>
        /\ lev \in Levels /\ 1 \in DOMAIN Schema /\ sec \in Ids /\ IsSec(heap[sec])
        /\ Longer(x, WithNew(heap, n)[sec].opts, NewId(heap))
    BY <1>2, <1>3
  <2> HIDE DEF out, sec
  <2> QED
    BY ONLY <2>1, JoinsIs
<1>5. /\ lev[root] = 1 /\ Legal(heap, said, lev, dropped, {}) /\ Good(heap, lev, F) /\ Upward(heap, F, stack)
      /\ Touched(heap, said, F, stack) /\ Running(heap, said, lev, F, stack)
  BY DEF Filling
<1>6. heap[root].kind # "unused"
  BY LevelIs DEF Made
<1>7. Top.node = sec
  OBVIOUS
<1> HIDE DEF id, g, out, sec, lv
<1>8. /\ id \in Ids /\ id # sec /\ heap[id].kind = "unused" /\ g[id] = n
      /\ Like(heap, g, lev, lv, sec) /\ Adds(heap, g, sec, id) /\ Longer(g[sec].opts, heap[sec].opts, id)
      /\ \A i \in Ids : /\ heap[i].kind # "unused" => g[i].vals = heap[i].vals
                        /\ heap[i].kind = "unused" /\ i # id => g[i].kind = "unused"
  BY <1>4 DEF Joins
<1>9. id \notin F
  BY <1>5, <1>8 DEF Good, IsSec
<1>10. HasValues(n, Top.level, dropped)
  <2>1. ASSUME NEW e \in DOMAIN Schema[Top.level], Matches(Schema[Top.level][e], Schema[Top.level][e].name, n.name)
        PROVE  Allowed(n, Schema[Top.level][e], dropped)
    <3>1. Matches(Def, Def.name, n.name)
      BY MatchesIs
    <3>2. e = Top.def
      BY <1>1, <1>2, <2>1, <3>1, OneDef
    <3> QED
      BY <1>1, <3>2
  <2> QED
    BY <2>1 DEF HasValues
<1>11. /\ Section(g, said, lv, dropped, {}, sec)
       /\ At(g, said, lv, F, Added(Top)) /\ Onward(Top, Added(Top))
  <2>1. F \subseteq F /\ Array(said[sec]) /\ Matches(Def, Def.name, g[id].name)
    BY <1>2, <1>8, MatchesIs DEF SaidIs
  <2>2. Suits(g[id], lv[id], Def, Top.level, dropped)
    BY <1>8, <1>10, <2>1 DEF Suits
  <2>3. Heap(heap) /\ Hits(heap, sec, Def) = {} /\ Ready(Def, id, F)
    BY <1>7 DEF Ready
  <2>4. Unset(heap, g)
    BY <1>8 DEF Unset
  <2> QED
    BY ONLY <1>1, <1>2, <1>3, <1>5, <1>7, <1>8, <2>1, <2>2, <2>3, <2>4, EntryAdded
<1>12. Legal(g, said, lv, dropped, {})
  <2>1. AllSet(heap, g, lev, dropped, {})
    <3>1. {} \subseteq {}
      OBVIOUS
    <3> QED
      BY <1>3, <1>5, <1>8, <3>1, AllSetIs
  <2>2. \A i \in Ids : heap[i].kind = "unused" /\ IsSec(g[i]) => Bare(g, said, i)
    BY <1>8 DEF IsSec
  <2>3. \A s \in Ids : s # sec => said[s] = said[s]
    OBVIOUS
  <2> QED
    BY <1>3, <1>4, <1>5, <1>8, <1>11, <2>1, <2>2, <2>3, LegalLike
<1>13. Good(g, lv, F)
  BY <1>2, <1>3, <1>5, <1>8, GoodLike
<1>14. /\ Array(t) /\ Len(t) = Len(stack) /\ Waits(stack, t) /\ Covers(stack, t, F)
       /\ t[Len(t)] = Added(Top)
       /\ Len(t) # 1 => t[Len(t) - 1] = stack[Len(stack) - 1] /\ Len(stack) - 1 \in DOMAIN stack
  BY <1>1, <1>2, <1>11, TopCalls
<1>15. Upward(g, F, t) /\ Touched(g, said, F, t)
  <2>1. Upward(g, F, stack)
    BY <1>5, <1>8, <1>9, UpwardLike
  <2>2. Touched(g, said, F, stack)
    <3>1. \A i \in Ids : heap[i].kind = "unused" => g[i].opts = <<>>
      BY <1>8 DEF Adds
    <3>2. \E k \in DOMAIN stack : stack[k].node = sec
      BY <1>1, <1>7
    <3> QED
      BY <1>5, <1>8, <3>1, <3>2, TouchedLike
  <2>3. F \subseteq F /\ F \ F = {}
    OBVIOUS
  <2> QED
    BY <1>14, <2>1, <2>2, <2>3, UpwardMore, TouchedMore
<1>16. Others(t, sec, F)
  <2>1. SUFFICES ASSUME NEW k \in DOMAIN t, k # Len(t) PROVE t[k].node # sec /\ t[k].node \notin F
    BY DEF Others
  <2>2. k \in DOMAIN stack /\ t[k] = stack[k] /\ k # Len(stack)
    BY <1>14, <2>1 DEF Waits
  <2>3. stack[k].node # stack[Len(stack)].node
    BY <1>1, <2>2, CallsApart
  <2> QED
    BY <1>1, <1>2, <1>7, <2>2, <2>3
<1>17. Running(g, said, lv, F, t)
  <2>1. F \subseteq F /\ Frames(stack) /\ Completing(heap, root, stack) /\ Len(t) > 0
    BY <1>1, <1>14
  <2>2. At(g, said, lv, F, t[Len(t)])
    BY <1>11, <1>14
  <2>3. Len(t) # 1 => Under(g, lv, t[Len(t) - 1], t[Len(t)])
    <3>1. Goes(Top, Added(Top))
      BY <1>2, NextIs
    <3>2. ASSUME Len(stack) # 1, Len(stack) - 1 \in DOMAIN stack
          PROVE  Under(g, lv, stack[Len(stack) - 1], Added(Top))
      BY <1>1, <1>3, <1>5, <1>7, <1>8, <2>1, <3>1, <3>2, UnderAdded
    <3> QED
      BY <1>14, <3>2
  <2> QED
    BY ONLY <1>3, <1>5, <1>8, <1>14, <1>16, <2>1, <2>2, <2>3, CallsLike
<1>18. SaidIs(g, said)
  <2>1. \A i \in Ids : g[i].kind = "unused" => heap[i].kind = "unused"
    BY <1>8 DEF Like, Same
  <2> QED
    BY <2>1 DEF SaidIs
<1>19. lv[root] = 1
  BY <1>5, <1>6, <1>8 DEF Like
<1>20. Filling(g, said, lv, dropped, F, root, t)
  BY <1>12, <1>13, <1>15, <1>17, <1>19 DEF Filling
<1> QED
  BY <1>4, <1>18, <1>20 DEF g, sec

(* The default of an option.                                               *)
LEMMA NewOptionKnown ==
  ASSUME Heap(heap), root \in Ids, Frames(stack), Tree(heap, {root} \cup Hands(stack)),
         Completing(heap, root, stack), phase = "defaults", DefaultOpt, SaidIs(heap, said),
         NEW lev \in Levels, NEW F \in SUBSET Ids, Filling(heap, said, lev, dropped, F, root, stack)
  PROVE  Loading'
<1> DEFINE id == NewId(heap)
           node == OptNode(Def.name, Def.flags \ {"LIST", "TITLE", "NODEFAULT"}, Def.vtype)
           n == IF "NODEFAULT" \in Def.flags THEN node ELSE SetnCmn(node, Def.val, -1, {"SET"}).node
           put == Attach(Top.node, WithNew(heap, n), id)
<1>1. AtDef
  BY DEF DefaultOpt
<1>2. Present(Def) = Hits(heap, Top.node, Def) /\ Top.node \in Ids
  BY <1>1, PresentIs, LevelIs
<1>3. /\ Hits(heap, Top.node, Def) = {} /\ Def.type = "opt" /\ FreeIds(heap) # {}
      /\ phase' = phase /\ root' = root /\ said' = said /\ dropped' = dropped
      /\ put.pos >= 0 /\ heap' = put.heap /\ stack' = [stack EXCEPT ![Len(stack)] = Added(Top)]
  BY <1>2, Zenon DEF DefaultOpt, inDefaults, WithNew, Continue
<1>4. /\ IsNode(n) /\ n.kind = "opt" /\ n.opts = <<>> /\ n.name = Def.name /\ n.vtype = Def.vtype
      /\ "NODEFAULT" \notin n.flags /\ Allowed(n, Def, dropped)
  <2>1. /\ IsNode(n) /\ n.kind = "opt" /\ n.opts = <<>> /\ n.name = Def.name /\ n.vtype = Def.vtype
        /\ "NODEFAULT" \notin n.flags /\ \A dr : Allowed(n, Def, dr)
    BY DefaultSet, Zenon
  <2> HIDE DEF n, node
  <2> QED
    BY <2>1
<1> HIDE DEF n, node
<1>5. Heap(WithNew(heap, n))
  <2>1. IsLive(n)
    BY <1>4 DEF IsLive, IsOpt
  <2> QED
    BY <1>3, <1>4, <2>1, TreeNew
<1>6. PICK x : heap' = WithOpts(WithNew(heap, n), Top.node, x) /\ Longer(x, WithNew(heap, n)[Top.node].opts, id)
  <2>1. \E x : put.heap = WithOpts(WithNew(heap, n), Top.node, x)
               /\ Longer(x, WithNew(heap, n)[Top.node].opts, id)
    BY <1>2, <1>3, <1>5, AttachIs
  <2> HIDE DEF put
  <2> QED
    BY <1>3, <2>1
<1> HIDE DEF put
<1>7. SaidIs(heap', said) /\ \E lv \in Levels : Filling(heap', said, lv, dropped, F, root, stack')
  <2> DEFINE t == [stack EXCEPT ![Len(stack)] = Added(Top)]
  <2>1. /\ Heap(heap) /\ root \in Ids /\ Frames(stack) /\ Tree(heap, {root} \cup Hands(stack))
        /\ Completing(heap, root, stack) /\ SaidIs(heap, said) /\ lev \in Levels /\ F \in SUBSET Ids
        /\ Filling(heap, said, lev, dropped, F, root, stack)
    OBVIOUS
  <2>2. Hits(heap, Top.node, Def) = {} /\ Def.type = "opt" /\ FreeIds(heap) # {} /\ stack' = t
    BY <1>3
  <2>3. t = [stack EXCEPT ![Len(stack)] = Added(Top)]
    OBVIOUS
  <2>4. Longer(x, WithNew(heap, n)[Top.node].opts, NewId(heap))
    BY <1>6
  <2>5. heap' = WithOpts(WithNew(heap, n), Top.node, x)
    BY <1>6
  <2> HIDE DEF t
  <2>6. LET g == WithOpts(WithNew(heap, n), Top.node, x) IN
        SaidIs(g, said) /\ \E lv \in Levels : Filling(g, said, lv, dropped, F, root, t)
    BY ONLY <1>1, <1>4, <2>1, <2>2, <2>3, <2>4, FreshOption
  <2> QED
    BY <2>2, <2>5, <2>6
<1> QED
  BY <1>3, <1>7 DEF Loading

(* A section whose definitions are all dealt with has its defaults.        *)
LEMMA LevelDone ==
  ASSUME root \in Ids, Frames(stack), Completing(heap, root, stack),
         NEW lev \in Levels, NEW F \in SUBSET Ids, Filling(heap, said, lev, dropped, F, root, stack),
         Top.def > Len(Schema[Top.level])
  PROVE  F \cup {Top.node} \in SUBSET Ids /\ Good(heap, lev, F \cup {Top.node})
<1>1. Len(stack) \in DOMAIN stack /\ Top = stack[Len(stack)]
  BY LevelIs
<1>2. /\ Top.node \in Ids /\ IsSec(heap[Top.node]) /\ lev[Top.node] = Top.level /\ At(heap, said, lev, F, Top)
      /\ Len(Schema[Top.level]) \in Nat /\ DOMAIN Schema[Top.level] = 1..Len(Schema[Top.level])
      /\ Top.def \in Int
  BY <1>1, CallIs
<1>3. \A d \in DOMAIN Schema[lev[Top.node]] : Got(heap, F, Top.node, Schema[lev[Top.node]][d])
  <2>1. \A d \in DOMAIN Schema[Top.level] : d \in 1..(Top.def - 1)
    BY <1>2
  <2> QED
    BY <1>2, <2>1 DEF At, Sofar
<1>4. Good(heap, lev, F)
  BY DEF Filling
<1> QED
  BY <1>2, <1>3, <1>4, GoodMore

(* Where a call returns to.                                                *)
LEMMA CallerIs ==
  ASSUME root \in Ids, Frames(stack), Completing(heap, root, stack),
         NEW lev \in Levels, NEW F, Filling(heap, said, lev, dropped, F, root, stack), Len(stack) # 1,
         NEW f, f = stack[Len(stack) - 1], NEW def, def = Schema[f.level][f.def]
  PROVE  /\ Array(stack) /\ Len(stack) \in DOMAIN stack /\ Len(stack) - 1 \in DOMAIN stack /\ Len(stack) > 1
         /\ Top = stack[Len(stack)] /\ f.node # Top.node
         /\ f.node \in Ids /\ IsSec(heap[f.node]) /\ IsFrame(f) /\ At(heap, said, lev, F, f) /\ f.node \notin F
         /\ f.level \in DOMAIN Schema /\ f.def \in DOMAIN Schema[f.level] /\ f.def \in Int
         /\ Len(Schema[f.level]) \in Nat /\ DOMAIN Schema[f.level] = 1..Len(Schema[f.level])
         /\ Under(heap, lev, f, Top)
<1>1. /\ Len(stack) \in DOMAIN stack /\ Len(stack) > 0 /\ Array(stack) /\ Top = stack[Len(stack)]
  BY LevelIs DEF Frames
<1>2. Len(stack) - 1 \in DOMAIN stack /\ Len(stack) > 1 /\ Len(stack) \in Int /\ Len(stack) - 1 # Len(stack)
  <2> DEFINE m == Len(stack)
  <2>1. m \in Nat /\ m > 0 /\ m # 1 /\ DOMAIN stack = 1..m
    BY <1>1 DEF Array
  <2> HIDE DEF m
  <2>2. m - 1 \in 1..m /\ m > 1 /\ m \in Int /\ m - 1 # m
    BY <2>1
  <2> QED
    BY <2>1, <2>2 DEF m
<1>3. /\ f.node \in Ids /\ IsSec(heap[f.node]) /\ IsFrame(f) /\ At(heap, said, lev, F, f) /\ f.node \notin F
      /\ f.level \in DOMAIN Schema /\ f.def \in 1..(Len(Schema[f.level]) + 1) /\ f.def \in Int
      /\ Len(Schema[f.level]) \in Nat /\ DOMAIN Schema[f.level] = 1..Len(Schema[f.level])
  BY <1>2, CallIs
<1>4. Under(heap, lev, f, Top)
  BY <1>1, <1>2 DEF Filling, Running
<1>5. f.def \in DOMAIN Schema[f.level]
  <2>1. f.def <= Len(Schema[f.level])
    BY <1>4 DEF Under
  <2> QED
    BY <1>3, <2>1
<1>6. f.node # Top.node
  BY <1>1, <1>2, CallsApart
<1> QED
  BY <1>1, <1>2, <1>3, <1>4, <1>5, <1>6

(* The calls that are left are for other sections.                         *)
LEMMA OthersPop ==
  ASSUME NEW h, NEW r, NEW s, Frames(s), Completing(h, r, s), Len(s) - 1 \in DOMAIN s, Len(s) \in DOMAIN s,
         NEW F, \A k \in DOMAIN s : s[k].node \notin F,
         NEW t, Waits(s, t), Len(t) = Len(s) - 1, DOMAIN t = 1..Len(t)
  PROVE  Others(t, s[Len(s) - 1].node, F \cup {s[Len(s)].node})
<1>1. SUFFICES ASSUME NEW k \in DOMAIN t, k # Len(t)
               PROVE  t[k].node # s[Len(s) - 1].node /\ t[k].node \notin F \cup {s[Len(s)].node}
  BY DEF Others
<1>2. k \in DOMAIN s /\ t[k] = s[k]
  BY <1>1 DEF Waits
<1>3. k # Len(s) - 1 /\ k # Len(s)
  BY <1>1 DEF Frames, Array
<1>4. s[k].node # s[Len(s) - 1].node /\ s[k].node # s[Len(s)].node
  BY <1>2, <1>3, CallsApart
<1> QED
  BY <1>2, <1>4

(* A section of the file is done.                                          *)
LEMMA ReturnEntry ==
  ASSUME Heap(heap), root \in Ids, Frames(stack), Tree(heap, {root} \cup Hands(stack)),
         Completing(heap, root, stack),
         NEW lev \in Levels, NEW F \in SUBSET Ids, Filling(heap, said, lev, dropped, F, root, stack),
         Top.def > Len(Schema[Top.level]), Len(stack) # 1, ~Top.fresh,
         NEW f, f = stack[Len(stack) - 1], NEW t, t = [Pop EXCEPT ![Len(Pop)] = NextDef(f)]
  PROVE  Filling(heap, said, lev, dropped, F \cup {Top.node}, root, t)
<1> DEFINE def == Schema[f.level][f.def]
           G == F \cup {Top.node}
           H == Hits(heap, f.node, def)
           out == {root} \cup Hands(stack)
<1>1. /\ Array(stack) /\ Len(stack) \in DOMAIN stack /\ Len(stack) - 1 \in DOMAIN stack /\ Len(stack) > 1
      /\ Top = stack[Len(stack)] /\ f.node # Top.node
      /\ f.node \in Ids /\ IsSec(heap[f.node]) /\ IsFrame(f) /\ At(heap, said, lev, F, f) /\ f.node \notin F
      /\ f.level \in DOMAIN Schema /\ f.def \in DOMAIN Schema[f.level] /\ f.def \in Int
      /\ Len(Schema[f.level]) \in Nat /\ DOMAIN Schema[f.level] = 1..Len(Schema[f.level])
      /\ Under(heap, lev, f, Top)
  BY CallerIs
<1>2. \A k \in DOMAIN stack : stack[k].def \in Int /\ stack[k].node \notin F
  BY CallIs
<1>3. Good(heap, lev, G)
  BY LevelDone
<1>4. def.type = "sec" /\ H # {} /\ heap[f.node].opts[First(H)] = Top.node
  BY <1>1 DEF Under
<1>5. f.node \notin G /\ F \subseteq G /\ Top.node \in G
  BY <1>1
<1>6. Tree(heap, out) /\ Like(heap, heap, lev, lev, Wild)
  BY LikeSelf
<1>7. First(H) \in H
  <2>1. Array(heap[f.node].opts) /\ H \subseteq DOMAIN heap[f.node].opts
    BY <1>1 DEF Hits, Heap, IsNode
  <2>2. DOMAIN heap[f.node].opts \subseteq Nat
    BY <2>1 DEF Array
  <2> HIDE DEF H
  <2>3. H # {} /\ H \subseteq Nat
    BY <1>4, <2>1, <2>2
  <2> QED
    BY ONLY <2>3, FirstLeast
<1>8. Matches(def, def.name, heap[Top.node].name) /\ First(H) \in DOMAIN heap[f.node].opts
  <2>1. \A k \in H : k \in DOMAIN heap[f.node].opts /\ Matches(def, def.name, heap[heap[f.node].opts[k]].name)
    BY DEF Hits
  <2> HIDE DEF H, def
  <2> QED
    BY <1>4, <1>7, <2>1
<1>9. Got(heap, G, f.node, def)
  BY <1>4, <1>5 DEF Got
<1> HIDE DEF G, H, out
<1>10. At(heap, said, lev, G, NextDef(f)) /\ Onward(f, NextDef(f))
  <2>1. At(heap, said, lev, G, f)
    <3>1. f.node # Wild /\ heap[f.node].kind # "unused"
      BY <1>1, IdsAssumption DEF IsSec
    <3> QED
      BY <1>1, <1>5, <1>6, <3>1, AtLike
  <2>2. /\ \A d \in 1..f.def : Got(heap, G, f.node, Schema[f.level][d])
        /\ \A j \in DOMAIN heap[f.node].opts :
             j > f.nopts => Seen(f.level, f.def + 1, heap[heap[f.node].opts[j]].name)
    BY <1>1, <1>9, <2>1, SofarNext
  <2>3. Started(said, lev, G, f) /\ (f.grown => Len(heap[f.node].opts) > f.nopts)
    BY <2>1 DEF At, Sofar
  <2> QED
    BY <1>1, <2>2, <2>3, AtNext
<1>11. /\ Array(t) /\ Len(t) > 0 /\ Len(t) = Len(stack) - 1 /\ Waits(stack, t) /\ Covers(stack, t, G)
       /\ Len(t) \in DOMAIN t /\ t[Len(t)] = NextDef(f)
       /\ Len(t) # 1 => t[Len(t) - 1] = stack[Len(t) - 1] /\ Len(t) - 1 \in DOMAIN stack
  <2> DEFINE s == stack
             g == NextDef(f)
             u == [SubSeq(s, 1, Len(s) - 1) EXCEPT ![Len(SubSeq(s, 1, Len(s) - 1))] = g]
  <2>1. t = u
    BY Zenon DEF Pop
  <2>2. Array(s) /\ Len(s) > 1 /\ (\A k \in DOMAIN s : s[k].def \in Int) /\ Onward(s[Len(s) - 1], g) /\ s[Len(s)].node \in G
    BY <1>1, <1>2, <1>5, <1>10
  <2> HIDE DEF g, s
  <2>3. /\ Array(u) /\ Len(u) > 0 /\ Len(u) = Len(s) - 1 /\ Waits(s, u) /\ Covers(s, u, G)
        /\ Len(u) \in DOMAIN u /\ u[Len(u)] = g
        /\ Len(u) # 1 => u[Len(u) - 1] = s[Len(u) - 1] /\ Len(u) - 1 \in DOMAIN s
    BY ONLY <2>2, ReturnCalls, Zenon
  <2> HIDE DEF u
  <2> QED
    BY <2>1, <2>3 DEF s, g
<1>12. Others(t, f.node, G)
  <2>1. DOMAIN t = 1..Len(t)
    BY <1>11 DEF Array
  <2> QED
    BY <1>1, <1>2, <1>11, <2>1, OthersPop DEF G
<1>13. Goes(f, NextDef(f)) /\ NextDef(f).level = f.level /\ NextDef(f).def = f.def + 1
  BY <1>1, NextIs, NextHas
<1>14. Running(heap, said, lev, G, t)
  <2>1. Frames(stack) /\ Completing(heap, root, stack) /\ Running(heap, said, lev, F, stack)
    BY DEF Filling
  <2>2. Like(heap, heap, lev, lev, f.node)
    BY LikeSelf
  <2>3. At(heap, said, lev, G, t[Len(t)])
    BY <1>10, <1>11
  <2>4. Len(t) # 1 => Under(heap, lev, t[Len(t) - 1], t[Len(t)])
    <3>1. SUFFICES ASSUME Len(t) # 1 PROVE Under(heap, lev, stack[Len(t) - 1], NextDef(f))
      BY <1>11
    <3>2. Under(heap, lev, stack[Len(t) - 1], stack[Len(t)])
      <4>1. Len(t) \in DOMAIN stack
        BY <1>1, <1>11
      <4> QED
        BY <2>1, <3>1, <4>1 DEF Running
    <3>3. stack[Len(t)] = f
      BY <1>11
    <3> QED
      BY <1>13, <3>2, <3>3, UnderSame DEF Goes
  <2> QED
    BY ONLY <1>5, <1>6, <1>11, <1>12, <2>1, <2>2, <2>3, <2>4, CallsLike
<1>15. Upward(heap, G, t)
  <2>1. ASSUME NEW e \in G \ F, NEW p \in Ids, Holds(heap, p, e)
        PROVE  \E k \in DOMAIN t : t[k].node = p /\ Seen(t[k].level, t[k].def, heap[e].name)
    <3>1. e = Top.node
      BY <2>1 DEF G
    <3>2. p = f.node
      BY <1>1, <1>4, <1>6, <1>8, <2>1, <3>1 DEF Holds, Tree, Once
    <3>3. Seen(f.level, f.def + 1, heap[e].name)
      <4>1. f.def \in 1..((f.def + 1) - 1)
        BY <1>1
      <4> QED
        BY <1>8, <3>1, <4>1 DEF Seen
    <3> QED
      BY <1>11, <1>13, <3>2, <3>3 DEF Goes
  <2>2. Upward(heap, F, stack)
    BY DEF Filling
  <2>3. \A e \in G \ F : \A p \in Ids : Holds(heap, p, e) =>
          \E k \in DOMAIN t : t[k].node = p /\ Seen(t[k].level, t[k].def, heap[e].name)
    BY <2>1
  <2> QED
    BY ONLY <1>5, <1>11, <2>2, <2>3, UpwardMore, Zenon
<1>16. Touched(heap, said, G, t)
  BY <1>5, <1>11, TouchedMore DEF Filling
<1>17. lev[root] = 1 /\ Legal(heap, said, lev, dropped, {})
  BY DEF Filling
<1> QED
  BY <1>3, <1>14, <1>15, <1>16, <1>17 DEF Filling, G

(* A section gets an entry that was made before.                           *)
LEMMA TakesIs ==
  ASSUME NEW h, Heap(h), NEW out, Tree(h, out), NEW sec \in Ids, IsSec(h[sec]), NEW id, NEW lev,
         NEW x, Longer(x, h[sec].opts, id), NEW g, g = WithOpts(h, sec, x)
  PROVE  /\ Like(h, g, lev, lev, sec) /\ Adds(h, g, sec, id) /\ Longer(g[sec].opts, h[sec].opts, id)
         /\ Unset(h, g)
<1>1. Array(x) /\ Array(h[sec].opts)
  BY DEF Longer, Heap, IsNode
<1>2. /\ \A i \in Ids \ {sec} : g[i] = h[i]
      /\ g[sec].opts = x /\ But(g[sec], h[sec])
  BY <1>1, HeapOpts
<1>3. \A i \in Ids : Same(g[i], h[i]) /\ g[i].vals = h[i].vals /\ g[i].kind = h[i].kind
  <2>1. Same(g[sec], h[sec]) /\ g[sec].vals = h[sec].vals
    BY <1>2 DEF But, Same
  <2>2. ASSUME NEW i \in Ids, i # sec PROVE Same(g[i], h[i]) /\ g[i].vals = h[i].vals
    <3>1. g[i] = h[i]
      BY <1>2, <2>2
    <3> QED
      BY <3>1 DEF Same
  <2> QED
    BY <2>1, <2>2 DEF Same
<1>4. Longer(g[sec].opts, h[sec].opts, id)
  BY <1>2
<1>5. \A e : Holds(g, sec, e) <=> e = id \/ Holds(h, sec, e)
  BY <1>1, <1>4, HoldsLonger
<1>6. ASSUME NEW i \in Ids, h[i].kind = "unused" PROVE g[i].opts = <<>>
  <2>1. ~IsSec(h[i]) /\ i # sec
    BY <1>6 DEF IsSec
  <2> QED
    BY <1>2, <2>1, UnusedEmpty
<1> QED
  BY <1>2, <1>3, <1>4, <1>5, <1>6 DEF Like, Adds, Unset

(* A section that was made for a definition is done, and joins its caller's. *)
LEMMA ReturnFresh ==
  ASSUME Heap(heap), root \in Ids, Frames(stack), Tree(heap, {root} \cup Hands(stack)),
         Completing(heap, root, stack), SaidIs(heap, said),
         NEW lev \in Levels, NEW F \in SUBSET Ids, Filling(heap, said, lev, dropped, F, root, stack),
         Top.def > Len(Schema[Top.level]), Len(stack) # 1, Top.fresh,
         NEW f, f = stack[Len(stack) - 1], NEW t, t = [Pop EXCEPT ![Len(Pop)] = Added(f)],
         NEW x, Longer(x, heap[f.node].opts, Top.node), NEW g, g = WithOpts(heap, f.node, x)
  PROVE  SaidIs(g, said) /\ Filling(g, said, lev, dropped, F \cup {Top.node}, root, t)
<1> DEFINE def == Schema[f.level][f.def]
           G == F \cup {Top.node}
           id == Top.node
           sec == f.node
           out == {root} \cup Hands(stack)
<1>1. /\ Array(stack) /\ Len(stack) \in DOMAIN stack /\ Len(stack) - 1 \in DOMAIN stack /\ Len(stack) > 1
      /\ Top = stack[Len(stack)] /\ sec # id
      /\ sec \in Ids /\ IsSec(heap[sec]) /\ IsFrame(f) /\ At(heap, said, lev, F, f) /\ sec \notin F
      /\ f.level \in DOMAIN Schema /\ f.def \in DOMAIN Schema[f.level] /\ f.def \in Int
      /\ Len(Schema[f.level]) \in Nat /\ DOMAIN Schema[f.level] = 1..Len(Schema[f.level])
      /\ Under(heap, lev, f, Top)
  BY CallerIs
<1>2. \A k \in DOMAIN stack : stack[k].def \in Int /\ stack[k].node \notin F /\ stack[k].node \in Ids
                              /\ IsSec(heap[stack[k].node])
  BY CallIs
<1>3. Good(heap, lev, G)
  BY LevelDone
<1>4. /\ def.type = "sec" /\ Hits(heap, sec, def) = {} /\ heap[id].name = def.name /\ heap[id].kind = "sec"
      /\ "NODEFAULT" \notin heap[id].flags /\ lev[id] = def.opts
  BY <1>1 DEF Under
<1>5. sec \notin G /\ F \subseteq G /\ id \in G /\ id \in Ids /\ id \notin F /\ G \ F = {id}
  BY <1>1, <1>2
<1>6. id \in out /\ Tree(heap, out)
  BY <1>1 DEF Hands
<1>7. /\ lev[root] = 1 /\ Legal(heap, said, lev, dropped, {}) /\ Good(heap, lev, F) /\ Upward(heap, F, stack)
      /\ Touched(heap, said, F, stack) /\ Running(heap, said, lev, F, stack)
  BY DEF Filling
<1> HIDE DEF G, id, sec, out, def
<1>8. /\ Like(heap, g, lev, lev, sec) /\ Adds(heap, g, sec, id) /\ Longer(g[sec].opts, heap[sec].opts, id)
      /\ Unset(heap, g) /\ \A i \in Ids : g[i].kind = heap[i].kind /\ (i # sec => g[i] = heap[i])
  <2>1. g = WithOpts(heap, sec, x) /\ Longer(x, heap[sec].opts, id)
    BY DEF sec, id
  <2>2. Heap(heap) /\ Tree(heap, out) /\ sec \in Ids /\ IsSec(heap[sec])
    BY <1>1, <1>6
  <2>3. Like(heap, g, lev, lev, sec)
    BY ONLY <2>1, <2>2, TakesIs
  <2>4. Adds(heap, g, sec, id) /\ Longer(g[sec].opts, heap[sec].opts, id)
    BY ONLY <2>1, <2>2, TakesIs
  <2>5. Unset(heap, g)
    BY ONLY <2>1, <2>2, <2>3, TakesIs
  <2>6. \A i \in Ids : g[i].kind = heap[i].kind /\ (i # sec => g[i] = heap[i])
    <3>1. Array(x)
      BY DEF Longer
    <3>2. (\A i \in Ids \ {sec} : g[i] = heap[i]) /\ But(g[sec], heap[sec])
      BY <2>1, <2>2, <3>1, HeapOpts
    <3> QED
      BY <3>2 DEF But
  <2> QED
    BY <2>3, <2>4, <2>5, <2>6
<1>9. g[id] = heap[id]
  BY <1>1, <1>5, <1>8
<1>10. /\ Section(g, said, lev, dropped, {}, sec)
       /\ At(g, said, lev, G, Added(f)) /\ Onward(f, Added(f))
  <2>1. Array(said[sec]) /\ Matches(def, def.name, g[id].name)
    BY <1>1, <1>4, <1>9, MatchesIs DEF SaidIs
  <2>2. HasValues(g[id], f.level, dropped)
    BY <1>4, <1>9 DEF HasValues
  <2>3. Suits(g[id], lev[id], def, f.level, dropped)
    BY <1>4, <1>9, <2>1, <2>2 DEF Suits
  <2>4. Heap(heap) /\ Ready(def, id, G) /\ f.node = sec /\ lev \in Levels /\ def = Schema[f.level][f.def]
    BY <1>5 DEF Ready, sec, def
  <2>5. /\ Heap(heap) /\ Tree(heap, out) /\ sec \in Ids /\ IsSec(heap[sec])
        /\ Like(heap, g, lev, lev, sec) /\ Unset(heap, g) /\ Longer(g[sec].opts, heap[sec].opts, id)
        /\ Legal(heap, said, lev, dropped, {}) /\ F \subseteq G /\ sec \notin G
        /\ IsFrame(f) /\ f.node = sec /\ At(heap, said, lev, F, f) /\ f.level \in DOMAIN Schema
        /\ f.def \in DOMAIN Schema[f.level] /\ Array(said[sec]) /\ def = Schema[f.level][f.def]
        /\ Hits(heap, sec, def) = {} /\ Suits(g[id], lev[id], def, f.level, dropped) /\ Ready(def, id, G)
    BY <1>1, <1>4, <1>5, <1>6, <1>7, <1>8, <2>1, <2>3, <2>4
  <2> QED
    BY ONLY <2>5, EntryAdded
<1>11. Legal(g, said, lev, dropped, {})
  <2>1. AllSet(heap, g, lev, dropped, {})
    <3>1. {} \subseteq {} /\ \A i \in Ids : heap[i].kind # "unused" => g[i].vals = heap[i].vals
      BY <1>8 DEF Unset
    <3> QED
      BY <1>6, <1>7, <1>8, <3>1, AllSetIs
  <2>2. \A i \in Ids : heap[i].kind = "unused" /\ IsSec(g[i]) => Bare(g, said, i)
    BY <1>8 DEF IsSec
  <2>3. (\A s \in Ids : s # sec => said[s] = said[s]) /\ lev \in Levels
    OBVIOUS
  <2>4. sec \in Ids /\ IsSec(g[sec]) => Section(g, said, lev, dropped, {}, sec)
    BY <1>10
  <2> QED
    BY ONLY <1>6, <1>7, <1>8, <2>1, <2>2, <2>3, <2>4, LegalLike
<1>12. Good(g, lev, G)
  BY <1>3, <1>5, <1>6, <1>8, GoodLike
<1>13. /\ Array(t) /\ Len(t) > 0 /\ Len(t) = Len(stack) - 1 /\ Waits(stack, t) /\ Covers(stack, t, G)
       /\ Len(t) \in DOMAIN t /\ t[Len(t)] = Added(f)
       /\ Len(t) # 1 => t[Len(t) - 1] = stack[Len(t) - 1] /\ Len(t) - 1 \in DOMAIN stack
  <2> DEFINE s == stack
             a == Added(f)
             u == [SubSeq(s, 1, Len(s) - 1) EXCEPT ![Len(SubSeq(s, 1, Len(s) - 1))] = a]
  <2>1. t = u
    BY Zenon DEF Pop
  <2>2. /\ Array(s) /\ Len(s) > 1 /\ (\A k \in DOMAIN s : s[k].def \in Int) /\ Onward(s[Len(s) - 1], a)
        /\ s[Len(s)].node \in G
    BY <1>1, <1>2, <1>5, <1>10 DEF id
  <2> HIDE DEF a, s
  <2>3. /\ Array(u) /\ Len(u) > 0 /\ Len(u) = Len(s) - 1 /\ Waits(s, u) /\ Covers(s, u, G)
        /\ Len(u) \in DOMAIN u /\ u[Len(u)] = a
        /\ Len(u) # 1 => u[Len(u) - 1] = s[Len(u) - 1] /\ Len(u) - 1 \in DOMAIN s
    BY ONLY <2>2, ReturnCalls, Zenon
  <2> HIDE DEF u
  <2> QED
    BY <2>1, <2>3 DEF s, a
<1>14. Goes(f, Added(f)) /\ Added(f).node = sec /\ Added(f).level = f.level /\ Added(f).def = f.def + 1
  BY <1>1, NextIs, NextHas DEF Goes, sec
<1>15. Upward(g, G, t)
  <2>1. Upward(g, F, stack)
    BY <1>5, <1>7, <1>8, UpwardLike
  <2>2. ASSUME NEW e \in G \ F, NEW p \in Ids, Holds(g, p, e)
        PROVE  \E k \in DOMAIN t : t[k].node = p /\ Seen(t[k].level, t[k].def, g[e].name)
    <3>1. e = id
      BY <1>5, <2>2
    <3>2. p = sec
      <4>1. ~Holds(heap, p, id)
        BY <1>6 DEF Holds, Tree, Alive
      <4> QED
        BY <1>8, <2>2, <3>1, <4>1 DEF Holds
    <3>3. Seen(f.level, f.def + 1, g[e].name)
      <4>1. f.def \in 1..((f.def + 1) - 1)
        BY <1>1
      <4>2. Matches(def, def.name, g[e].name) /\ def = Schema[f.level][f.def]
        BY <1>4, <1>9, <3>1, MatchesIs DEF def
      <4> QED
        BY <4>1, <4>2 DEF Seen
    <3> QED
      BY <1>13, <1>14, <3>2, <3>3
  <2>3. \A e \in G \ F : \A p \in Ids : Holds(g, p, e) =>
          \E k \in DOMAIN t : t[k].node = p /\ Seen(t[k].level, t[k].def, g[e].name)
    BY <2>2
  <2> QED
    BY ONLY <1>5, <1>13, <2>1, <2>3, UpwardMore, Zenon
<1>16. Touched(g, said, G, t)
  <2>1. Touched(g, said, F, stack)
    <3>1. \A i \in Ids : heap[i].kind = "unused" => g[i].opts = <<>>
      BY <1>8 DEF Adds
    <3>2. \E k \in DOMAIN stack : stack[k].node = sec
      BY <1>1 DEF sec
    <3> QED
      BY <1>7, <1>8, <3>1, <3>2, TouchedLike
  <2> QED
    BY <1>5, <1>13, <2>1, TouchedMore
<1>17. Others(t, sec, G)
  <2>1. DOMAIN t = 1..Len(t)
    BY <1>13 DEF Array
  <2> QED
    BY <1>1, <1>2, <1>13, <2>1, OthersPop DEF G, id, sec
<1>18. Running(g, said, lev, G, t)
  <2>1. Frames(stack) /\ Completing(heap, root, stack)
    OBVIOUS
  <2>2. At(g, said, lev, G, t[Len(t)])
    BY <1>10, <1>13
  <2>3. Len(t) # 1 => Under(g, lev, t[Len(t) - 1], t[Len(t)])
    <3>1. SUFFICES ASSUME Len(t) # 1 PROVE Under(g, lev, stack[Len(t) - 1], Added(f))
      BY <1>13
    <3>2. Len(t) \in DOMAIN stack /\ Len(t) - 1 \in DOMAIN stack /\ stack[Len(t)] = f /\ stack[Len(t)].node = sec
      BY <1>1, <1>13, <3>1 DEF sec
    <3> QED
      BY ONLY <1>6, <1>7, <1>8, <1>14, <2>1, <3>1, <3>2, UnderAdded
  <2> QED
    BY ONLY <1>5, <1>6, <1>7, <1>8, <1>13, <1>17, <2>1, <2>2, <2>3, CallsLike
<1>19. SaidIs(g, said)
  BY <1>8 DEF SaidIs
<1>20. Filling(g, said, lev, dropped, G, root, t)
  BY <1>7, <1>11, <1>12, <1>15, <1>16, <1>18 DEF Filling
<1> QED
  BY <1>19, <1>20 DEF G, id

(* A level is done: its section has its defaults, and its caller goes on.  *)
LEMMA ReturnKnown ==
  ASSUME Heap(heap), root \in Ids, Frames(stack), Tree(heap, {root} \cup Hands(stack)),
         Completing(heap, root, stack), phase = "defaults", DefaultsReturn, SaidIs(heap, said),
         NEW lev \in Levels, NEW F \in SUBSET Ids, Filling(heap, said, lev, dropped, F, root, stack)
  PROVE  Loading'
<1> DEFINE G == F \cup {Top.node}
<1>1. /\ Top.def > Len(Schema[Top.level]) /\ root' = root /\ said' = said /\ dropped' = dropped
  BY DEF DefaultsReturn, inDefaults
<1>2. G \in SUBSET Ids /\ Good(heap, lev, G)
  BY <1>1, LevelDone
<1>3. CASE Len(stack) = 1
  <2>1. phase' = "validate" /\ heap' = heap
    BY <1>3 DEF DefaultsReturn
  <2>2. Top.node = root
    BY <1>3, LevelIs DEF Completing
  <2>3. Ended(heap, said, lev, dropped, G, root)
    BY <1>2, <2>2 DEF Filling, Ended
  <2> HIDE DEF G
  <2>4. Ended(heap', said', lev, dropped', G, root')
    BY <1>1, <2>1, <2>3
  <2> QED
    BY <1>2, <2>1, <2>4 DEF Loading
<1>4. CASE Len(stack) # 1
  <2> DEFINE caller == Pop[Len(Pop)]
             put == Attach(caller.node, heap, Top.node)
             f == stack[Len(stack) - 1]
             a == [Pop EXCEPT ![Len(Pop)] = Added(f)]
             b == [Pop EXCEPT ![Len(Pop)] = NextDef(f)]
  <2>1. Len(stack) \in DOMAIN stack /\ Len(stack) - 1 \in DOMAIN stack /\ f.node \in Ids
    BY <1>4, CallerIs
  <2>2. caller = f
    <3>1. Len(stack) - 1 \in Nat /\ Len(stack) - 1 > 0 /\ DOMAIN stack = 1..Len(stack) /\ Array(stack)
      BY <2>1 DEF Frames, Array
    <3>2. LET p == SubSeq(stack, 1, Len(stack) - 1) IN Array(p) /\ Len(p) = Len(stack) - 1 /\ \A k \in DOMAIN p : p[k] = stack[k]
      BY <3>1, PopIs
    <3>3. Array(Pop) /\ Len(Pop) = Len(stack) - 1 /\ \A k \in DOMAIN Pop : Pop[k] = stack[k]
      BY <3>2 DEF Pop
    <3>4. Len(Pop) \in DOMAIN Pop
      BY <3>1, <3>3 DEF Array
    <3> QED
      BY <3>3, <3>4
  <2>3. /\ phase' = phase
        /\ Top.fresh => put.pos >= 0 /\ heap' = put.heap /\ stack' = a
        /\ ~Top.fresh => heap' = heap /\ stack' = b
    <3>1. /\ phase' = phase
          /\ Top.fresh => /\ put.pos >= 0 /\ heap' = put.heap
                          /\ stack' = [Pop EXCEPT ![Len(Pop)] = Added(caller)]
          /\ ~Top.fresh => heap' = heap /\ stack' = [Pop EXCEPT ![Len(Pop)] = NextDef(caller)]
      BY <1>4, Zenon DEF DefaultsReturn
    <3> HIDE DEF caller, f, put
    <3> QED
      BY <2>2, <3>1, Zenon
  <2>4. CASE Top.fresh
    <3>1. PICK x : heap' = WithOpts(heap, f.node, x) /\ Longer(x, heap[f.node].opts, Top.node)
      <4>1. \E x : put.heap = WithOpts(heap, f.node, x) /\ Longer(x, heap[f.node].opts, Top.node)
        <5>1. put = Attach(f.node, heap, Top.node) /\ put.pos >= 0
          BY <2>2, <2>3, <2>4, Zenon
        <5> HIDE DEF caller, f
        <5> QED
          BY <2>1, <5>1, AttachIs
      <4> HIDE DEF put
      <4> QED
        BY <2>3, <2>4, <4>1
    <3> DEFINE g == WithOpts(heap, f.node, x)
    <3>2. SaidIs(g, said) /\ Filling(g, said, lev, dropped, G, root, a)
      <4>1. f = stack[Len(stack) - 1] /\ g = WithOpts(heap, f.node, x) /\ a = [Pop EXCEPT ![Len(Pop)] = Added(f)]
        OBVIOUS
      <4> HIDE DEF f, g, a
      <4> QED
        BY <1>1, <1>4, <2>4, <3>1, <4>1, ReturnFresh
    <3>3. heap' = g /\ stack' = a
      BY <2>3, <2>4, <3>1
    <3> HIDE DEF g, a, G
    <3>4. SaidIs(heap', said') /\ Filling(heap', said', lev, dropped', G, root', stack')
      BY <1>1, <3>2, <3>3
    <3> QED
      BY <1>2, <2>3, <3>4 DEF Loading
  <2>5. CASE ~Top.fresh
    <3>1. Filling(heap, said, lev, dropped, G, root, b)
      <4>1. f = stack[Len(stack) - 1] /\ b = [Pop EXCEPT ![Len(Pop)] = NextDef(f)]
        OBVIOUS
      <4> HIDE DEF f, b
      <4> QED
        BY <1>1, <1>4, <2>5, <4>1, ReturnEntry
    <3>2. heap' = heap /\ stack' = b
      BY <2>3, <2>5
    <3> HIDE DEF b, G
    <3>3. SaidIs(heap', said') /\ Filling(heap', said', lev, dropped', G, root', stack')
      BY <1>1, <3>1, <3>2
    <3> QED
      BY <1>2, <2>3, <3>3 DEF Loading
  <2> QED
    BY <2>4, <2>5
<1> QED
  BY <1>3, <1>4

(* Every step of vt_config_defaults.                                       *)
LEMMA DefaultsKnown ==
  ASSUME Heap(heap), Shape(phase, heap, root, stack), DefaultsStep, why' = "none", Loading
  PROVE  Loading'
<1>1. /\ phase = "defaults" /\ root \in Ids /\ Frames(stack) /\ Tree(heap, {root} \cup Hands(stack))
      /\ Completing(heap, root, stack)
  <2>1. phase = "defaults"
    BY DEF DefaultsStep, DefaultPresent, DefaultSec, DefaultOpt, DefaultsReturn, DefaultsFail,
           DefaultsStale, AtDef
  <2> QED
    BY <2>1 DEF Shape
<1>2. SaidIs(heap, said)
  BY <1>1 DEF Loading
<1>3. PICK lev \in Levels, F \in SUBSET Ids : Filling(heap, said, lev, dropped, F, root, stack)
  BY <1>1 DEF Loading
<1>4. CASE DefaultPresent
  BY <1>1, <1>2, <1>3, <1>4, PresentKnown
<1>5. CASE DefaultSec
  BY <1>1, <1>2, <1>3, <1>5, NewSectionKnown
<1>6. CASE DefaultOpt
  BY <1>1, <1>2, <1>3, <1>6, NewOptionKnown
<1>7. CASE DefaultsReturn
  BY <1>1, <1>2, <1>3, <1>7, ReturnKnown
<1>8. CASE DefaultsFail
  BY <1>8, LoadingOver DEF DefaultsFail
<1>9. CASE DefaultsStale
  BY <1>9 DEF DefaultsStale
<1> QED
  BY <1>4, <1>5, <1>6, <1>7, <1>8, <1>9 DEF DefaultsStep

(* The look for duplicates leaves the tree as it is.                       *)
LEMMA ValidateKnown ==
  ASSUME Validate, Loading
  PROVE  Loading'
<1>1. phase = "validate"
  BY DEF Validate
<1>2. CASE phase' = "failed"
  BY <1>2, LoadingOver
<1>3. CASE phase' # "failed"
  <2>1. ~Reject
    BY <1>3 DEF Reject
  <2>2. /\ phase' = "done" /\ UNCHANGED <<tree, stack>>
        /\ \A d \in DOMAIN Schema[1] : {"TITLE", "NODUPES"} \subseteq Schema[1][d].flags => ~SameTitle(Schema[1][d])
    BY <2>1, Zenon DEF Validate
  <2>3. UNCHANGED <<heap, root, said, dropped>>
    BY <2>2 DEF tree
  <2>4. NoTwins
    BY <2>2 DEF NoTwins
  <2>5. NoTwins'
    BY <2>3, <2>4 DEF NoTwins, SameTitle, Opts
  <2>6. \E lev \in Levels, F \in SUBSET Ids : Ended(heap, said, lev, dropped, F, root)
    BY <1>1 DEF Loading
  <2>7. \E lev \in Levels, F \in SUBSET Ids : Ended(heap', said', lev, dropped', F, root')
    BY <2>3, <2>6
  <2> QED
    BY <2>2, <2>5, <2>7 DEF Loading
<1> QED
  BY <1>2, <1>3

(* Calls are counted, but for the last.                                    *)
LEMMA CallsCount ==
  ASSUME Calls, ncalls \in Nat
  PROVE  phase = "done" /\ ncalls' \in Nat /\ UNCHANGED <<said, pending>> /\ (ncalls' > 0 \/ phase' = "closed")
<1>1. ASSUME NEW h, NEW whole, Calling, Changed(h, whole)
      PROVE  phase = "done" /\ ncalls' \in Nat /\ ncalls' > 0 /\ UNCHANGED <<said, pending>>
  BY <1>1 DEF Changed, Calling
<1>2. ASSUME NEW type, ValueCalls(type) PROVE Calling /\ \E h, whole : Changed(h, whole)
  BY <1>2, Zenon DEF ValueCalls, Setn, Unsetn
<1>3. ASSUME SecCalls PROVE Calling /\ \E h, whole : Changed(h, whole)
  <2>1. ASSUME NEW sec, SecValueCalls(sec) PROVE \E h, whole : Changed(h, whole)
    BY <2>1, Zenon DEF SecValueCalls, Setn
  <2>2. ASSUME NEW sec, NEW node, NEW idx, NEW inst, Offer(sec, node, idx, inst)
        PROVE  \E h, whole : Changed(h, whole)
    BY <2>2, Zenon DEF Offer
  <2>3. ASSUME NEW sec, SecSetnOpt(sec) \/ SecSetnSec(sec) PROVE \E h, whole : Changed(h, whole)
    BY <2>2, <2>3, Zenon DEF SecSetnOpt, SecSetnSec
  <2>4. ASSUME NEW sec, SecUnsetnOpt(sec) \/ SecUnsetnSec(sec) PROVE \E h, whole : Changed(h, whole)
    BY <2>4, Zenon DEF SecUnsetnOpt, SecUnsetnSec, SecUnsetn
  <2> QED
    BY <1>3, <2>1, <2>3, <2>4, Zenon DEF SecCalls
<1>4. ASSUME Close PROVE phase = "done" /\ phase' = "closed" /\ UNCHANGED <<said, pending, ncalls>>
  BY <1>4 DEF Close
<1> QED
  BY <1>1, <1>2, <1>3, <1>4 DEF Calls, BoolCalls, IntCalls, FloatCalls, StrCalls

(* The tokens the lexer makes, and the one that is handed back.            *)
LEMMA TokensAre ==
  ASSUME NEW t \in Tokens \cup {EndOfFile, NoToken}, t.t = "STR"
  PROVE  t.v \in Words
<1>1. \A x, y : Token(x, y).t = x /\ Token(x, y).v = y
  BY DEF Token
<1>2. "STR" \notin Symbols /\ "STR" \notin Scalars
  BY DEF Symbols, Scalars
<1>3. t # EndOfFile /\ t # NoToken
  <2>1. EndOfFile.t = "EOF" /\ NoToken.t = "NONE"
    BY DEF EndOfFile, NoToken, Token
  <2> QED
    BY <2>1
<1>4. t \in Tokens
  BY <1>3
<1>5. \/ \E x \in Symbols \cup Scalars : \E y : t = Token(x, y)
      \/ \E w \in Words : t = Token("STR", w)
  BY <1>4, Zenon DEF Tokens
<1> QED
  BY <1>1, <1>2, <1>5

(* A token that is handed back is one the lexer made.                      *)
LEMMA PendingToken ==
  ASSUME pending \in Tokens \cup {NoToken}, ncalls \in Nat, ConfigNext
  PROVE  pending' \in Tokens \cup {NoToken}
<1>1. ASSUME ParseStep PROVE pending' \in Tokens \cup {NoToken}
  <2>1. PICK t \in IF pending # NoToken THEN {pending}
                   ELSE {EndOfFile} \cup IF ntok < MaxTokens THEN Tokens ELSE {} :
          pending' = IF HandsBack(t) THEN t ELSE NoToken
    BY <1>1, Zenon DEF ParseStep
  <2>2. EndOfFile.t = "EOF"
    BY DEF EndOfFile, Token
  <2>3. ~HandsBack(EndOfFile)
    BY <2>2 DEF HandsBack, ValueTypes, Scalars
  <2>4. t \in Tokens \cup {NoToken, EndOfFile}
    BY <2>1
  <2> QED
    BY <2>1, <2>3, <2>4
<1>2. ReadStep \/ DefaultsStep \/ Validate => pending' = pending
  BY DEF ReadStep, ReadBlock, ReadInterrupted, ReadFails, ReadEnd, DefaultsStep, DefaultPresent,
         DefaultSec, DefaultOpt, DefaultsReturn, DefaultsFail, DefaultsStale, inDefaults, Validate
<1>3. Calls => pending' = pending
  BY CallsCount
<1> QED
  BY <1>1, <1>2, <1>3, Zenon DEF ConfigNext, Load

(* Where loading is over, nothing has gone wrong but by a call.            *)
LEMMA LoadedWell ==
  ASSUME phase \in {"validate", "done"} /\ ncalls = 0 => why = "none", ncalls \in Nat, ConfigNext
  PROVE  phase' \in {"validate", "done"} /\ ncalls' = 0 => why' = "none"
<1>1. why = "none" /\ (Load \/ Calls)
  BY DEF ConfigNext
<1>2. ASSUME ReadStep PROVE phase' \notin {"validate", "done"}
  BY <1>2 DEF ReadStep, ReadBlock, ReadInterrupted, ReadFails, ReadEnd
<1>3. ASSUME ParseStep PROVE phase' \notin {"validate", "done"}
  <2>1. phase = "parse" /\ \E t : Parse(t) \/ ParseSec(t) \/ ParseOpt(t)
    BY <1>3, Zenon DEF ParseStep
  <2>2. ASSUME NEW t, Parse(t) PROVE phase' \in {"parse", "failed", "defaults"}
    BY <2>1, <2>2 DEF Parse, Declare, Reject
  <2>3. ASSUME NEW t, ParseSec(t) PROVE phase' \in {"parse", "failed", "defaults"}
    BY <2>1, <2>3 DEF ParseSec, Reject
  <2>4. ASSUME NEW t, ParseOpt(t) PROVE phase' \in {"parse", "failed", "defaults"}
    BY <2>1, <2>4 DEF ParseOpt, Reject
  <2> QED
    BY <2>1, <2>2, <2>3, <2>4
<1>4. ASSUME DefaultsStep PROVE phase' = "validate" => why' = why
  BY <1>4 DEF DefaultsStep, DefaultPresent, DefaultSec, DefaultOpt, DefaultsReturn, DefaultsFail,
              DefaultsStale, AtDef
<1>5. ASSUME DefaultsStep PROVE phase' # "done"
  BY <1>5 DEF DefaultsStep, DefaultPresent, DefaultSec, DefaultOpt, DefaultsReturn, DefaultsFail,
              DefaultsStale, AtDef
<1>6. ASSUME Validate PROVE why' = why
  BY <1>6 DEF Validate, Reject, tree
<1>7. ASSUME Calls PROVE ncalls' # 0 \/ phase' = "closed"
  BY <1>7, CallsCount
<1> QED
  BY <1>1, <1>2, <1>3, <1>4, <1>5, <1>6, <1>7 DEF Load

(* As long as nothing has gone wrong and no call has changed the tree, the *)
(* sections are what the file and the defaults made of them.               *)
LEMMA KnownAlways == ConfigSpec => []Known
<1>1. ConfigInit => Known
  <2>1. ASSUME ConfigInit PROVE Known
    <3>1. phase = "read" /\ heap = [i \in Ids |-> Unused] /\ ncalls = 0 /\ said = [i \in Ids |-> <<>>]
          /\ pending = NoToken /\ why = "none"
      BY <2>1 DEF ConfigInit
    <3>2. SaidIs(heap, said)
      BY <3>1, EmptyArray DEF SaidIs
    <3>3. Loading
      BY <3>1, <3>2 DEF Loading
    <3> QED
      BY <3>1, <3>3 DEF Known
  <2> QED
    BY <2>1
<1>2. Heap(heap) /\ Heap(heap)' /\ Sound /\ Known /\ [ConfigNext]_vars => Known'
  <2>1. SUFFICES ASSUME Heap(heap), Heap(heap'), Sound, Known, [ConfigNext]_vars PROVE Known'
    OBVIOUS
  <2>2. CASE UNCHANGED vars
    <3>1. UNCHANGED <<phase, heap, root, said, dropped, why, stack, pending, ncalls>>
      BY <2>2 DEF vars, tree
    <3>2. Loading => Loading'
      BY <3>1 DEF Loading, NoTwins, SameTitle, Opts
    <3> QED
      BY <2>1, <3>1, <3>2 DEF Known
  <2>3. CASE ConfigNext
    <3>1. why = "none" /\ (Load \/ Calls) /\ Shape(phase, heap, root, stack)
      BY <2>1, <2>3 DEF ConfigNext, Sound
    <3>2. ncalls \in Nat /\ pending \in Tokens \cup {NoToken}
      BY <2>1 DEF Known
    <3>3. pending' \in Tokens \cup {NoToken}
      BY <2>3, <3>2, PendingToken
    <3>4. phase' \in {"validate", "done"} /\ ncalls' = 0 => why' = "none"
      BY <2>1, <2>3, <3>2, LoadedWell DEF Known
    <3>5. CASE Load
      <4>1. ncalls' = ncalls
        BY <3>5 DEF Load, ReadStep, ReadBlock, ReadInterrupted, ReadFails, ReadEnd, ParseStep, DefaultsStep,
           DefaultPresent, DefaultSec, DefaultOpt, DefaultsReturn, DefaultsFail, DefaultsStale, inDefaults,
           Validate
      <4>2. ASSUME why' = "none", ncalls' = 0 PROVE Loading'
        <5>1. Loading
          BY <2>1, <3>1, <4>1, <4>2 DEF Known
        <5> QED
          BY <2>1, <3>1, <3>5, <4>2, <5>1, ReadKnown, ParseStepKnown, DefaultsKnown, ValidateKnown DEF Load
      <4> QED
        BY <3>2, <3>3, <3>4, <4>1, <4>2 DEF Known
    <3>6. CASE Calls
      <4>1. ncalls' \in Nat /\ (ncalls' > 0 \/ phase' = "closed")
        BY <3>2, <3>6, CallsCount
      <4>2. ncalls' = 0 => Loading'
        BY <4>1, LoadingOver
      <4> QED
        BY <3>3, <3>4, <4>1, <4>2 DEF Known
    <3> QED
      BY <3>1, <3>5, <3>6
  <2> QED
    BY <2>1, <2>2, <2>3
<1> QED
  BY <1>1, <1>2, HeapAlways, SoundAlways, PTL DEF ConfigSpec

(***************************************************************************)
(* What goes wrong, and why                                                *)
(***************************************************************************)

(* A walk to all the hits ends at the last of them.                        *)
LEMMA WalkLast ==
  ASSUME NEW len \in Nat, NEW hits \in SUBSET (1..len), len \in hits
  PROVE  Walk(hits, Cardinality(hits), len) = len
<1> DEFINE i == Walk(hits, Cardinality(hits), len)
<1>1. IsFiniteSet(hits) /\ Cardinality(hits) \in Nat
  BY HitsFinite
<1>2. i \in 0..len /\ (NUpto(hits, i) >= Cardinality(hits) \/ i = len)
  BY <1>1, WalkIs
<1> HIDE DEF i
<1>3. ASSUME i # len PROVE FALSE
  <2>1. Upto(hits, i) \in SUBSET (hits \ {len})
    BY <1>2, <1>3 DEF Upto
  <2>2. IsFiniteSet(hits \ {len}) /\ Cardinality(hits \ {len}) = Cardinality(hits) - 1
    BY <1>1, FS_RemoveElement
  <2>3. Cardinality(Upto(hits, i)) <= Cardinality(hits \ {len}) /\ Cardinality(Upto(hits, i)) \in Nat
    BY <2>1, <2>2, FS_Subset, FS_CardinalityType
  <2> QED
    BY <1>1, <1>2, <1>3, <2>2, <2>3 DEF NUpto
<1> QED
  BY <1>3 DEF i

\* The entries of a section that have a name, whatever its case
Alike(h, opts, name) == {k \in DOMAIN opts : SameName(h[opts[k]].name, name)}

(* The parser spoils an array when the name is there, but not at the end.  *)
LEMMA SpoiltIs ==
  ASSUME NEW h, NEW sec, NEW id, NEW inst, inst = {"APPEND", "COMPARE"}, NEW opts, opts = h[sec].opts,
         NEW len \in Nat, len = Len(opts), DOMAIN opts = 1..len, NEW name, name = h[id].name, name # "",
         ~SecSetnCmn(h, sec, id, -1, inst).whole
  PROVE  Alike(h, opts, name) # {} /\ len \notin Alike(h, opts, name)
<1> DEFINE pos == PutPos(h, sec, id, -1, inst)
           put == SecSetnCmn(h, sec, id, -1, inst)
           S == Alike(h, opts, name)
           n == Cardinality(S)
           p == Position(n, S, -1, inst \cup {"SET"}, len)
<1>1. ~(pos < 0) /\ pos # len
  <2> DEFINE none == [pos |-> -1, heap |-> h, whole |-> TRUE]
             more == [pos |-> pos, heap |-> WithOpts(h, sec, PutAt(opts, pos, id, Wild)),
                      whole |-> AtEnd(opts, pos)]
             other == [pos |-> pos, heap |-> Replaced(h, sec, id, pos), whole |-> TRUE]
  <2>1. put = IF pos < 0 THEN none ELSE IF Grows(h, sec, inst) THEN more ELSE other
    BY Zenon DEF SecSetnCmn, WithOpts, Replaced, Grows, PutPos
  <2>2. none.whole /\ other.whole /\ (more.whole <=> pos = len)
    BY Zenon DEF AtEnd
  <2> HIDE DEF pos, none, more, other
  <2>3. CASE pos < 0
    <3>1. put = none
      BY <2>1, <2>3, Zenon
    <3> QED
      BY <2>2, <3>1, Zenon
  <2>4. CASE ~(pos < 0)
    <3>1. put = more \/ put = other
      BY <2>1, <2>4, Zenon
    <3> QED
      BY <2>2, <2>4, <3>1, Zenon
  <2> QED
    BY <2>3, <2>4
<1>2. pos \in {-1, p}
  <2> DEFINE fits == {i \in DOMAIN opts : h[id].kind \in {"none", h[opts[i]].kind}}
             mixed == \E i, j \in S : h[opts[i]].kind # h[opts[j]].kind
             full == inst \cup {"SET"}
             taken == h[id].kind = "opt" /\ "COMPARE" \in full /\ full \cap (Insert \cup {"SET"}) # {}
  <2>1. "COMPARE" \in full
    OBVIOUS
  <2>2. pos = IF mixed \/ ~(S \subseteq fits) \/ (S # {} /\ taken) THEN -1
              ELSE Position(n, S \cap fits, -1, full, len)
    BY <2>1, Zenon DEF PutPos, SecGetnCmn, Alike
  <2>3. S \subseteq fits => S \cap fits = S
    OBVIOUS
  <2> HIDE DEF S, n, fits, mixed, taken, full, pos
  <2>4. CASE S \subseteq fits
    BY <2>2, <2>3, <2>4, Zenon DEF full
  <2>5. CASE ~(S \subseteq fits)
    BY <2>2, <2>5, Zenon
  <2> QED
    BY <2>4, <2>5
<1>3. S \in SUBSET (1..len)
  BY DEF Alike
<1>4. "APPEND" \in inst \cup {"SET"}
  OBVIOUS
<1> HIDE DEF S, pos, put
<1>5. IsFiniteSet(S) /\ n \in Nat
  BY <1>3, HitsFinite
<1>6. S = {} => p = len
  <2>1. S = {} => n = 0
    BY FS_EmptySet
  <2>2. n = 0 => p = len
    BY <1>4, Zenon DEF Position
  <2> QED
    BY <2>1, <2>2
<1>7. len \in S => p = len
  <2>1. ASSUME len \in S PROVE p = len
    <3>1. n # 0
      BY <1>5, <2>1, FS_EmptySet
    <3>2. p = Walk(S, Steps(n, -1), len) - 0
      BY <1>4, <3>1, Zenon DEF Position
    <3>3. Steps(n, -1) = n
      <4>1. \A m \in Nat : Steps(m, -1) = m
        BY ONLY DEF Steps
      <4> QED
        BY <1>5, <4>1
    <3>4. Walk(S, n, len) = len
      BY <1>3, <2>1, WalkLast
    <3>5. p = len - 0
      BY <3>2, <3>3, <3>4, Zenon
    <3>6. len \in Nat
      OBVIOUS
    <3> HIDE DEF p
    <3> QED
      BY ONLY <3>5, <3>6
  <2> QED
    BY <2>1
<1>8. p = pos
  <2> HIDE DEF p
  <2>1. pos = -1 \/ pos = p
    BY <1>2
  <2>2. pos = -1 => pos < 0
    BY ONLY TRUE
  <2> QED
    BY <1>1, <2>1, <2>2
<1> QED
  BY <1>1, <1>6, <1>7, <1>8 DEF S

(* The file came back to a name.                                           *)
LEMMA MovedIs ==
  ASSUME Heap(heap), root \in Ids, Frames(stack), Tree(heap, {root}), Parsing(heap, root, stack),
         Top.fn = "parse", NEW name \in Words, Declare(name), why' = "moved", why = "none",
         SaidIs(heap, said), NEW lev \in Levels, Reading(heap, said, lev, dropped, root, stack)
  PROVE  \E s \in Ids : ComesBack(said'[s])
<1> DEFINE id == NewId(heap)
           n == Entry(DefOf(name), name)
           sec == Top.node
           inst == {"APPEND", "COMPARE"}
           put == SecSetnCmn(WithNew(heap, n), sec, id, -1, inst)
           g == WithNew(heap, n)
           opts == heap[sec].opts
           len == Len(opts)
           x == said'[sec]
<1>1. ~Reject
  BY DEF Reject
<1>2. /\ Named(name) # {} /\ FreeIds(heap) # {} /\ said' = [said EXCEPT ![sec] = Append(@, name)]
      /\ why' = IF PutEntry(name).whole THEN "none" ELSE "moved"
  BY <1>1, DeclareCases, Zenon
<1>3. ~put.whole
  <2>1. put = PutEntry(name)
    BY Zenon DEF PutEntry, WithNew
  <2>2. ~PutEntry(name).whole
    BY <1>2
  <2> HIDE DEF put
  <2> QED
    BY <2>1, <2>2, Zenon
<1>4. Len(stack) \in DOMAIN stack /\ sec \in Ids /\ Parsed(heap, Top)
  BY TopIs DEF Top
<1>5. IsSec(heap[sec]) /\ Top.level \in DOMAIN Schema
  BY <1>4 DEF Parsed
<1>6. IsNode(n) /\ IsLive(n) /\ n.opts = <<>> /\ n.name = name
  <2>1. LET d == First(Named(name)) IN d \in DOMAIN Schema[Top.level]
    <3>1. Named(name) \subseteq DOMAIN Schema[Top.level] /\ DOMAIN Schema[Top.level] \subseteq Nat
      BY <1>5, SchemaAssumption DEF Named
    <3> QED
      BY <1>2, <3>1, FirstIs
  <2>2. DefOf(name).type \in {"opt", "sec"}
    BY <1>5, <2>1, SchemaAssumption DEF DefOf
  <2>3. IsNode(n) /\ n.kind = DefOf(name).type /\ n.opts = <<>> /\ n.name = name
    BY EntryIs
  <2> HIDE DEF n
  <2> QED
    BY <2>2, <2>3 DEF IsLive, IsOpt, IsSec
<1> HIDE DEF n
<1>7. Stays(heap, g) /\ g[id] = n
  BY <1>2, <1>6, TreeNew
<1> HIDE DEF g
<1>8. g[sec].opts = opts /\ \A k \in DOMAIN opts : g[opts[k]].name = heap[opts[k]].name
  <2>1. heap[sec].kind # "unused"
    BY <1>5 DEF IsSec
  <2>2. \A k \in DOMAIN opts : opts[k] \in Ids /\ heap[opts[k]].kind # "unused"
    BY <1>4, EntriesUsed
  <2> QED
    BY <1>4, <1>7, <2>1, <2>2 DEF Stays
<1>9. len \in Nat /\ DOMAIN opts = 1..len
  BY <1>4 DEF Heap, IsNode, Array
<1>10. name # ""
  BY WordsAssumption
<1> HIDE DEF id, opts, sec
<1>11. Alike(g, opts, name) # {} /\ len \notin Alike(g, opts, name)
  <2>1. ~SecSetnCmn(g, sec, id, -1, inst).whole /\ inst = {"APPEND", "COMPARE"}
    BY <1>3 DEF g
  <2>2. opts = g[sec].opts /\ name = g[id].name /\ len = Len(opts)
    BY <1>6, <1>7, <1>8
  <2> HIDE DEF len, inst
  <2> QED
    BY ONLY <1>9, <1>10, <2>1, <2>2, SpoiltIs
<1>12. PICK j \in DOMAIN opts : SameName(heap[opts[j]].name, name)
  BY <1>8, <1>11 DEF Alike
<1>13. len \in DOMAIN opts /\ j < len /\ ~SameName(heap[opts[len]].name, name)
  <2>1. len \notin Alike(g, opts, name) => len \notin DOMAIN opts \/ ~SameName(g[opts[len]].name, name)
    BY DEF Alike
  <2>2. j \in 1..len
    BY <1>9, <1>12
  <2> HIDE DEF len
  <2>3. len \in DOMAIN opts
    BY <1>9, <2>2
  <2>4. j # len
    BY <1>8, <1>11, <1>12, <2>1, <2>3
  <2> QED
    BY <1>8, <1>9, <1>11, <2>1, <2>2, <2>3, <2>4
<1>14. Array(said[sec]) /\ Len(said[sec]) = len /\ \A k \in DOMAIN opts : heap[opts[k]].name = said[sec][k]
  <2>1. Array(said[sec]) /\ Len(said[sec]) = len
    BY <1>4, <1>5 DEF SaidIs, Reading, NoMore, opts, sec
  <2>2. Section(heap, said, lev, dropped, Open(stack), sec)
    BY <1>4, <1>5 DEF Reading, Legal, sec
  <2>3. ASSUME NEW k \in DOMAIN opts PROVE heap[opts[k]].name = said[sec][k]
    <3>1. Origin(heap[opts[k]], said[sec], k)
      BY <2>2 DEF Section, Fitting, opts
    <3>2. k <= Len(said[sec])
      BY <1>9, <2>1
    <3> QED
      BY <3>1, <3>2 DEF Origin
  <2> QED
    BY <2>1, <2>3
<1>15. /\ DOMAIN x = 1..(len + 1) /\ x[len + 1] = name /\ \A k \in DOMAIN opts : x[k] = heap[opts[k]].name
  <2>1. x = Append(said[sec], name)
    BY <1>2, <1>4 DEF SaidIs, sec
  <2>2. /\ Array(Append(said[sec], name)) /\ Len(Append(said[sec], name)) = Len(said[sec]) + 1
        /\ \A k \in DOMAIN said[sec] : Append(said[sec], name)[k] = said[sec][k]
        /\ Append(said[sec], name)[Len(said[sec]) + 1] = name
    BY <1>14, PushIs
  <2>3. DOMAIN said[sec] = DOMAIN opts
    BY <1>9, <1>14 DEF Array
  <2> HIDE DEF x, len
  <2> QED
    BY <1>14, <2>1, <2>2, <2>3 DEF Array
<1> HIDE DEF x
<1>16. ComesBack(x)
  <2>1. j \in DOMAIN x /\ len \in DOMAIN x /\ len + 1 \in DOMAIN x /\ j < len /\ len < len + 1
    BY <1>9, <1>12, <1>13, <1>15
  <2>2. SameName(x[j], x[len + 1]) /\ ~SameName(x[j], x[len])
    <3>1. x[j] = heap[opts[j]].name /\ x[len] = heap[opts[len]].name /\ x[len + 1] = name
      BY <1>12, <1>13, <1>15
    <3> QED
      BY <1>12, <1>13, <3>1 DEF SameName
  <2> QED
    BY <2>1, <2>2 DEF ComesBack
<1> QED
  BY <1>4, <1>16 DEF x, sec

(* Two defaults were added.                                                *)
LEMMA StaleIs ==
  ASSUME root \in Ids, Frames(stack), Completing(heap, root, stack), DefaultsStale,
         NEW lev \in Levels, NEW F, Filling(heap, said, lev, dropped, F, root, stack)
  PROVE  \E s \in Ids : said'[s] # <<>> /\ Len(Opts(s)') > Len(said'[s])
<1>1. Top.grown /\ Top.nopts > 0 /\ heap' = heap /\ said' = said
  BY DEF DefaultsStale, inDefaults
<1>2. Len(stack) \in DOMAIN stack /\ Top = stack[Len(stack)]
  BY LevelIs
<1>3. Top.node \in Ids /\ At(heap, said, lev, F, Top)
  BY <1>2, CallIs
<1>4. Len(said[Top.node]) > 0 /\ Len(heap[Top.node].opts) > Len(said[Top.node])
  BY <1>1, <1>3 DEF At, Started, Sofar
<1>5. said[Top.node] # <<>>
  <2>1. ~(Len(<<>>) > 0)
    OBVIOUS
  <2> QED
    BY <1>4, <2>1
<1> QED
  BY <1>1, <1>3, <1>4, <1>5 DEF Opts

(* The first section that vt_config_defaults was called for and had not    *)
(* made is one that the file names, on its own level.                      *)
LEMMA TwiceIs ==
  ASSUME root \in Ids, Heap(heap), Frames(stack), Completing(heap, root, stack), SaidIs(heap, said),
         NEW lev \in Levels, NEW F, Filling(heap, said, lev, dropped, F, root, stack),
         \E k \in 2..Len(stack) : ~stack[k].fresh
  PROVE  \E n \in DOMAIN said[root] : \E d \in DOMAIN Schema[1] :
           Schema[1][d].type = "sec" /\ Matches(Schema[1][d], Schema[1][d].name, said[root][n])
<1> DEFINE S == {k \in 2..Len(stack) : ~stack[k].fresh}
           m == Len(stack)
<1>1. m \in Nat /\ DOMAIN stack = 1..m
  BY DEF Frames, Array
<1>2. S # {} /\ S \subseteq Nat
  BY <1>1
<1>3. PICK k \in S : \A j \in S : k <= j
  BY <1>2, LeastNat
<1> HIDE DEF m
<1>4. k \in DOMAIN stack /\ k - 1 \in DOMAIN stack /\ k # 1 /\ k \in Nat /\ ~stack[k].fresh
  BY <1>1, <1>3 DEF m
<1> DEFINE f == stack[k - 1]
           def == Schema[f.level][f.def]
           H == Hits(heap, f.node, def)
           opts == heap[f.node].opts
<1>5. /\ f.node \in Ids /\ IsSec(heap[f.node]) /\ At(heap, said, lev, F, f) /\ lev[f.node] = f.level
      /\ DOMAIN Schema[f.level] = 1..Len(Schema[f.level]) /\ f.def \in Int
      /\ f.def \in 1..(Len(Schema[f.level]) + 1) /\ Len(Schema[f.level]) \in Nat
      /\ Section(heap, said, lev, dropped, {}, f.node)
  BY <1>4, CallIs
<1>6. Under(heap, lev, f, stack[k])
  BY <1>4 DEF Filling, Running
<1>7. f.def <= Len(Schema[f.level]) /\ def.type = "sec" /\ H # {} /\ First(H) <= f.nopts
  BY <1>4, <1>6 DEF Under
<1>8. H \subseteq DOMAIN opts /\ \A j \in H : Matches(def, def.name, heap[opts[j]].name)
  BY DEF Hits
<1>9. DOMAIN opts \subseteq Nat \ {0}
  <2>1. Array(opts)
    BY <1>5 DEF Heap, IsNode
  <2> QED
    BY <2>1 DEF Array
<1>10. f.nopts = Len(said[f.node]) /\ (f.fresh => f.nopts = 0)
  BY <1>5 DEF At, Started
<1> HIDE DEF H, opts, def
<1>11. First(H) \in H
  <2>1. H \subseteq Nat
    BY <1>8, <1>9
  <2> QED
    BY <1>7, <2>1, FirstLeast
<1> DEFINE n == First(H)
<1>12. n \in DOMAIN opts /\ n \in Nat /\ n # 0 /\ n <= Len(said[f.node])
  BY <1>7, <1>8, <1>9, <1>10, <1>11
<1> HIDE DEF n
<1>13. k = 2
  <2>1. SUFFICES ASSUME k # 2 PROVE FALSE
    OBVIOUS
  <2>2. k - 1 \in 2..Len(stack)
    BY <1>1, <1>4, <2>1 DEF m
  <2>3. f.fresh
    <3>1. k - 1 < k
      BY <1>4
    <3>2. k - 1 \notin S
      BY <1>3, <1>4, <3>1, <2>2
    <3> QED
      BY <2>2, <3>2, Zenon
  <2>4. f.nopts = 0
    BY <1>10, <2>3
  <2> QED
    BY <1>10, <1>12, <2>4
<1>14. f.node = root /\ f.level = 1
  <2>1. k - 1 = 1
    BY <1>13
  <2> QED
    BY <1>5, <2>1 DEF Completing, Filling
<1>15. Matches(def, def.name, said[root][n])
  <2>1. Origin(heap[opts[n]], said[f.node], n)
    BY <1>5, <1>12 DEF Section, Fitting, opts
  <2>2. heap[opts[n]].name = said[f.node][n]
    BY <1>12, <2>1 DEF Origin
  <2> QED
    BY <1>8, <1>11, <1>14, <2>2 DEF n
<1>16. n \in DOMAIN said[root]
  <2>1. Array(said[root])
    BY DEF SaidIs
  <2> QED
    BY <1>12, <1>14, <2>1 DEF Array
<1>17. f.def \in DOMAIN Schema[1]
  BY <1>5, <1>7, <1>14
<1> HIDE DEF f
<1> QED
  BY <1>7, <1>14, <1>15, <1>16, <1>17 DEF def

(* What a section is when the tree is what the file made of it.            *)
LEMMA FileSays ==
  ASSUME Heap(heap), Sound, Known, why = "none", ncalls = 0
  PROVE  \A s \in Ids : IsSec(heap[s]) => FromFile(s, said[s])
<1>1. Shape(phase, heap, root, stack) /\ Loading
  BY DEF Sound, Known
<1>2. ASSUME NEW lev, NEW open, Legal(heap, said, lev, dropped, open), NEW s \in Ids, IsSec(heap[s])
      PROVE  FromFile(s, said[s])
  <2>1. Section(heap, said, lev, dropped, open, s)
    BY <1>2 DEF Legal
  <2> QED
    BY <2>1 DEF Section, Fitting, Origin, FromFile, Opts
<1>3. CASE phase = "read" \/ Gone(heap)
  <2>1. ~IsSec(Unused)
    BY UnusedIs DEF IsSec
  <2> QED
    BY <1>1, <1>3, <2>1 DEF Shape, Gone, IsLive
<1>4. CASE phase = "parse"
  BY <1>1, <1>2, <1>4 DEF Loading, Reading
<1>5. CASE phase = "defaults"
  BY <1>1, <1>2, <1>5 DEF Loading, Filling
<1>6. CASE phase \in {"validate", "done"}
  BY <1>1, <1>2, <1>6 DEF Loading, Ended
<1> QED
  BY <1>1, <1>3, <1>4, <1>5, <1>6 DEF Shape

(* A step that ends in an accident, and what the file was.                 *)
LEMMA AccidentIs ==
  ASSUME Heap(heap), Sound, Known, ConfigNext, why' # "none", ncalls' = 0
  PROVE  \/ why' = "assert" /\ ~got'
         \/ why' = "moved" /\ \E s \in Ids : ComesBack(said'[s])
         \/ why' = "stale" /\ \E s \in Ids : said'[s] # <<>> /\ Len(Opts(s)') > Len(said'[s])
         \/ /\ why' = "twice"
            /\ \/ phase' = "closed"
               \/ phase' = "failed" /\ \E s \in Ids : \E n \in DOMAIN said'[s] : \E d \in DOMAIN Schema[1] :
                    Schema[1][d].type = "sec" /\ Matches(Schema[1][d], Schema[1][d].name, said'[s][n])
<1>1. why = "none" /\ (Load \/ Calls) /\ Shape(phase, heap, root, stack) /\ ncalls \in Nat
      /\ pending \in Tokens \cup {NoToken}
  BY DEF ConfigNext, Sound, Known
<1>2. CASE ReadStep
  BY <1>1, <1>2 DEF ReadStep, ReadBlock, ReadInterrupted, ReadFails, ReadEnd, tree
<1>3. CASE Validate
  BY <1>1, <1>3 DEF Validate, Reject, tree
<1>4. CASE Calls
  <2>1. ~(ncalls' > 0)
    OBVIOUS
  <2>2. phase' = "closed"
    BY <1>1, <1>4, <2>1, CallsCount
  <2>3. ASSUME NEW h, NEW whole, Changed(h, whole) PROVE FALSE
    BY <1>1, <2>3 DEF Changed
  <2>4. ~ValueCalls("BOOL") /\ ~ValueCalls("INT") /\ ~ValueCalls("FLOAT") /\ ~ValueCalls("STR")
    BY <2>3, Zenon DEF ValueCalls, Setn, Unsetn
  <2>5. ~SecCalls
    <3>1. ASSUME NEW sec, SecValueCalls(sec) PROVE FALSE
      BY <2>3, <3>1, Zenon DEF SecValueCalls, Setn
    <3>2. ASSUME NEW sec, NEW node, NEW idx, NEW inst, Offer(sec, node, idx, inst) PROVE FALSE
      BY <2>3, <3>2, Zenon DEF Offer
    <3>3. ASSUME NEW sec, SecSetnOpt(sec) \/ SecSetnSec(sec) PROVE FALSE
      BY <3>2, <3>3, Zenon DEF SecSetnOpt, SecSetnSec
    <3>4. ASSUME NEW sec, SecUnsetnOpt(sec) \/ SecUnsetnSec(sec) PROVE FALSE
      BY <2>3, <3>4, Zenon DEF SecUnsetnOpt, SecUnsetnSec, SecUnsetn
    <3> QED
      BY <3>1, <3>3, <3>4, Zenon DEF SecCalls
  <2>6. Close
    BY <1>4, <2>4, <2>5, Zenon DEF Calls, BoolCalls, IntCalls, FloatCalls, StrCalls
  <2> QED
    BY <1>1, <2>2, <2>6 DEF Close
<1>5. ASSUME ParseStep \/ DefaultsStep PROVE Loading
  <2>1. ncalls' = ncalls
    BY <1>5 DEF ParseStep, DefaultsStep, DefaultPresent, DefaultSec, DefaultOpt, DefaultsReturn, DefaultsFail,
                DefaultsStale, inDefaults
  <2> QED
    BY <1>1, <2>1 DEF Known
<1>6. CASE ParseStep
  <2>1. phase = "parse" /\ Loading
    BY <1>5, <1>6 DEF ParseStep
  <2>2. PICK t \in Tokens \cup {EndOfFile, NoToken} : Parse(t) \/ ParseSec(t) \/ ParseOpt(t)
    <3>1. PICK t \in IF pending # NoToken THEN {pending}
                     ELSE {EndOfFile} \cup IF ntok < MaxTokens THEN Tokens ELSE {} :
            Parse(t) \/ ParseSec(t) \/ ParseOpt(t)
      BY <1>6, Zenon DEF ParseStep
    <3>2. t \in Tokens \cup {EndOfFile, NoToken}
      BY <1>1, <3>1
    <3> QED
      BY <3>1, <3>2
  <2>3. ~ParseSec(t)
    BY <1>1 DEF ParseSec, Reject, tree
  <2>4. ~ParseOpt(t)
    BY <1>1 DEF ParseOpt, Reject, tree
  <2>5. Top.fn = "parse" /\ t.t = "STR" /\ Declare(t.v)
    <3>1. Parse(t)
      BY <2>2, <2>3, <2>4
    <3>2. ~Reject
      BY <1>1 DEF Reject
    <3> QED
      BY <1>1, <3>1, <3>2 DEF Parse, tree
  <2>6. t.v \in Words
    BY <2>5, TokensAre
  <2>7. why' = "moved"
    <3>1. ~Reject
      BY <1>1 DEF Reject
    <3> QED
      BY <2>5, <3>1, DeclareCases
  <2>8. root \in Ids /\ Frames(stack) /\ Tree(heap, {root}) /\ Parsing(heap, root, stack)
    BY <1>1, <2>1 DEF Shape
  <2>9. SaidIs(heap, said) /\ \E lev \in Levels : Reading(heap, said, lev, dropped, root, stack)
    BY <2>1 DEF Loading
  <2> QED
    BY <1>1, <2>5, <2>6, <2>7, <2>8, <2>9, MovedIs
<1>7. CASE DefaultsStep
  <2>1. /\ phase = "defaults" /\ root \in Ids /\ Frames(stack) /\ Completing(heap, root, stack)
        /\ SaidIs(heap, said)
    <3>1. phase = "defaults"
      BY <1>7 DEF DefaultsStep, DefaultPresent, DefaultSec, DefaultOpt, DefaultsReturn, DefaultsFail,
           DefaultsStale, AtDef
    <3> QED
      BY <1>1, <1>5, <1>7, <3>1 DEF Shape, Loading
  <2>2. PICK lev \in Levels, F \in SUBSET Ids : Filling(heap, said, lev, dropped, F, root, stack)
    BY <1>5, <1>7, <2>1 DEF Loading
  <2>3. CASE DefaultsStale
    <3>1. why' = "stale"
      BY <2>3 DEF DefaultsStale
    <3> QED
      BY <2>1, <2>2, <2>3, <3>1, StaleIs
  <2>4. CASE DefaultsFail
    <3>1. /\ phase' = "failed" /\ said' = said /\ why' = "twice"
          /\ \E k \in 2..Len(stack) : ~stack[k].fresh
      BY <1>1, <2>4 DEF DefaultsFail, inDefaults
    <3> QED
      BY <2>1, <2>2, <3>1, TwiceIs
  <2>5. DefaultsStale \/ DefaultsFail
    BY <1>1, <1>7 DEF DefaultsStep, DefaultPresent, DefaultSec, DefaultOpt, DefaultsReturn
  <2> QED
    BY <2>3, <2>4, <2>5
<1> QED
  BY <1>1, <1>2, <1>3, <1>4, <1>6, <1>7 DEF Load

(* A section of the tree has the entries of the file in the file's order   *)
(* and its defaults behind them; what goes wrong in vt_config_parse_file   *)
(* goes wrong for the reason that is named: the file comes back to a name, *)
(* nothing was read, two defaults are added to a section of the file, or   *)
(* memory runs out in a section that is the file's.                        *)
THEOREM AsWrittenSafety == ConfigSpec => []AsWritten
<1>1. ConfigInit => (why = "none" \/ AsWritten)
  BY DEF ConfigInit
<1>2. Heap(heap) /\ Sound /\ Known /\ (why = "none" \/ AsWritten) /\ [ConfigNext]_vars
        => (why = "none" \/ AsWritten)'
  <2>1. SUFFICES ASSUME Heap(heap), Sound, Known, why = "none" \/ AsWritten, [ConfigNext]_vars, why' # "none"
                 PROVE  AsWritten'
    OBVIOUS
  <2>2. CASE UNCHANGED vars
    BY <2>1, <2>2 DEF vars, tree, reading, AsWritten, FromFile, Opts
  <2>3. CASE ConfigNext
    <3>1. CASE ncalls' # 0
      BY <3>1 DEF AsWritten
    <3>2. CASE ncalls' = 0
      <4>1. CASE why' = "assert" /\ ~got'
        BY <4>1 DEF AsWritten
      <4>2. CASE why' = "moved" /\ \E s \in Ids : ComesBack(said'[s])
        BY <4>2 DEF AsWritten
      <4>3. CASE why' = "stale" /\ \E s \in Ids : said'[s] # <<>> /\ Len(Opts(s)') > Len(said'[s])
        BY <4>3 DEF AsWritten
      <4>4. CASE /\ why' = "twice"
                 /\ \/ phase' = "closed"
                    \/ phase' = "failed" /\ \E s \in Ids : \E n \in DOMAIN said'[s] : \E d \in DOMAIN Schema[1] :
                         Schema[1][d].type = "sec" /\ Matches(Schema[1][d], Schema[1][d].name, said'[s][n])
        BY <4>4 DEF AsWritten
      <4> QED
        BY <2>1, <2>3, <3>2, <4>1, <4>2, <4>3, <4>4, AccidentIs
    <3> QED
      BY <3>1, <3>2
  <2> QED
    BY <2>1, <2>2, <2>3
<1>3. Heap(heap) /\ Sound /\ Known => (why = "none" => AsWritten)
  BY FileSays DEF AsWritten
<1> QED
  BY <1>1, <1>2, <1>3, HeapAlways, SoundAlways, KnownAlways, PTL DEF ConfigSpec

(***************************************************************************)
(* The sections of the tree, level by level                                *)
(***************************************************************************)
Widen(firstOnly, S) == S \cup UNION {SubSections(p[1], p[2], firstOnly) : p \in S}
Stage(firstOnly, g, n) == IF n = 1 THEN {<<root, 1>>} ELSE Widen(firstOnly, g[n - 1])
Family(firstOnly, U, g) ==
  g \in [1..Len(Schema) -> SUBSET U] /\ \A n \in 1..Len(Schema) : Stage(firstOnly, g, n) \subseteq g[n]

(* The function that collects them is well defined.                        *)
LEMMA StagesAre ==
  ASSUME NEW b, NEW U, <<root, 1>> \in U, \A S \in SUBSET U : Widen(b, S) \in SUBSET U
  PROVE  \E g : g = [n \in 1..Len(Schema) |-> Stage(b, g, n)]
<1> DEFINE L == Len(Schema)
           G == [1..L -> SUBSET U]
           W == [n \in 1..L |-> {x \in U : \A g \in G : Family(b, U, g) => x \in g[n]}]
           V == [n \in 1..L |-> Stage(b, W, n)]
<1>1. L \in Nat
  BY SchemaAssumption
<1>2. W \in G /\ \A g \in G : Family(b, U, g) => \A n \in 1..L : W[n] \subseteq g[n]
  OBVIOUS
<1>3. ASSUME NEW x \in U, NEW n \in 1..L, \A g \in G : Family(b, U, g) => x \in g[n] PROVE x \in W[n]
  BY <1>3
<1> HIDE DEF W
<1>4. ASSUME NEW f \in G, NEW g \in G, \A n \in 1..L : f[n] \subseteq g[n], NEW n \in 1..L
      PROVE  Stage(b, f, n) \subseteq Stage(b, g, n) /\ Stage(b, f, n) \in SUBSET U
  <2>1. CASE n = 1
    BY <2>1 DEF Stage
  <2>2. CASE n # 1
    <3>1. n - 1 \in 1..L
      BY <1>1, <2>2
    <3>2. f[n - 1] \subseteq g[n - 1] /\ f[n - 1] \in SUBSET U
      BY <1>4, <3>1
    <3>3. Widen(b, f[n - 1]) \subseteq Widen(b, g[n - 1]) /\ Widen(b, f[n - 1]) \in SUBSET U
      BY <3>2 DEF Widen
    <3> QED
      BY <2>2, <3>3 DEF Stage
  <2> QED
    BY <2>1, <2>2
<1>5. \A n \in 1..L : Stage(b, W, n) \subseteq W[n]
  <2>1. SUFFICES ASSUME NEW n \in 1..L, NEW x \in Stage(b, W, n), NEW g \in G, Family(b, U, g) PROVE x \in g[n]
    <3>1. \A n \in 1..L : Stage(b, W, n) \in SUBSET U
      BY <1>2, <1>4
    <3> QED
      BY <1>3, <3>1
  <2>2. Stage(b, W, n) \subseteq Stage(b, g, n)
    BY <1>2, <1>4, <2>1
  <2> QED
    BY <2>1, <2>2 DEF Family
<1>6. \A n \in 1..L : W[n] \subseteq Stage(b, W, n)
  <2>1. V \in G /\ \A n \in 1..L : V[n] = Stage(b, W, n)
    BY <1>2, <1>4
  <2> HIDE DEF V
  <2>2. \A n \in 1..L : V[n] \subseteq W[n]
    BY <1>5, <2>1
  <2>3. \A n \in 1..L : Stage(b, V, n) \subseteq V[n]
    BY <1>2, <1>4, <2>1, <2>2
  <2>4. Family(b, U, V)
    BY <2>1, <2>3 DEF Family
  <2> QED
    BY <1>2, <2>1, <2>4
<1>7. W = [n \in 1..L |-> Stage(b, W, n)]
  <2>1. \A n \in 1..L : W[n] = Stage(b, W, n)
    BY <1>5, <1>6
  <2>2. W = [n \in 1..L |-> W[n]]
    BY <1>2
  <2> QED
    BY <2>1, <2>2
<1> QED
  BY <1>7

(* What holds of the root and passes on to what is below holds of them all. *)
LEMMA SectionsIn ==
  ASSUME NEW b, NEW U, <<root, 1>> \in U, \A S \in SUBSET U : Widen(b, S) \in SUBSET U
  PROVE  Sections(b) \subseteq U
<1> DEFINE L == Len(Schema)
           Collects(g) == g = [n \in 1..L |-> Stage(b, g, n)]
           reach == CHOOSE g : Collects(g)
           bad == {n \in 1..L : ~(reach[n] \subseteq U)}
<1>1. L \in Nat /\ L # 0
  BY SchemaAssumption
<1>2. Collects(reach)
  <2>1. \E g : Collects(g)
    BY StagesAre
  <2> HIDE DEF Collects
  <2> QED
    BY <2>1
<1>3. Sections(b) = reach[L]
  BY DEF Sections, Stage, Widen
<1>4. \A n \in 1..L : reach[n] = Stage(b, reach, n)
  <2> HIDE DEF reach
  <2> QED
    BY <1>2
<1> HIDE DEF reach, Collects
<1>5. bad = {}
  <2>1. SUFFICES ASSUME bad # {} PROVE FALSE
    OBVIOUS
  <2>2. PICK n \in bad : \A m \in bad : n <= m
    <3>1. bad \subseteq Nat
      OBVIOUS
    <3> HIDE DEF bad
    <3> QED
      BY <2>1, <3>1, LeastNat
  <2>3. n \in 1..L /\ ~(reach[n] \subseteq U)
    OBVIOUS
  <2>4. n # 1
    BY <1>4, <2>3 DEF Stage
  <2>5. n - 1 \in 1..L /\ ~(n <= n - 1)
    BY <1>1, <2>3, <2>4
  <2>6. reach[n - 1] \in SUBSET U
    BY <2>2, <2>5
  <2>7. reach[n] = Widen(b, reach[n - 1])
    BY <1>4, <2>3, <2>4 DEF Stage
  <2> QED
    BY <2>3, <2>6, <2>7
<1> QED
  BY <1>1, <1>3, <1>5

(* The sections of a tree, with their levels; those that have their        *)
(* defaults.                                                               *)
LEMMA SectionsAre ==
  ASSUME NEW out, Tree(heap, out), Heap(heap), root \in Ids, NEW lev \in Levels, NEW F \in SUBSET Ids,
         Ended(heap, said, lev, dropped, F, root), NEW b \in BOOLEAN,
         NEW p \in Sections(b)
  PROVE  p[1] \in Ids /\ IsSec(heap[p[1]]) /\ p[2] = lev[p[1]] /\ p[2] \in DOMAIN Schema /\ (b => p[1] \in F)
<1> DEFINE Has(s, l) == s \in Ids /\ IsSec(heap[s]) /\ l = lev[s] /\ l \in DOMAIN Schema /\ (b => s \in F)
           U == {q \in Ids \X DOMAIN Schema : Has(q[1], q[2])}
<1>1. lev[root] = 1 /\ Legal(heap, said, lev, dropped, {}) /\ Good(heap, lev, F) /\ root \in F
  BY DEF Ended
<1>2. <<root, 1>> \in U
  <2>1. IsSec(heap[root])
    BY <1>1 DEF Good
  <2> QED
    BY <1>1, <2>1, LevelsAre
<1>3. ASSUME NEW s, NEW l, Has(s, l), NEW q \in SubSections(s, l, b) PROVE q \in U
  <2>1. PICK d \in DOMAIN Schema[l] : /\ Schema[l][d].type = "sec"
          /\ \E k \in IF b /\ Entries(s, Schema[l][d]) # {} THEN {First(Entries(s, Schema[l][d]))}
                                                           ELSE Entries(s, Schema[l][d]) :
               q = <<Opts(s)[k], Schema[l][d].opts>>
    <3>1. PICK def \in {Schema[l][d] : d \in {e \in DOMAIN Schema[l] : Schema[l][e].type = "sec"}} :
            \E k \in IF b /\ Entries(s, def) # {} THEN {First(Entries(s, def))} ELSE Entries(s, def) :
               q = <<Opts(s)[k], def.opts>>
      BY <1>3, SMT DEF SubSections
    <3> QED
      BY <3>1, Zenon
  <2> DEFINE def == Schema[l][d]
             H == Hits(heap, s, def)
  <2>2. Entries(s, def) = H
    BY DEF Entries, Hits, Opts
  <2>3. PICK k \in IF b /\ H # {} THEN {First(H)} ELSE H : q = <<heap[s].opts[k], def.opts>>
    BY <2>1, <2>2 DEF Opts
  <2>4. b => H # {} /\ heap[s].opts[First(H)] \in F
    <3>1. b => Got(heap, F, s, def)
      BY <1>1, <1>3 DEF Good
    <3> QED
      BY <2>1, <3>1 DEF Got
  <2>5. DOMAIN heap[s].opts \subseteq Nat
    <3>1. Array(heap[s].opts)
      BY <1>3 DEF Heap, IsNode
    <3> QED
      BY <3>1 DEF Array
  <2>6. H \subseteq DOMAIN heap[s].opts /\ \A j \in H : Matches(def, def.name, heap[heap[s].opts[j]].name)
    BY DEF Hits
  <2> HIDE DEF H, def
  <2>7. k \in H
    <3>1. H # {} => First(H) \in H
      BY <2>5, <2>6, FirstLeast
    <3> QED
      BY <2>3, <3>1
  <2> DEFINE i == heap[s].opts[k]
  <2>8. k \in DOMAIN heap[s].opts /\ Matches(def, def.name, heap[i].name) /\ i \in Ids
    BY <1>3, <2>6, <2>7, EntriesUsed
  <2>9. Typed(heap[i], lev[s], lev[i])
    BY <1>1, <1>3, <2>8 DEF Legal, Section, Fitting
  <2> HIDE DEF i
  <2>10. heap[i].kind = "sec" /\ lev[i] = def.opts
    BY <1>3, <2>1, <2>8, <2>9, TypedBy DEF def
  <2>11. def.opts \in DOMAIN Schema
    BY <1>3, <2>1, LevelsAre DEF def
  <2>12. b => i \in F
    BY <2>3, <2>4 DEF i
  <2>13. q = <<i, def.opts>> /\ IsSec(heap[i])
    BY <2>3, <2>10 DEF i, IsSec
  <2>14. Has(i, def.opts)
    BY <2>8, <2>10, <2>11, <2>12, <2>13
  <2> HIDE DEF Has
  <2> QED
    BY <2>8, <2>11, <2>13, <2>14
<1>4. \A S \in SUBSET U : Widen(b, S) \in SUBSET U
  <2>1. ASSUME NEW S \in SUBSET U PROVE Widen(b, S) \subseteq U
    <3>1. ASSUME NEW q \in S, NEW x \in SubSections(q[1], q[2], b) PROVE x \in U
      <4>1. Has(q[1], q[2])
        OBVIOUS
      <4> HIDE DEF Has, U
      <4> QED
        BY <1>3, <3>1, <4>1
    <3> HIDE DEF U
    <3> QED
      BY <3>1 DEF Widen
  <2> QED
    BY <2>1
<1> HIDE DEF U
<1>5. p \in U
  BY <1>2, <1>4, SectionsIn
<1> QED
  BY <1>5 DEF U

(* Every entry of a section is what its definition says, a definition that *)
(* allows one entry has no more, and none is without a definition.         *)
LEMMA SectionFits ==
  ASSUME NEW out, Tree(heap, out), NEW lev \in Levels, Legal(heap, said, lev, dropped, {}),
         NEW s \in Ids, IsSec(heap[s])
  PROVE  /\ DOMAIN Opts(s) = UNION {Entries(s, Schema[lev[s]][d]) : d \in DOMAIN Schema[lev[s]]}
         /\ \A d \in DOMAIN Schema[lev[s]] :
              LET def == Schema[lev[s]][d] IN
              /\ \A k \in Entries(s, def) : Fits(Opts(s)[k], def)
              /\ def.type = "opt" \/ "MULTI" \notin def.flags => Cardinality(Entries(s, def)) <= 1
<1> DEFINE l == lev[s]
<1>1. Section(heap, said, lev, dropped, {}, s) /\ l \in DOMAIN Schema
  <2>1. lev[s] \in DOMAIN Schema
    BY DEF Levels
  <2> QED
    BY <2>1 DEF Legal
<1>2. ASSUME NEW k \in DOMAIN Opts(s) PROVE \E d \in DOMAIN Schema[l] : k \in Entries(s, Schema[l][d])
  <2>1. Typed(heap[Opts(s)[k]], l, lev[Opts(s)[k]])
    BY <1>1, <1>2 DEF Section, Fitting, Opts
  <2> QED
    BY <1>2, <2>1 DEF Typed, Entries
<1>3. DOMAIN Opts(s) = UNION {Entries(s, Schema[l][d]) : d \in DOMAIN Schema[l]}
  <2>1. \A d : Entries(s, Schema[l][d]) \subseteq DOMAIN Opts(s)
    BY DEF Entries
  <2> QED
    BY <1>2, <2>1
<1>4. ASSUME NEW d \in DOMAIN Schema[l], NEW k \in Entries(s, Schema[l][d]) PROVE Fits(Opts(s)[k], Schema[l][d])
  <2> DEFINE i == Opts(s)[k]
             def == Schema[l][d]
  <2>1. k \in DOMAIN Opts(s) /\ Matches(def, def.name, heap[i].name)
    BY <1>4 DEF Entries
  <2>2. Typed(heap[i], l, lev[i]) /\ HasValues(heap[i], l, dropped)
    BY <1>1, <2>1 DEF Section, Fitting, Opts
  <2> HIDE DEF i
  <2>3. heap[i].kind = def.type /\ (heap[i].kind = "opt" => heap[i].vtype = def.vtype)
    BY <1>1, <2>1, <2>2, TypedBy
  <2>4. heap[i].kind = "opt" => Allowed(heap[i], def, dropped)
    BY <2>1, <2>2 DEF HasValues
  <2> QED
    BY <2>3, <2>4 DEF Fits, IsOpt, Allowed, i
<1>5. ASSUME NEW d \in DOMAIN Schema[l], Alone(Schema[l][d]) PROVE Cardinality(Entries(s, Schema[l][d])) <= 1
  <2> DEFINE H == Entries(s, Schema[l][d])
  <2>1. \A j, k \in H : j = k
    <3>1. H = Hits(heap, s, Schema[l][d])
      BY DEF Entries, Hits, Opts
    <3> QED
      BY <1>1, <1>5, <3>1 DEF Section, Single
  <2> HIDE DEF H
  <2>2. Cardinality(H) <= 1
    <3>1. CASE H = {}
      BY <3>1, FS_EmptySet
    <3>2. CASE H # {}
      <4>1. PICK k \in H : TRUE
        BY <3>2
      <4>2. H = {k}
        BY <2>1, <4>1
      <4>3. Cardinality({k}) = 1
        BY FS_Singleton
      <4> QED
        BY <4>2, <4>3
    <3> QED
      BY <3>1, <3>2
  <2> QED
    BY <2>2 DEF H
<1> QED
  BY <1>3, <1>4, <1>5 DEF Alone

(* Sections that may not have the same title do not.                       *)
LEMMA TitlesDiffer ==
  ASSUME Heap(heap), NEW out, Tree(heap, out), root \in Ids, IsSec(heap[root]), NEW lev \in Levels,
         lev[root] = 1, Legal(heap, said, lev, dropped, {}), NoTwins,
         NEW d \in DOMAIN Schema[1], {"TITLE", "NODUPES"} \subseteq Schema[1][d].flags,
         NEW j \in Entries(root, Schema[1][d]), NEW k \in Entries(root, Schema[1][d]), j # k
  PROVE  heap[Opts(root)[j]].title # heap[Opts(root)[k]].title
<1> DEFINE def == Schema[1][d]
           one(m) == heap[Opts(root)[m]]
<1>1. Section(heap, said, lev, dropped, {}, root) /\ 1 \in DOMAIN Schema
  BY LevelsAre DEF Legal
<1>2. ASSUME NEW m \in Entries(root, def) PROVE m \in DOMAIN Opts(root) /\ Matches(def, def.name, one(m).name)
  BY <1>2 DEF Entries
<1>3. ~Alone(def)
  <2>1. Entries(root, def) = Hits(heap, root, def)
    BY DEF Entries, Hits, Opts
  <2> QED
    BY <1>1, <2>1 DEF Section, Single
<1>4. def.type = "sec"
  BY <1>1, <1>3, LevelsAre DEF Alone
<1>5. ASSUME NEW m \in Entries(root, def) PROVE IsSec(one(m))
  <2>1. Typed(one(m), 1, lev[Opts(root)[m]])
    BY <1>1, <1>2, <1>5 DEF Section, Fitting, Opts
  <2>2. one(m).kind = def.type
    BY <1>1, <1>2, <1>5, <2>1, TypedBy
  <2> QED
    BY <1>4, <2>2 DEF IsSec
<1>6. j \in Nat /\ k \in Nat
  <2>1. DOMAIN Opts(root) \subseteq Nat
    <3>1. Array(heap[root].opts)
      BY DEF Heap, IsNode
    <3> QED
      BY <3>1 DEF Array, Opts
  <2> QED
    BY <1>2, <2>1
<1>7. ~SameTitle(def)
  BY DEF NoTwins
<1>8. ASSUME NEW m \in Entries(root, def), NEW n \in Entries(root, def), m < n PROVE one(m).title # one(n).title
  <2>1. ASSUME one(m).title = one(n).title PROVE FALSE
    <3>1. Matches(def, one(m).title, one(n).title)
      BY <2>1, MatchesIs
    <3>2. /\ m \in DOMAIN Opts(root) /\ n \in DOMAIN Opts(root)
          /\ Matches(def, def.name, one(m).name) /\ Matches(def, def.name, one(n).name)
      BY <1>2, <1>8
    <3>3. IsSec(one(m)) /\ IsSec(one(n))
      BY <1>5, <1>8
    <3> QED
      BY <1>7, <1>8, <3>1, <3>2, <3>3 DEF SameTitle
  <2> QED
    BY <2>1
<1> HIDE DEF def
<1>9. j < k \/ k < j
  BY <1>6
<1> QED
  BY <1>8, <1>9 DEF def

(* When the file was accepted.                                             *)
LEMMA AcceptedIs ==
  ASSUME Heap(heap), Tree(heap, {root}), root \in Ids, NEW lev \in Levels, NEW F \in SUBSET Ids,
         Ended(heap, said, lev, dropped, F, root), NoTwins
  PROVE  /\ \A p \in Sections(TRUE) : Complete(p[1], p[2])
         /\ \A p \in Sections(FALSE) :
              /\ DOMAIN Opts(p[1]) = UNION {Entries(p[1], Schema[p[2]][d]) : d \in DOMAIN Schema[p[2]]}
              /\ \A d \in DOMAIN Schema[p[2]] :
                   LET def == Schema[p[2]][d] IN
                   /\ \A k \in Entries(p[1], def) : Fits(Opts(p[1])[k], def)
                   /\ def.type = "opt" \/ "MULTI" \notin def.flags => Cardinality(Entries(p[1], def)) <= 1
         /\ \A d \in DOMAIN Schema[1] : {"TITLE", "NODUPES"} \subseteq Schema[1][d].flags =>
              \A j, k \in Entries(root, Schema[1][d]) :
                j # k => heap[Opts(root)[j]].title # heap[Opts(root)[k]].title
<1>1. lev[root] = 1 /\ Legal(heap, said, lev, dropped, {}) /\ Good(heap, lev, F) /\ root \in F
  BY DEF Ended
<1>2. ASSUME NEW p \in Sections(TRUE) PROVE Complete(p[1], p[2])
  <2>1. p[1] \in F /\ p[2] = lev[p[1]]
    BY <1>2, SectionsAre
  <2>2. \A d \in DOMAIN Schema[p[2]] : Hits(heap, p[1], Schema[p[2]][d]) # {}
    BY <1>1, <2>1 DEF Good, Got
  <2>3. \A def : Entries(p[1], def) = Hits(heap, p[1], def)
    BY DEF Entries, Hits, Opts
  <2> QED
    BY <2>2, <2>3 DEF Complete
<1>3. ASSUME NEW p \in Sections(FALSE) PROVE p[1] \in Ids /\ IsSec(heap[p[1]]) /\ p[2] = lev[p[1]]
  BY <1>3, SectionsAre
<1>4. IsSec(heap[root])
  BY <1>1 DEF Good
<1>5. ASSUME NEW p \in Sections(FALSE)
      PROVE  /\ DOMAIN Opts(p[1]) = UNION {Entries(p[1], Schema[p[2]][d]) : d \in DOMAIN Schema[p[2]]}
             /\ \A d \in DOMAIN Schema[p[2]] :
                  LET def == Schema[p[2]][d] IN
                  /\ \A k \in Entries(p[1], def) : Fits(Opts(p[1])[k], def)
                  /\ def.type = "opt" \/ "MULTI" \notin def.flags => Cardinality(Entries(p[1], def)) <= 1
  <2> DEFINE s == p[1]
  <2>1. s \in Ids /\ IsSec(heap[s])
    BY <1>3, <1>5
  <2> HIDE DEF s
  <2>2. /\ DOMAIN Opts(s) = UNION {Entries(s, Schema[lev[s]][d]) : d \in DOMAIN Schema[lev[s]]}
        /\ \A d \in DOMAIN Schema[lev[s]] :
             LET def == Schema[lev[s]][d] IN
             /\ \A k \in Entries(s, def) : Fits(Opts(s)[k], def)
             /\ def.type = "opt" \/ "MULTI" \notin def.flags => Cardinality(Entries(s, def)) <= 1
    BY <1>1, <2>1, SectionFits
  <2> QED
    BY <1>3, <1>5, <2>2 DEF s
<1>6. ASSUME NEW d \in DOMAIN Schema[1], {"TITLE", "NODUPES"} \subseteq Schema[1][d].flags,
             NEW j \in Entries(root, Schema[1][d]), NEW k \in Entries(root, Schema[1][d]), j # k
      PROVE  heap[Opts(root)[j]].title # heap[Opts(root)[k]].title
  BY <1>1, <1>4, <1>6, TitlesDiffer
<1> QED
  BY <1>2, <1>5, <1>6

(* What a caller may rely on when vt_config_parse_file has accepted a      *)
(* file: vt_config_defaults has completed every section it looked into,    *)
(* every entry of every section is what its definition says and occurs as  *)
(* often as that allows, and no two sections have a title that only one    *)
(* may have.                                                               *)
THEOREM AcceptedSafety == ConfigSpec => []Accepted
<1>1. Heap(heap) /\ Sound /\ Known => Accepted
  <2>1. SUFFICES ASSUME Heap(heap), Sound, Known, phase = "done", ncalls = 0 PROVE Accepted
    BY DEF Accepted
  <2>2. why = "none"
    BY <2>1 DEF Known
  <2>3. root \in Ids /\ Tree(heap, {root})
    BY <2>1, <2>2 DEF Sound, Shape
  <2>4. PICK lev \in Levels, F \in SUBSET Ids : Ended(heap, said, lev, dropped, F, root)
    BY <2>1, <2>2 DEF Known, Loading
  <2>5. NoTwins
    BY <2>1, <2>2 DEF Known, Loading
  <2> QED
    BY <2>1, <2>3, <2>4, <2>5, AcceptedIs DEF Accepted
<1> QED
  BY <1>1, HeapAlways, SoundAlways, KnownAlways, PTL
=============================================================================
