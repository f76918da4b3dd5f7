---------------------------- MODULE IntakeProofs ----------------------------
(***************************************************************************)
(* Proofs about Intake, BlockList and Lexer in it, for any lists,          *)
(* networks, configurations, requests, dicts and texts: a list that is     *)
(* built, sorted and freed keeps its nodes, every round of the sort puts   *)
(* one more of them in its final place, what a dict answers lies between   *)
(* the limits it worked out when it was made, and the tokens of a text are *)
(* those that are in it, but for the known errors of the lexer.            *)
(***************************************************************************)
EXTENDS Intake, ContextProofs

(* The links spell out a sequence of nodes.                                *)
Foremost(s) == IF s = <<>> THEN Nil ELSE s[1]
Chain(nx, s) == \A k \in 1..Len(s) : nx[s[k]] = IF k < Len(s) THEN s[k + 1] ELSE Nil
-----------------------------------------------------------------------------
(* Following the links from the front of a sequence gives the sequence.    *)
IsWalk(f, nx, i, n) ==
  f = [k \in 0..n |-> IF k = 0 THEN IF i = Nil THEN <<>> ELSE <<i>> ELSE Onward(nx, f[k - 1])]

LEMMA WalkIs ==
  ASSUME NEW f, NEW nx, NEW i, NEW n \in Nat, IsWalk(f, nx, i, n)
  PROVE  /\ f[0] = IF i = Nil THEN <<>> ELSE <<i>>
         /\ \A k \in 1..n : f[k] = Onward(nx, f[k - 1])
<1> DEFINE b(k) == IF k = 0 THEN IF i = Nil THEN <<>> ELSE <<i>> ELSE Onward(nx, f[k - 1])
<1>1. f = [k \in 0..n |-> b(k)]
  BY DEF IsWalk
<1> HIDE DEF b
<1>2. \A k \in 0..n : f[k] = b(k)
  BY <1>1
<1> QED
  BY <1>2 DEF b

LEMMA WalkUnique ==
  ASSUME NEW f, NEW g, NEW nx, NEW i, NEW n \in Nat, IsWalk(f, nx, i, n), IsWalk(g, nx, i, n)
  PROVE  f[n] = g[n]
<1> DEFINE Bad == {k \in 0..n : f[k] # g[k]}
<1>1. /\ f[0] = g[0]
      /\ \A k \in 1..n : f[k] = Onward(nx, f[k - 1]) /\ g[k] = Onward(nx, g[k - 1])
  BY WalkIs
<1>2. ASSUME Bad # {} PROVE FALSE
  <2>1. PICK k \in Bad : \A b \in Bad : k <= b
    <3>1. Bad \subseteq Nat
      OBVIOUS
    <3> QED
      BY <1>2, <3>1, LeastNat
  <2>2. k # 0
    BY <1>1
  <2>3. k \in 1..n /\ f[k - 1] = g[k - 1]
    BY <2>1, <2>2
  <2> QED
    BY <1>1, <2>1, <2>3
<1> QED
  BY <1>2

LEMMA OnwardChain ==
  ASSUME NEW nx, NEW s \in Seq(Nat \ {0}), Chain(nx, s), NEW q \in 0..Len(s), q = 0 => s = <<>>
  PROVE  Onward(nx, SubSeq(s, 1, q)) = SubSeq(s, 1, IF q < Len(s) THEN q + 1 ELSE q)
<1>1. CASE q = 0
  BY <1>1 DEF Onward
<1>2. CASE q # 0
  <2> DEFINE t == SubSeq(s, 1, q)
  <2>1. t \in Seq(Nat \ {0}) /\ Len(t) = q /\ t[q] = s[q] /\ s[q] \in Nat \ {0} /\ t # <<>>
    BY <1>2
  <2>2. SubSeq(s, 1, q) = t
    OBVIOUS
  <2> HIDE DEF t
  <2>3. CASE q = Len(s)
    <3>1. nx[t[Len(t)]] = Nil
      BY <1>2, <2>1, <2>3 DEF Chain
    <3> QED
      BY <2>2, <2>3, <3>1 DEF Onward
  <2>4. CASE q < Len(s)
    <3>1. s[q + 1] \in Nat \ {0} /\ nx[t[Len(t)]] = s[q + 1]
      BY <1>2, <2>1, <2>4 DEF Chain
    <3>2. Onward(nx, t) = Append(t, s[q + 1])
      BY <2>1, <3>1 DEF Onward, Nil
    <3>3. q + 1 \in 1..Len(s) /\ (q + 1) - 1 = q
      BY <2>4
    <3>4. SubSeq(s, 1, q + 1) = SubSeq(s, 1, (q + 1) - 1) \o <<s[q + 1]>>
      BY <3>3, SubSeqRecursiveSecond
    <3>5. Append(t, s[q + 1]) = t \o <<s[q + 1]>>
      BY <2>1, <3>1, AppendIsConcat
    <3> QED
      BY <2>2, <2>4, <3>2, <3>3, <3>4, <3>5
  <2> QED
    BY <2>3, <2>4
<1> QED
  BY <1>1, <1>2

LEMMA LinkedIs ==
  ASSUME Len(section) \in Nat, NEW nx, NEW s \in Seq(Nat \ {0}), Len(s) <= Len(section), Chain(nx, s)
  PROVE  Linked(nx, Foremost(s)) = s
<1> DEFINE L == Len(section)
           i == Foremost(s)
           at1(k) == IF k < Len(s) THEN k + 1 ELSE Len(s)
           e(k) == SubSeq(s, 1, at1(k))
           g == [k \in 0..L |-> e(k)]
           f == CHOOSE h : IsWalk(h, nx, i, L)
<1>0. Len(s) \in Nat
  OBVIOUS
<1>1. e(0) = IF i = Nil THEN <<>> ELSE <<i>>
  <2>1. CASE s = <<>>
    BY <2>1, SubSeqEmpty DEF Foremost, Nil
  <2>2. CASE s # <<>>
    <3>1. Len(s) > 0 /\ s[1] \in Nat \ {0}
      BY <2>2, EmptySeq
    <3>2. e(0) = SubSeq(s, 1, 1)
      BY <3>1
    <3>3. SubSeq(s, 1, 1) = <<s[1]>>
      <4>1. 1 \in 1..Len(s) /\ 1 - 1 = 0
        BY <1>0, <3>1
      <4>2. SubSeq(s, 1, 1) = SubSeq(s, 1, 1 - 1) \o <<s[1]>>
        BY <4>1, SubSeqRecursiveSecond
      <4>3. SubSeq(s, 1, 1 - 1) = <<>> /\ <<s[1]>> \in Seq(Nat)
        BY <3>1, <4>1, SubSeqEmpty
      <4> QED
        BY <4>2, <4>3, ConcatEmptySeq
    <3> QED
      BY <2>2, <3>1, <3>2, <3>3 DEF Foremost, Nil
  <2> QED
    BY <2>1, <2>2
<1>2. \A k \in 1..L : e(k) = Onward(nx, e(k - 1))
  <2> TAKE k \in 1..L
  <2> DEFINE q == at1(k - 1)
  <2>1. q \in 0..Len(s) /\ (q = 0 => s = <<>>)
    BY <1>0, EmptySeq
  <2>2. at1(k) = IF q < Len(s) THEN q + 1 ELSE q
    BY <1>0
  <2> HIDE DEF q
  <2>3. Onward(nx, SubSeq(s, 1, q)) = SubSeq(s, 1, at1(k))
    BY <2>1, <2>2, OnwardChain
  <2> QED
    BY <2>3 DEF q
<1>3. e(L) = s
  <2>1. at1(L) = Len(s)
    BY <1>0
  <2> QED
    BY <2>1, SubSeqFull
<1> HIDE DEF e
<1>4. IsWalk(g, nx, i, L)
  <2>1. \A k \in 0..L : g[k] = e(k)
    OBVIOUS
  <2>2. \A k \in 1..L : k - 1 \in 0..L
    OBVIOUS
  <2>3. \A k \in 0..L : g[k] = IF k = 0 THEN IF i = Nil THEN <<>> ELSE <<i>> ELSE Onward(nx, g[k - 1])
    BY <1>1, <1>2, <2>1, <2>2
  <2>4. g = [k \in 0..L |-> g[k]]
    OBVIOUS
  <2> HIDE DEF g
  <2> QED
    BY <2>3, <2>4 DEF IsWalk
<1>5. g[L] = s
  BY <1>3
<1> HIDE DEF g
<1>6. IsWalk(f, nx, i, L)
  BY <1>4
<1>7. Linked(nx, i) = f[L]
  BY DEF Linked, IsWalk
<1> QED
  BY <1>4, <1>5, <1>6, <1>7, WalkUnique
-----------------------------------------------------------------------------
(* Of finitely many numbers one is the greatest: the set of those that     *)
(* have a greater one cannot shrink for ever.                              *)
LEMMA FiniteMax ==
  ASSUME NEW S, IsFiniteSet(S), S # {}, NEW f \in [S -> Int]
  PROVE  \E x \in S : \A y \in S : f[y] <= f[x]
<1> DEFINE above(x) == {y \in S : f[y] > f[x]}
           T == {above(x) : x \in S}
<1>1. PICK U \in T : \A V \in T : ~(<<V, U>> \in StrictSubsetOrdering(S))
  <2>1. \A x \in S : above(x) \subseteq S /\ IsFiniteSet(above(x))
    BY FS_Subset
  <2> HIDE DEF above
  <2>2. T \subseteq FiniteSubsetsOf(S) /\ T # {}
    <3>1. \A x \in S : above(x) \in FiniteSubsetsOf(S)
      BY <2>1 DEF FiniteSubsetsOf
    <3> QED
      BY <3>1
  <2>3. IsWellFoundedOn(StrictSubsetOrdering(S), FiniteSubsetsOf(S))
    BY FS_StrictSubsetOrderingWellFounded
  <2> HIDE DEF T
  <2> QED
    BY <2>2, <2>3, WFMin
<1>2. PICK x \in S : U = above(x)
  BY <1>1
<1>3. ASSUME NEW y \in S, f[y] > f[x] PROVE FALSE
  <2>1. above(y) \in T /\ above(y) \subseteq above(x) /\ y \in above(x) /\ y \notin above(y)
    BY <1>3
  <2>2. above(x) \subseteq S /\ above(y) \subseteq S
    OBVIOUS
  <2> HIDE DEF above, T
  <2> QED
    BY <1>1, <1>2, <2>1, <2>2 DEF StrictSubsetOrdering
<1> QED
  BY <1>2, <1>3

(* So the greatest and the least of finitely many numbers are among them,  *)
(* and all the others between the two.                                     *)
LEMMA MaxMin ==
  ASSUME NEW n \in Nat \ {0}, NEW f \in [1..n -> Int], NEW S, S = {f[k] : k \in 1..n}
  PROVE  /\ MaxOf(S) \in Int /\ MinOf(S) \in Int
         /\ \A x \in S : MinOf(S) <= x /\ x <= MaxOf(S)
<1>1. IsFiniteSet(1..n) /\ 1..n # {}
  <2>1. 1 \in Int /\ n \in Int /\ 1 \in 1..n
    OBVIOUS
  <2>2. IsFiniteSet(1..n)
    BY <2>1, FS_Interval
  <2> QED
    BY <2>1, <2>2
<1>2. S \subseteq Int
  OBVIOUS
<1>3. MaxOf(S) \in S /\ \A x \in S : x <= MaxOf(S)
  <2>1. PICK k \in 1..n : \A j \in 1..n : f[j] <= f[k]
    BY <1>1, FiniteMax
  <2>2. f[k] \in S /\ \A x \in S : x <= f[k]
    BY <2>1
  <2> QED
    BY <2>2 DEF MaxOf
<1>4. MinOf(S) \in S /\ \A x \in S : MinOf(S) <= x
  <2> DEFINE g == [k \in 1..n |-> -f[k]]
  <2>1. g \in [1..n -> Int]
    OBVIOUS
  <2>2. PICK k \in 1..n : \A j \in 1..n : g[j] <= g[k]
    <3> HIDE DEF g
    <3> QED
      BY <1>1, <2>1, FiniteMax
  <2>3. \A j \in 1..n : f[k] <= f[j]
    BY <2>2
  <2>4. f[k] \in S /\ \A x \in S : f[k] <= x
    BY <2>3
  <2> QED
    BY <2>4 DEF MinOf
<1> QED
  BY <1>2, <1>3, <1>4
-----------------------------------------------------------------------------
(* The list: the links spell out an order s of the nodes that were made,   *)
(* the first m; while it is sorted the first p of them are in their final  *)
(* places, and the rest is as it was configured.                           *)
Cidrs == [network : Int, bits : Int, points : Int]
Order(s, m) ==
  /\ s \in [1..m -> 1..m]
  /\ \A k, l \in 1..m : s[k] = s[l] => k = l
  /\ \A i \in 1..m : \E k \in 1..m : s[k] = i
Shape(s, m) ==
  /\ m \in 0..Len(section) /\ Order(s, m)
  /\ Chain(next, s) /\ first = Foremost(s)
  /\ \A i \in Nodes : heap[i] = IF i <= m THEN "live" ELSE "unused"
Ranked(s, m, p) ==
  /\ \A k \in 1..p : \A j \in (k + 1)..m : Before(s[k], s[j])
  /\ \A k \in (p + 1)..m : \A j \in (k + 1)..m : s[k] < s[j]
Sorted(s, m, p) ==
  /\ p \in 0..m
  /\ prev1 = IF p = 0 THEN Nil ELSE s[p]
  /\ cur1 = IF p < m THEN s[p + 1] ELSE Nil
  /\ Ranked(s, m, p)
ListType ==
  /\ section \in Seq(Cidrs)
  /\ phase \in {"make", "sort", "ready", "failed", "gone"}
  /\ heap \in [Nodes -> {"unused", "live", "freed"}]
  /\ next \in [Nodes -> Nodes \cup {Nil}]
ListInv ==
  /\ ListType
  /\ phase = "make" => \E m \in 0..Len(section) : Shape([k \in 1..m |-> k], m)
  /\ phase \in {"sort", "ready"} =>
       \E s \in [Nodes -> Nodes], p \in 0..Len(section) : Shape(s, Len(section)) /\ Sorted(s, Len(section), p)
  /\ phase = "ready" => cur1 = Nil
  /\ phase \in {"failed", "gone"} => \A i \in Nodes : heap[i] # "live"

LEMMA SectionFacts ==
  ASSUME section \in Seq(Cidrs)
  PROVE  /\ Len(section) \in Nat /\ Nodes = 1..Len(section)
         /\ \A i \in Nodes : Weight(i).bits = section[i].bits /\ Weight(i).bits \in Int /\ Weight(i).points \in Int
<1>1. Len(section) \in Nat /\ Nodes = 1..Len(section)
  BY DEF Nodes
<1>2. ASSUME NEW i \in Nodes
      PROVE  Weight(i).bits = section[i].bits /\ Weight(i).bits \in Int /\ Weight(i).points \in Int
  <2>1. section[i] \in Cidrs
    BY <1>1
  <2>2. Weight(i).bits = section[i].bits /\ Weight(i).points = Whole(section[i].points)
    BY <2>1 DEF Weight, Cidrs
  <2>3. \A n \in Int : Whole(n) \in Int
    BY DEF Whole
  <2> QED
    BY <2>1, <2>2, <2>3 DEF Cidrs
<1> QED
  BY <1>1, <1>2

LEMMA OrderSeq ==
  ASSUME NEW m \in Nat, NEW s, Order(s, m)
  PROVE  s \in Seq(1..m) /\ s \in Seq(Nat \ {0}) /\ Len(s) = m /\ DOMAIN s = 1..m /\ (s = <<>> <=> m = 0)
<1>1. s \in [1..m -> 1..m] /\ s \in [1..m -> Nat \ {0}]
  <2>1. s \in [1..m -> 1..m]
    BY DEF Order
  <2>2. 1..m \subseteq Nat \ {0}
    OBVIOUS
  <2> QED
    BY <2>1, <2>2
<1>2. s \in Seq(1..m) /\ s \in Seq(Nat \ {0}) /\ Len(s) = m /\ DOMAIN s = 1..m
  BY <1>1
<1> QED
  BY <1>2, EmptySeq

LEMMA ShapeFacts ==
  ASSUME section \in Seq(Cidrs), NEW s, NEW m, Shape(s, m)
  PROVE  /\ Linked(next, first) = s /\ DOMAIN s = 1..m /\ Len(s) = m
         /\ {s[k] : k \in DOMAIN s} = 1..m
         /\ Listed = 1..m /\ Cardinality(Listed) = m
<1>1. m \in Nat /\ m <= Len(section) /\ Len(section) \in Nat /\ Nodes = 1..Len(section)
  BY SectionFacts DEF Shape
<1>2. s \in Seq(Nat \ {0}) /\ Len(s) = m /\ DOMAIN s = 1..m
  BY <1>1, OrderSeq DEF Shape
<1>3. Linked(next, first) = s
  <2>1. Chain(next, s) /\ first = Foremost(s) /\ Len(s) <= Len(section)
    BY <1>1, <1>2 DEF Shape
  <2> QED
    BY <1>1, <1>2, <2>1, LinkedIs
<1>4. {s[k] : k \in DOMAIN s} = 1..m
  BY <1>2 DEF Shape, Order
<1>5. Listed = 1..m
  BY <1>1 DEF Listed, Shape
<1>6. Cardinality(1..m) = m
  BY <1>1, FS_Interval
<1> QED
  BY <1>2, <1>3, <1>4, <1>5, <1>6

(* ListKept is what the shape says.                                        *)
LEMMA KeptFromInv == ListInv => ListKept
<1> SUFFICES ASSUME ListInv PROVE ListKept
  OBVIOUS
<1> DEFINE list == Linked(next, first)
           at1(i) == CHOOSE k \in DOMAIN list : list[k] = i
           done == IF cur1 = Nil THEN Len(list) ELSE at1(cur1) - 1
<1>1. section \in Seq(Cidrs) /\ Len(section) \in Nat /\ Nodes = 1..Len(section)
  BY SectionFacts DEF ListInv, ListType
<1>2. ASSUME NEW s, NEW m, Shape(s, m)
      PROVE  /\ {list[k] : k \in DOMAIN list} = Listed /\ Len(list) = Cardinality(Listed)
             /\ \A i \in Listed : heap[i] = "live"
  <2>1. \A i \in 1..m : heap[i] = "live"
    BY <1>1, <1>2 DEF Shape
  <2> QED
    BY <1>1, <1>2, <2>1, ShapeFacts
<1>3. ASSUME phase \in {"make", "sort", "ready"}
      PROVE  /\ {list[k] : k \in DOMAIN list} = Listed /\ Len(list) = Cardinality(Listed)
             /\ \A i \in Listed : heap[i] = "live"
  <2>1. \E s, m : Shape(s, m)
    BY <1>3 DEF ListInv
  <2> HIDE DEF list
  <2> QED
    BY <1>2, <2>1
<1>4. ASSUME phase \in {"sort", "ready"}
      PROVE  \A k \in 1..done : \A j \in (k + 1)..Len(list) : Before(list[k], list[j])
  <2> DEFINE m == Len(section)
  <2>1. PICK s \in [Nodes -> Nodes], p \in 0..m : Shape(s, m) /\ Sorted(s, m, p)
    BY <1>4 DEF ListInv
  <2>2. list = s /\ DOMAIN s = 1..m /\ Len(s) = m
    BY <1>1, <2>1, ShapeFacts
  <2> HIDE DEF list
  <2>3. done = p
    <3>1. CASE p < m
      <4>1. cur1 = s[p + 1] /\ cur1 \in 1..m /\ cur1 # Nil /\ p + 1 \in 1..m
        BY <1>1, <2>1, <3>1 DEF Sorted, Nil
      <4>2. \A k \in 1..m : s[k] = cur1 => k = p + 1
        BY <2>1, <4>1 DEF Shape, Order
      <4>3. at1(cur1) = p + 1
        BY <2>2, <4>1, <4>2
      <4> HIDE DEF at1
      <4>4. done = at1(cur1) - 1
        BY <4>1
      <4> QED
        BY <4>3, <4>4
    <3>2. CASE p = m
      BY <2>1, <2>2, <3>2 DEF Sorted
    <3> QED
      BY <1>1, <2>1, <3>1, <3>2
  <2> HIDE DEF done
  <2> QED
    BY <2>1, <2>2, <2>3 DEF Sorted, Ranked
<1>5. phase \in {"failed", "gone"} => \A i \in Nodes : heap[i] # "live"
  BY DEF ListInv
<1> QED
  BY <1>3, <1>4, <1>5 DEF ListKept
-----------------------------------------------------------------------------
(* Making the list: the new node goes behind the last.                     *)
Straight(m) == [k \in 1..m |-> k]

LEMMA InsertedLast ==
  ASSUME section \in Seq(Cidrs), NEW m \in Nat, Shape(Straight(m), m), m + 1 \in Nodes
  PROVE  Inserted(next, first, m + 1, -1) =
           [i \in DOMAIN next |-> IF i = m + 1 THEN Nil
                                  ELSE IF i = (IF m = 0 THEN Nil ELSE m) THEN m + 1 ELSE next[i]]
<1> DEFINE old  == Linked(next, first)
           n    == Place(Len(old), -1)
           prev == IF n = 0 THEN Nil ELSE old[n]
           nxt  == IF n = 0 THEN first ELSE next[prev]
<1>1. old = Straight(m) /\ Len(old) = m
  BY ShapeFacts
<1>2. n = m
  BY <1>1 DEF Place
<1>3. prev = IF m = 0 THEN Nil ELSE m
  BY <1>1, <1>2 DEF Straight
<1>4. nxt = Nil
  <2>1. CASE m = 0
    BY <1>2, <2>1, ShapeFacts DEF Shape, Foremost, Straight
  <2>2. CASE m # 0
    <3>1. m \in 1..Len(old) /\ Straight(m)[m] = m
      BY <1>1, <2>2 DEF Straight
    <3>2. next[Straight(m)[m]] = Nil
      BY <1>1, <3>1 DEF Shape, Chain
    <3> QED
      BY <1>2, <1>3, <2>2, <3>1, <3>2
  <2> QED
    BY <2>1, <2>2
<1>5. Inserted(next, first, m + 1, -1) =
        [i \in DOMAIN next |-> IF i = m + 1 THEN nxt ELSE IF i = prev THEN m + 1 ELSE next[i]]
  BY DEF Inserted
<1> HIDE DEF n, prev, nxt
<1> QED
  BY <1>3, <1>4, <1>5

LEMMA MakeKeeps == ListInv /\ MakeWeight => ListInv'
<1> SUFFICES ASSUME ListInv, MakeWeight PROVE ListInv'
  OBVIOUS
<1>1. section \in Seq(Cidrs) /\ Len(section) \in Nat /\ Nodes = 1..Len(section)
  BY SectionFacts DEF ListInv, ListType
<1>2. PICK m \in 0..Len(section) : Shape(Straight(m), m)
  BY DEF ListInv, MakeWeight, Straight
<1>3. Building = m + 1 /\ m \in Nat /\ m + 1 \in 1..Len(section)
  BY <1>1, <1>2, ShapeFacts DEF Building, MakeWeight
<1>4. /\ section' = section /\ phase' = "make"
      /\ heap' = [heap EXCEPT ![m + 1] = "live"]
      /\ next' = [i \in Nodes |-> IF i = m + 1 THEN Nil
                                  ELSE IF i = (IF m = 0 THEN Nil ELSE m) THEN m + 1 ELSE next[i]]
      /\ first' = IF first = Nil THEN m + 1 ELSE first
  <2>1. DOMAIN next = Nodes
    BY DEF ListInv, ListType
  <2> QED
    BY <1>1, <1>2, <1>3, <2>1, InsertedLast DEF MakeWeight
<1>5. Straight(m) \in Seq(Nat \ {0}) /\ Len(Straight(m)) = m /\ \A k \in 1..m : Straight(m)[k] = k
  BY <1>3 DEF Straight
<1>6. /\ Straight(m + 1) \in Seq(Nat \ {0}) /\ Len(Straight(m + 1)) = m + 1 /\ Straight(m + 1) # <<>>
      /\ \A k \in 1..(m + 1) : Straight(m + 1)[k] = k
  BY <1>3, EmptySeq DEF Straight
<1>7. Shape(Straight(m + 1), m + 1)'
  <2>1. (m + 1 \in 0..Len(section) /\ Order(Straight(m + 1), m + 1))'
    BY <1>3, <1>4 DEF Order, Straight
  <2>2. \A k \in 1..m : next[k] = IF k < m THEN k + 1 ELSE Nil
    BY <1>2, <1>5 DEF Shape, Chain
  <2>3. \A k \in 1..(m + 1) : next'[k] = IF k < m + 1 THEN k + 1 ELSE Nil
    BY <1>1, <1>3, <1>4, <2>2 DEF Nil
  <2>4. Chain(next', Straight(m + 1))
    BY <1>3, <1>6, <2>3 DEF Chain
  <2>5. first' = Foremost(Straight(m + 1))
    <3>1. first = IF m = 0 THEN Nil ELSE 1
      BY <1>2, <1>3, <1>5, EmptySeq DEF Shape, Foremost
    <3>2. Straight(m + 1)[1] = 1
      BY <1>3, <1>6
    <3> QED
      BY <1>3, <1>4, <1>6, <3>1, <3>2 DEF Foremost, Nil
  <2>6. \A i \in Nodes : heap'[i] = IF i <= m + 1 THEN "live" ELSE "unused"
    BY <1>1, <1>2, <1>3, <1>4 DEF Shape, ListInv, ListType
  <2> QED
    BY <1>4, <2>1, <2>4, <2>5, <2>6 DEF Shape, Nodes
<1>8. ListType'
  <2>1. heap' \in [Nodes -> {"unused", "live", "freed"}]
    BY <1>1, <1>3, <1>4 DEF ListInv, ListType
  <2>2. next' \in [Nodes -> Nodes \cup {Nil}]
    BY <1>1, <1>3, <1>4 DEF ListInv, ListType
  <2> QED
    BY <1>1, <1>4, <2>1, <2>2 DEF ListType, Nodes
<1> QED
  BY <1>3, <1>4, <1>7, <1>8 DEF ListInv, Straight
-----------------------------------------------------------------------------
(* Freeing from the root reaches every node there is.                      *)
LEMMA FreeAll ==
  ASSUME section \in Seq(Cidrs), heap \in [Nodes -> {"unused", "live", "freed"}],
         NEW s, NEW m, Shape(s, m)
  PROVE  Freed(first, 0) \in [Nodes -> {"unused", "freed"}]
<1> DEFINE all  == Linked(next, first)
           gone == {all[k] : k \in {j \in DOMAIN all : 0 = 0 \/ j <= 0}}
<1>1. gone = 1..m
  BY ShapeFacts
<1>2. Freed(first, 0) = [i \in Nodes |-> IF i \in gone THEN "freed" ELSE heap[i]]
  BY DEF Freed
<1> HIDE DEF gone
<1>3. m \in Nat /\ Nodes = 1..Len(section) /\ Len(section) \in Nat
  BY SectionFacts DEF Shape
<1>4. \A i \in Nodes : i \notin gone => heap[i] = "unused"
  BY <1>1, <1>3 DEF Shape
<1> QED
  BY <1>2, <1>4

LEMMA FreeKeeps ==
  ASSUME ListInv, phase' \in {"failed", "gone"}, heap' = Freed(first, 0),
         UNCHANGED <<section, next>>, phase \in {"make", "sort", "ready"}
  PROVE  ListInv'
<1>1. \E s, m : Shape(s, m)
  BY DEF ListInv
<1>2. heap' \in [Nodes -> {"unused", "freed"}]
  BY <1>1, FreeAll DEF ListInv, ListType
<1>3. ListType'
  BY <1>2 DEF ListInv, ListType, Nodes
<1>4. \A i \in Nodes' : heap'[i] # "live"
  BY <1>2 DEF Nodes
<1> QED
  BY <1>3, <1>4 DEF ListInv

LEMMA StartKeeps == ListInv /\ StartSort => ListInv'
<1> SUFFICES ASSUME ListInv, StartSort PROVE ListInv'
  OBVIOUS
<1>0. PICK n, s : n = Len(section) /\ s = Straight(n)
  OBVIOUS
<1>1. section \in Seq(Cidrs) /\ n \in Nat /\ Nodes = 1..n
  BY <1>0, SectionFacts DEF ListInv, ListType
<1>2. PICK m \in 0..n : Shape(Straight(m), m)
  BY <1>0 DEF ListInv, StartSort, Straight
<1>3. m = n
  BY <1>1, <1>2, ShapeFacts DEF Building, StartSort
<1>4. UNCHANGED <<section, heap, next, first>> /\ phase' = "sort" /\ prev1' = Nil /\ cur1' = first
  BY DEF StartSort
<1>5. s \in [Nodes -> Nodes] /\ (s = <<>> <=> n = 0) /\ \A k \in 1..n : s[k] = k
  BY <1>0, <1>1, EmptySeq DEF Straight
<1>6. Shape(s, n)'
  BY <1>0, <1>2, <1>3, <1>4 DEF Shape, Nodes
<1>7. Sorted(s, n, 0)'
  <2>1. cur1' = IF 0 < n THEN s[0 + 1] ELSE Nil
    BY <1>0, <1>1, <1>2, <1>3, <1>4, <1>5 DEF Shape, Foremost
  <2>2. \A k \in (0 + 1)..n : \A j \in (k + 1)..n : s[k] < s[j]
    BY <1>1, <1>5
  <2> QED
    BY <1>1, <1>4, <2>1, <2>2 DEF Sorted, Ranked
<1>8. ListType'
  BY <1>4 DEF ListInv, ListType, Nodes
<1>9. Len(section') = n /\ Nodes' = Nodes
  BY <1>0, <1>4 DEF Nodes
<1>10. \E t \in [Nodes -> Nodes], p \in 0..n : Shape(t, n)' /\ Sorted(t, n, p)'
  BY <1>1, <1>5, <1>6, <1>7
<1> QED
  BY <1>4, <1>8, <1>9, <1>10 DEF ListInv
-----------------------------------------------------------------------------
(* A round of the sort: what is left of the list, and its least.           *)
Left(s, n, p) == [q \in 1..(n - p) |-> s[p + q]]

LEMMA RestIs ==
  ASSUME section \in Seq(Cidrs), NEW n, n = Len(section), NEW s, Shape(s, n), NEW p \in 0..(n - 1)
  PROVE  Linked(next, s[p + 1]) = Left(s, n, p) /\ Left(s, n, p) \in [1..(n - p) -> Nodes]
<1> DEFINE t == Left(s, n, p)
<1>1. n \in Nat /\ Nodes = 1..n /\ n - p \in Nat \ {0}
  BY SectionFacts
<1>2. s \in [1..n -> 1..n] /\ Len(s) = n
  BY <1>1, OrderSeq DEF Shape, Order
<1>3. t \in [1..(n - p) -> 1..n] /\ \A q \in 1..(n - p) : t[q] = s[p + q]
  BY <1>1, <1>2 DEF Left
<1>4. t \in [1..(n - p) -> Nat \ {0}]
  <2>1. 1..n \subseteq Nat \ {0}
    OBVIOUS
  <2> QED
    BY <1>3, <2>1
<1> HIDE DEF t
<1>5. t \in Seq(Nat \ {0}) /\ Len(t) = n - p
  BY <1>1, <1>4
<1>6. Chain(next, t)
  <2> SUFFICES ASSUME NEW q \in 1..(n - p)
               PROVE  next[t[q]] = IF q < n - p THEN t[q + 1] ELSE Nil
    BY <1>5 DEF Chain
  <2>1. p + q \in 1..n /\ p + q \in 1..Len(s) /\ (p + q) + 1 = p + (q + 1)
    BY <1>1, <1>2
  <2>2. next[s[p + q]] = IF p + q < n THEN s[(p + q) + 1] ELSE Nil
    BY <1>2, <2>1 DEF Shape, Chain
  <2>3. q < n - p => q + 1 \in 1..(n - p)
    BY <1>1
  <2> QED
    BY <1>1, <1>3, <2>1, <2>2, <2>3
<1>7. Foremost(t) = s[p + 1]
  <2>1. t # <<>> /\ 1 \in 1..(n - p)
    BY <1>1, <1>5, EmptySeq
  <2> QED
    BY <1>3, <2>1 DEF Foremost
<1>8. Linked(next, Foremost(t)) = t
  BY <1>1, <1>5, <1>6, LinkedIs
<1> QED
  BY <1>1, <1>3, <1>7, <1>8 DEF t

LEMMA LeastIs ==
  ASSUME section \in Seq(Cidrs), NEW d \in Nat \ {0}, NEW t \in [1..d -> Nodes]
  PROVE  /\ Least(t) \in 1..d
         /\ \A j \in 1..d : Weight(t[j]).bits <= Weight(t[Least(t)]).bits
         /\ \A j \in 1..(Least(t) - 1) : Weight(t[j]).bits < Weight(t[Least(t)]).bits
<1> DEFINE w(q) == Weight(t[q]).bits
           b == [q \in 1..d |-> w(q)]
           S == {x \in 1..d : \A y \in 1..d : b[y] <= b[x]}
           Wins(k) == /\ \A j \in 1..d : Cmp(t[k], t[j]) <= 0
                      /\ \A j \in 1..(k - 1) : Cmp(t[k], t[j]) < 0
<1>1. \A q \in 1..d : w(q) \in Int
  BY SectionFacts
<1>2. \A k, j \in 1..d : /\ Cmp(t[k], t[j]) <= 0 <=> w(j) <= w(k)
                         /\ Cmp(t[k], t[j]) < 0 <=> w(j) < w(k)
  <2> TAKE k, j \in 1..d
  <2>1. Cmp(t[k], t[j]) = w(j) - w(k) /\ w(j) \in Int /\ w(k) \in Int
    BY <1>1 DEF Cmp
  <2> HIDE DEF w
  <2> QED
    BY <2>1
<1> HIDE DEF w
<1>3. b \in [1..d -> Int] /\ \A q \in 1..d : b[q] = w(q)
  BY <1>1
<1> HIDE DEF b
<1>4. PICK k \in S : \A j \in S : k <= j
  <2>1. IsFiniteSet(1..d) /\ 1..d # {}
    <3>1. 1 \in Int /\ d \in Int /\ 1 \in 1..d
      OBVIOUS
    <3>2. IsFiniteSet(1..d)
      BY <3>1, FS_Interval
    <3> QED
      BY <3>1, <3>2
  <2>2. S # {}
    BY <1>3, <2>1, FiniteMax
  <2>3. S \subseteq Nat
    OBVIOUS
  <2> QED
    BY <2>2, <2>3, LeastNat
<1>5. k \in 1..d /\ Wins(k)
  <2>1. \A j \in 1..d : Cmp(t[k], t[j]) <= 0
    BY <1>2, <1>3
  <2>2. ASSUME NEW j \in 1..(k - 1) PROVE Cmp(t[k], t[j]) < 0
    <3>1. j \in 1..d /\ j \notin S
      BY <1>4
    <3>2. PICK y \in 1..d : ~(b[y] <= b[j])
      BY <3>1
    <3>3. b[y] <= b[k] /\ b[y] \in Int /\ b[k] \in Int /\ b[j] \in Int
      BY <1>3, <3>1, <3>2
    <3>4. w(j) < w(k)
      BY <1>3, <3>1, <3>2, <3>3
    <3> QED
      BY <1>1, <1>2, <3>1, <3>4
  <2> QED
    BY <2>1, <2>2
<1>6. Least(t) = CHOOSE x \in 1..d : Wins(x)
  BY DEF Least
<1>7. Least(t) \in 1..d /\ Wins(Least(t))
  BY <1>5, <1>6
<1> HIDE DEF S
<1>8. \A j \in 1..d : w(j) <= w(Least(t))
  BY <1>1, <1>2, <1>7
<1>9. \A j \in 1..(Least(t) - 1) : w(j) < w(Least(t))
  BY <1>1, <1>2, <1>7
<1> QED
  BY <1>7, <1>8, <1>9 DEF w

(* The least, k places on, moves to the front of what is left.             *)
Origin(q, p, k) == IF q = p + 1 THEN p + k ELSE IF q \in (p + 2)..(p + k) THEN q - 1 ELSE q
Shifted(s, n, p, k) == [q \in 1..n |-> s[Origin(q, p, k)]]

LEMMA ShiftedOrder ==
  ASSUME NEW n \in Nat, NEW s, Order(s, n), NEW p \in 0..(n - 1), NEW k \in 2..(n - p)
  PROVE  /\ Order(Shifted(s, n, p, k), n)
         /\ \A q \in 1..n : Origin(q, p, k) \in 1..n /\ Shifted(s, n, p, k)[q] = s[Origin(q, p, k)]
<1> DEFINE r == Shifted(s, n, p, k)
           NewPlace(x) == IF x = p + k THEN p + 1 ELSE IF x \in (p + 1)..(p + k - 1) THEN x + 1 ELSE x
<1>1. /\ s \in [1..n -> 1..n]
      /\ \A x, y \in 1..n : s[x] = s[y] => x = y
      /\ \A i \in 1..n : \E x \in 1..n : s[x] = i
  BY DEF Order
<1>2. \A q \in 1..n : Origin(q, p, k) \in 1..n
  BY DEF Origin
<1>3. \A x, y \in 1..n : Origin(x, p, k) = Origin(y, p, k) => x = y
  BY DEF Origin
<1>4. \A x \in 1..n : NewPlace(x) \in 1..n /\ Origin(NewPlace(x), p, k) = x
  <2> TAKE x \in 1..n
  <2>1. CASE x = p + k
    BY <2>1 DEF Origin
  <2>2. CASE x \in (p + 1)..(p + k - 1)
    BY <2>2 DEF Origin
  <2>3. CASE x \notin (p + 1)..(p + k)
    BY <2>3 DEF Origin
  <2> QED
    BY <2>1, <2>2, <2>3
<1> HIDE DEF NewPlace
<1>5. \A q \in 1..n : r[q] = s[Origin(q, p, k)]
  BY DEF Shifted
<1>6. r \in [1..n -> 1..n]
  BY <1>1, <1>2 DEF Shifted
<1> HIDE DEF r
<1>7. \A x, y \in 1..n : r[x] = r[y] => x = y
  <2> SUFFICES ASSUME NEW x \in 1..n, NEW y \in 1..n, r[x] = r[y] PROVE x = y
    OBVIOUS
  <2>1. s[Origin(x, p, k)] = s[Origin(y, p, k)]
    BY <1>5
  <2>2. Origin(x, p, k) = Origin(y, p, k)
    BY <1>1, <1>2, <2>1
  <2> QED
    BY <1>3, <2>2
<1>8. \A i \in 1..n : \E x \in 1..n : r[x] = i
  <2> TAKE i \in 1..n
  <2>1. PICK x \in 1..n : s[x] = i
    BY <1>1
  <2>2. r[NewPlace(x)] = i /\ NewPlace(x) \in 1..n
    BY <1>4, <1>5, <2>1
  <2> QED
    BY <2>2
<1>9. Order(r, n)
  BY <1>6, <1>7, <1>8 DEF Order
<1> QED
  BY <1>2, <1>5, <1>9 DEF r

(* The links that are set make it so.                                      *)
LEMMA ShiftedChain ==
  ASSUME NEW n \in Nat, NEW s, Order(s, n), NEW p \in 0..(n - 1), NEW k \in 2..(n - p),
         NEW nx, Chain(nx, s), NEW nx2,
         \A x \in 1..n : nx2[s[x]] =
            IF x = p + k THEN s[p + 1]
            ELSE IF x = p + k - 1 THEN nx[s[p + k]]
            ELSE IF x = p THEN s[p + k] ELSE nx[s[x]]
  PROVE  Chain(nx2, Shifted(s, n, p, k))
<1> DEFINE r == Shifted(s, n, p, k)
<1>1. Len(r) = n /\ \A q \in 1..n : Origin(q, p, k) \in 1..n /\ r[q] = s[Origin(q, p, k)]
  <2>1. Order(r, n) /\ \A q \in 1..n : Origin(q, p, k) \in 1..n /\ r[q] = s[Origin(q, p, k)]
    BY ShiftedOrder
  <2> HIDE DEF r
  <2>2. Len(r) = n
    BY <2>1, OrderSeq
  <2> QED
    BY <2>1, <2>2
<1> HIDE DEF r
<1>2. \A x \in 1..n : nx[s[x]] = IF x < n THEN s[x + 1] ELSE Nil
  BY OrderSeq DEF Chain
<1> SUFFICES ASSUME NEW q \in 1..n PROVE nx2[r[q]] = IF q < n THEN r[q + 1] ELSE Nil
  BY <1>1 DEF Chain, r
<1>3. r[q] = s[Origin(q, p, k)] /\ (q < n => r[q + 1] = s[Origin(q + 1, p, k)])
  <2>1. q < n => q + 1 \in 1..n
    OBVIOUS
  <2> QED
    BY <1>1, <2>1
<1>4. CASE q < p
  <2>1. Origin(q, p, k) = q /\ Origin(q + 1, p, k) = q + 1 /\ q # p + k /\ q # p + k - 1 /\ q # p /\ q < n
    BY <1>4 DEF Origin
  <2> QED
    BY <1>2, <1>3, <2>1
<1>5. CASE q = p
  <2>1. Origin(q, p, k) = p /\ Origin(q + 1, p, k) = p + k /\ p # p + k /\ p # p + k - 1 /\ q < n
    BY <1>5 DEF Origin
  <2> QED
    BY <1>3, <1>5, <2>1
<1>6. CASE q = p + 1
  <2>1. Origin(q, p, k) = p + k /\ Origin(q + 1, p, k) = p + 1 /\ q < n /\ p + k \in 1..n
    BY <1>6 DEF Origin
  <2>2. nx2[s[p + k]] = s[p + 1]
    BY <2>1
  <2>3. r[q] = s[p + k]
    BY <1>3, <2>1
  <2>4. r[q + 1] = s[p + 1]
    BY <1>3, <2>1
  <2> QED
    BY <2>1, <2>2, <2>3, <2>4
<1>7. CASE q \in (p + 2)..(p + k - 1)
  <2>1. /\ Origin(q, p, k) = q - 1 /\ Origin(q + 1, p, k) = q /\ q < n /\ q - 1 \in 1..n /\ q - 1 < n
        /\ q - 1 # p + k /\ q - 1 # p + k - 1 /\ q - 1 # p /\ (q - 1) + 1 = q
    BY <1>7 DEF Origin
  <2>2. nx2[s[q - 1]] = nx[s[q - 1]] /\ nx[s[q - 1]] = s[(q - 1) + 1]
    BY <1>2, <2>1
  <2>3. r[q] = s[q - 1]
    BY <1>3, <2>1
  <2>4. r[q + 1] = s[q]
    BY <1>3, <2>1
  <2> QED
    BY <2>1, <2>2, <2>3, <2>4
<1>8. CASE q = p + k
  <2>1. /\ Origin(q, p, k) = p + k - 1 /\ p + k - 1 \in 1..n /\ p + k - 1 # p + k
        /\ (q < n => Origin(q + 1, p, k) = q + 1)
    BY <1>8 DEF Origin
  <2>2. nx2[s[p + k - 1]] = nx[s[p + k]] /\ nx[s[p + k]] = IF q < n THEN s[q + 1] ELSE Nil
    BY <1>2, <1>8, <2>1
  <2>3. r[q] = s[p + k - 1]
    BY <1>3, <2>1
  <2>4. q < n => r[q + 1] = s[q + 1]
    BY <1>3, <2>1
  <2> QED
    BY <2>2, <2>3, <2>4
<1>9. CASE q > p + k
  <2>1. /\ Origin(q, p, k) = q /\ (q < n => Origin(q + 1, p, k) = q + 1)
        /\ q # p + k /\ q # p + k - 1 /\ q # p
    BY <1>9 DEF Origin
  <2> QED
    BY <1>2, <1>3, <2>1
<1> QED
  BY <1>4, <1>5, <1>6, <1>7, <1>8, <1>9

(* The node k places on is the first of the longest netmasks there are left. *)
Heads(s, n, p, k) ==
  /\ \A j \in (p + 1)..n : Weight(s[j]).bits <= Weight(s[p + k]).bits
  /\ \A j \in (p + 1)..(p + k - 1) : Weight(s[j]).bits < Weight(s[p + k]).bits

LEMMA RankedNext ==
  ASSUME section \in Seq(Cidrs), NEW n \in Nat, n = Len(section), NEW s, Order(s, n),
         NEW p \in 0..(n - 1), Ranked(s, n, p), Heads(s, n, p, 1)
  PROVE  Ranked(s, n, p + 1)
<1>1. s \in [1..n -> 1..n] /\ \A x \in 1..n : Weight(s[x]).bits \in Int
  BY SectionFacts DEF Order
<1>2. \A j \in (p + 2)..n : Before(s[p + 1], s[j])
  <2> TAKE j \in (p + 2)..n
  <2>1. p + 1 \in 1..n /\ j \in 1..n /\ j \in (p + 1)..n /\ p + 1 \in (p + 1)..n /\ j \in ((p + 1) + 1)..n
    OBVIOUS
  <2>2. Weight(s[j]).bits <= Weight(s[p + 1]).bits /\ s[p + 1] < s[j]
    BY <2>1 DEF Heads, Ranked
  <2>3. Weight(s[j]).bits \in Int /\ Weight(s[p + 1]).bits \in Int
    BY <1>1, <2>1
  <2> QED
    BY <2>2, <2>3 DEF Before
<1>3. \A k \in 1..(p + 1) : \A j \in (k + 1)..n : Before(s[k], s[j])
  BY <1>2 DEF Ranked
<1>4. \A k \in (p + 2)..n : \A j \in (k + 1)..n : s[k] < s[j]
  BY DEF Ranked
<1> QED
  BY <1>3, <1>4 DEF Ranked

LEMMA RankedShifted ==
  ASSUME section \in Seq(Cidrs), NEW n \in Nat, n = Len(section), NEW s, Order(s, n),
         NEW p \in 0..(n - 1), NEW k \in 2..(n - p), Ranked(s, n, p), Heads(s, n, p, k)
  PROVE  Ranked(Shifted(s, n, p, k), n, p + 1)
<1> DEFINE r == Shifted(s, n, p, k)
<1>1. s \in [1..n -> 1..n] /\ \A x \in 1..n : Weight(s[x]).bits \in Int
  BY SectionFacts DEF Order
<1>2. \A q \in 1..n : Origin(q, p, k) \in 1..n /\ r[q] = s[Origin(q, p, k)]
  BY ShiftedOrder
<1> HIDE DEF r
<1>3. ASSUME NEW x \in 1..(p + 1), NEW y \in (x + 1)..n PROVE Before(r[x], r[y])
  <2>1. x \in 1..n /\ y \in 1..n
    OBVIOUS
  <2> DEFINE z == Origin(y, p, k)
  <2>2. CASE x <= p
    <3>1. Origin(x, p, k) = x /\ z \in (x + 1)..n
      BY <2>2 DEF Origin
    <3> HIDE DEF z
    <3>2. Before(s[x], s[z])
      BY <2>1, <2>2, <3>1 DEF Ranked
    <3> QED
      BY <1>2, <2>1, <3>1, <3>2 DEF z
  <2>3. CASE x = p + 1
    <3>1. Origin(x, p, k) = p + k /\ z \in (p + 1)..n /\ z # p + k /\ p + k \in 1..n
      BY <2>3 DEF Origin
    <3> HIDE DEF z
    <3>2. z \in 1..n
      BY <3>1
    <3>3. Weight(s[z]).bits \in Int /\ Weight(s[p + k]).bits \in Int
      BY <1>1, <3>1, <3>2
    <3>4. Before(s[p + k], s[z])
      <4>1. CASE z < p + k
        <5>1. z \in (p + 1)..(p + k - 1)
          BY <3>1, <4>1
        <5> QED
          BY <3>3, <5>1 DEF Heads, Before
      <4>2. CASE z > p + k
        <5>1. p + k \in (p + 1)..n /\ z \in ((p + k) + 1)..n
          BY <3>1, <4>2
        <5>2. s[p + k] < s[z] /\ Weight(s[z]).bits <= Weight(s[p + k]).bits
          BY <3>1, <5>1 DEF Ranked, Heads
        <5> QED
          BY <3>3, <5>2 DEF Before
      <4> QED
        BY <3>1, <3>2, <4>1, <4>2
    <3> QED
      BY <1>2, <2>1, <3>1, <3>4 DEF z
  <2> QED
    BY <2>2, <2>3
<1>4. ASSUME NEW x \in (p + 2)..n, NEW y \in (x + 1)..n PROVE r[x] < r[y]
  <2>1. x \in 1..n /\ y \in 1..n
    OBVIOUS
  <2>2. Origin(x, p, k) \in (p + 1)..n /\ Origin(y, p, k) \in (Origin(x, p, k) + 1)..n
    BY DEF Origin
  <2>3. s[Origin(x, p, k)] < s[Origin(y, p, k)]
    BY <2>2 DEF Ranked
  <2> QED
    BY <1>2, <2>1, <2>3
<1>5. \A x \in 1..(p + 1) : \A y \in (x + 1)..n : Before(r[x], r[y])
  BY <1>3
<1>6. \A x \in ((p + 1) + 1)..n : \A y \in (x + 1)..n : r[x] < r[y]
  BY <1>4
<1> QED
  BY <1>5, <1>6 DEF Ranked, r

LEMMA SortKeeps == ListInv /\ SortRound => ListInv'
<1> SUFFICES ASSUME ListInv, SortRound PROVE ListInv'
  OBVIOUS
<1>0. PICK n : n = Len(section)
  OBVIOUS
<1>1. section \in Seq(Cidrs) /\ n \in Nat /\ Nodes = 1..n /\ Len(section) \in Nat
  BY <1>0, SectionFacts DEF ListInv, ListType
<1>2. PICK s \in [Nodes -> Nodes], p \in 0..n : Shape(s, n) /\ Sorted(s, n, p)
  BY <1>0 DEF ListInv, SortRound
<1>3. p < n /\ cur1 = s[p + 1] /\ p \in 0..(n - 1)
  <2>1. cur1 # Nil
    BY DEF SortRound
  <2> QED
    BY <1>1, <1>2, <2>1 DEF Sorted
<1>4. Order(s, n) /\ s \in [1..n -> 1..n] /\ Len(s) = n /\ DOMAIN s = 1..n /\ s # <<>>
  BY <1>1, <1>2, <1>3, OrderSeq DEF Shape
<1>5. \A x, y \in 1..n : s[x] = s[y] => x = y
  BY <1>4 DEF Order
<1>6. \A x \in 1..n : next[s[x]] = IF x < n THEN s[x + 1] ELSE Nil
  BY <1>2, <1>4 DEF Shape, Chain
<1>7. PICK t : t = Left(s, n, p)
  OBVIOUS
<1>8. t = Linked(next, cur1) /\ t \in [1..(n - p) -> Nodes] /\ \A q \in 1..(n - p) : t[q] = s[p + q]
  <2>1. Linked(next, s[p + 1]) = Left(s, n, p) /\ Left(s, n, p) \in [1..(n - p) -> Nodes]
    BY <1>0, <1>1, <1>2, <1>3, RestIs
  <2>2. \A q \in 1..(n - p) : Left(s, n, p)[q] = s[p + q]
    BY DEF Left
  <2> QED
    BY <1>3, <1>7, <2>1, <2>2
<1>9. PICK k : k = Least(t)
  OBVIOUS
<1>10. k \in 1..(n - p) /\ Heads(s, n, p, k)
  <2>1. /\ k \in 1..(n - p)
        /\ \A j \in 1..(n - p) : Weight(t[j]).bits <= Weight(t[k]).bits
        /\ \A j \in 1..(k - 1) : Weight(t[j]).bits < Weight(t[k]).bits
    <3>1. PICK d : d = n - p
      OBVIOUS
    <3>2. d \in Nat \ {0} /\ t \in [1..d -> Nodes]
      <4>1. n - p \in Nat \ {0}
        BY <1>1, <1>3
      <4>2. t \in [1..(n - p) -> Nodes]
        BY <1>8
      <4> QED
        BY <3>1, <4>1, <4>2
    <3>3. /\ Least(t) \in 1..d
          /\ \A j \in 1..d : Weight(t[j]).bits <= Weight(t[Least(t)]).bits
          /\ \A j \in 1..(Least(t) - 1) : Weight(t[j]).bits < Weight(t[Least(t)]).bits
      <4>1. section \in Seq(Cidrs)
        BY <1>1
      <4> QED
        BY <3>2, <4>1, LeastIs
    <3> QED
      BY <1>9, <3>1, <3>3
  <2>2. \A j \in (p + 1)..n : j - p \in 1..(n - p) /\ t[j - p] = s[j]
    BY <1>1, <1>8
  <2>3. \A j \in (p + 1)..n : Weight(s[j]).bits <= Weight(s[p + k]).bits
    BY <1>8, <2>1, <2>2
  <2>4. ASSUME NEW j \in (p + 1)..(p + k - 1) PROVE Weight(s[j]).bits < Weight(s[p + k]).bits
    <3>1. j - p \in 1..(k - 1) /\ j \in (p + 1)..n
      BY <1>1, <2>1
    <3> QED
      BY <1>8, <2>1, <2>2, <3>1
  <2> QED
    BY <2>1, <2>3, <2>4 DEF Heads
<1>11. PICK sub : sub = s[p + k]
  OBVIOUS
<1>12. /\ UNCHANGED <<section, phase, heap>> /\ phase = "sort"
       /\ next' = IF sub = cur1 THEN next
                  ELSE [i \in Nodes |->
                          CASE i = sub      -> cur1
                            [] i = t[k - 1] -> next[sub]
                            [] i = prev1    -> sub
                            [] OTHER        -> next[i]]
       /\ first' = IF prev1 = Nil THEN sub ELSE first
       /\ prev1' = sub
       /\ cur1' = IF sub = cur1 THEN next[cur1] ELSE cur1
  <2>1. t[k] = sub
    BY <1>8, <1>10, <1>11
  <2> QED
    BY <1>8, <1>9, <2>1 DEF SortRound
<1>13. prev1 = (IF p = 0 THEN Nil ELSE s[p]) /\ first = s[1] /\ Ranked(s, n, p)
  BY <1>2, <1>4 DEF Shape, Sorted, Foremost
<1>14. prev1 = Nil <=> p = 0
  BY <1>1, <1>3, <1>4, <1>13 DEF Nil
<1>15. sub = cur1 <=> k = 1
  <2>1. p + k \in 1..n /\ p + 1 \in 1..n
    BY <1>1, <1>10
  <2> QED
    BY <1>3, <1>5, <1>10, <1>11, <2>1
<1>16. \A i \in Nodes : heap[i] = IF i <= n THEN "live" ELSE "unused"
  BY <1>2 DEF Shape
<1>17. ASSUME NEW r \in [1..n -> 1..n], Order(r, n), Chain(next', r), first' = r[1], r[p + 1] = sub,
              cur1' = IF p + 1 < n THEN r[p + 2] ELSE Nil, Ranked(r, n, p + 1)
       PROVE  ListInv'
  <2>1. Nodes' = Nodes /\ Len(section') = n /\ p + 1 \in 0..n
    BY <1>0, <1>3, <1>12 DEF Nodes
  <2>2. r # <<>>
    BY <1>1, <1>3, <1>17, OrderSeq
  <2>3. Shape(r, n)'
    BY <1>1, <1>12, <1>16, <1>17, <2>1, <2>2 DEF Shape, Foremost
  <2>4. Ranked(r, n, p + 1)'
    BY <1>12, <1>17 DEF Ranked, Before, Weight
  <2>5. Sorted(r, n, p + 1)'
    BY <1>3, <1>12, <1>17, <2>1, <2>4 DEF Sorted
  <2>6. ListType'
    <3>1. next' \in [Nodes -> Nodes \cup {Nil}]
      <4>1. sub \in Nodes /\ cur1 \in Nodes
        BY <1>1, <1>3, <1>4, <1>10, <1>11
      <4> QED
        BY <1>12, <4>1 DEF ListInv, ListType
    <3> QED
      BY <1>12, <2>1, <3>1 DEF ListInv, ListType
  <2>7. \E u \in [Nodes -> Nodes], v \in 0..n : Shape(u, n)' /\ Sorted(u, n, v)'
    BY <1>1, <2>1, <2>3, <2>5
  <2> QED
    BY <1>12, <2>1, <2>6, <2>7 DEF ListInv
<1>18. CASE k = 1
  <2>1. next' = next /\ sub = s[p + 1] /\ cur1' = next[s[p + 1]] /\ p + 1 \in 1..n
    BY <1>1, <1>3, <1>11, <1>12, <1>15, <1>18
  <2>2. cur1' = IF p + 1 < n THEN s[p + 2] ELSE Nil
    BY <1>1, <1>3, <1>6, <2>1
  <2>3. first' = s[1]
    BY <1>12, <1>13, <1>14, <2>1
  <2>4. Ranked(s, n, p + 1)
    BY <1>0, <1>1, <1>3, <1>4, <1>10, <1>13, <1>18, RankedNext
  <2>5. Chain(next', s)
    BY <1>2, <2>1 DEF Shape
  <2> QED
    BY <1>4, <1>17, <2>1, <2>2, <2>3, <2>4, <2>5
<1>19. CASE k # 1
  <2>1. k \in 2..(n - p) /\ sub # cur1 /\ p + k \in 1..n /\ p + k - 1 \in 1..n /\ k - 1 \in 1..(n - p)
    BY <1>1, <1>3, <1>10, <1>15, <1>19
  <2>2. PICK r : r = Shifted(s, n, p, k)
    OBVIOUS
  <2>3. /\ Order(r, n)
        /\ \A q \in 1..n : Origin(q, p, k) \in 1..n /\ r[q] = s[Origin(q, p, k)]
    <3>1. /\ Order(Shifted(s, n, p, k), n)
          /\ \A q \in 1..n : Origin(q, p, k) \in 1..n /\ Shifted(s, n, p, k)[q] = s[Origin(q, p, k)]
      <4>1. n \in Nat /\ Order(s, n) /\ p \in 0..(n - 1) /\ k \in 2..(n - p)
        BY <1>1, <1>3, <1>4, <2>1
      <4> QED
        BY <4>1, ShiftedOrder
    <3> QED
      BY <2>2, <3>1
  <2>4. t[k - 1] = s[p + k - 1]
    BY <1>1, <1>8, <2>1
  <2>5. \A x \in 1..n : next'[s[x]] =
            IF x = p + k THEN s[p + 1]
            ELSE IF x = p + k - 1 THEN next[s[p + k]]
            ELSE IF x = p THEN s[p + k] ELSE next[s[x]]
    <3> TAKE x \in 1..n
    <3>1. /\ s[x] = sub <=> x = p + k
          /\ s[x] = t[k - 1] <=> x = p + k - 1
      BY <1>5, <1>11, <2>1, <2>4
    <3>2. s[x] = prev1 <=> x = p
      <4>1. CASE p = 0
        BY <1>1, <1>4, <1>13, <4>1 DEF Nil
      <4>2. CASE p # 0
        <5>1. p \in 1..n /\ prev1 = s[p]
          BY <1>1, <1>3, <1>13, <4>2
        <5> QED
          BY <1>5, <5>1
      <4> QED
        BY <4>1, <4>2
    <3>3. s[x] \in Nodes
      BY <1>1, <1>4
    <3> QED
      BY <1>3, <1>11, <1>12, <2>1, <3>1, <3>2, <3>3
  <2>6. Chain(next', r)
    <3>1. Chain(next, s)
      BY <1>2 DEF Shape
    <3> QED
      BY <1>1, <1>3, <1>4, <2>1, <2>2, <2>5, <3>1, ShiftedChain
  <2>7. r[p + 1] = sub
    BY <1>1, <1>3, <1>11, <2>3 DEF Origin
  <2>8. cur1' = IF p + 1 < n THEN r[p + 2] ELSE Nil
    <3>1. p + 2 \in 1..n /\ Origin(p + 2, p, k) = p + 1 /\ p + 1 < n
      BY <1>1, <1>3, <2>1 DEF Origin
    <3> QED
      BY <1>3, <1>12, <2>1, <2>3, <3>1
  <2>9. first' = r[1]
    <3>1. CASE p = 0
      BY <1>12, <1>14, <2>7, <3>1
    <3>2. CASE p # 0
      <4>1. 1 \in 1..n /\ Origin(1, p, k) = 1
        BY <1>1, <1>3, <3>2 DEF Origin
      <4> QED
        BY <1>12, <1>13, <1>14, <2>3, <3>2, <4>1
    <3> QED
      BY <3>1, <3>2
  <2>10. Ranked(r, n, p + 1)
    BY <1>0, <1>1, <1>3, <1>4, <1>10, <1>13, <2>1, <2>2, RankedShifted
  <2>11. r \in [1..n -> 1..n]
    BY <2>3 DEF Order
  <2> QED
    BY <1>17, <2>3, <2>6, <2>7, <2>8, <2>9, <2>10, <2>11
<1> QED
  BY <1>18, <1>19
-----------------------------------------------------------------------------
LEMMA EndKeeps == ListInv /\ EndSort => ListInv'
<1> SUFFICES ASSUME ListInv, EndSort PROVE ListInv'
  OBVIOUS
<1>1. /\ UNCHANGED <<section, heap, next, first, prev1, cur1>> /\ cur1 = Nil
      /\ phase = "sort" /\ phase' = "ready"
  BY DEF EndSort
<1>2. PICK s \in [Nodes -> Nodes], p \in 0..Len(section) : Shape(s, Len(section)) /\ Sorted(s, Len(section), p)
  BY <1>1 DEF ListInv
<1>3. PICK n : n = Len(section)
  OBVIOUS
<1>4. Nodes' = Nodes /\ Len(section') = n
  BY <1>1, <1>3 DEF Nodes
<1>5. Shape(s, n)' /\ Sorted(s, n, p)'
  BY <1>1, <1>2, <1>3, <1>4 DEF Shape, Sorted, Ranked, Before, Weight
<1>6. ListType'
  BY <1>1, <1>4 DEF ListInv, ListType
<1>7. \E u \in [Nodes -> Nodes], v \in 0..n : Shape(u, n)' /\ Sorted(u, n, v)'
  BY <1>2, <1>3, <1>5
<1> QED
  BY <1>1, <1>4, <1>6, <1>7 DEF ListInv

LEMMA ListStarts == ASSUME NEW cidrs \in Seq(Cidrs), ListStart(cidrs) PROVE ListInv
<1>1. section \in Seq(Cidrs) /\ Len(section) \in Nat /\ Nodes = 1..Len(section)
  BY SectionFacts DEF ListStart
<1>2. ListType
  BY <1>1 DEF ListType, ListStart
<1>3. Straight(0) = <<>> /\ Len(Straight(0)) = 0
  BY EmptySeq DEF Straight
<1>4. Shape(Straight(0), 0)
  <2>1. Order(Straight(0), 0)
    BY DEF Order, Straight
  <2>2. Chain(next, Straight(0))
    BY <1>3 DEF Chain
  <2>3. \A i \in Nodes : heap[i] = IF i <= 0 THEN "live" ELSE "unused"
    BY <1>1 DEF ListStart
  <2> QED
    BY <1>1, <1>3, <2>1, <2>2, <2>3 DEF Shape, Foremost, ListStart
<1>5. \E m \in 0..Len(section) : Shape(Straight(m), m)
  BY <1>1, <1>4
<1> QED
  BY <1>2, <1>5 DEF ListInv, ListStart, Straight

LEMMA ListStutters == ListInv /\ UNCHANGED listVars => ListInv'
<1> SUFFICES ASSUME ListInv, UNCHANGED listVars PROVE ListInv'
  OBVIOUS
<1>1. UNCHANGED <<section, heap, next, first, prev1, cur1, phase>> /\ Nodes' = Nodes
  BY DEF listVars, Nodes
<1>2. PICK n : n = Len(section)
  OBVIOUS
<1>3. ASSUME NEW s, NEW m, Shape(s, m) PROVE Shape(s, m)'
  BY <1>1, <1>3 DEF Shape
<1>4. ASSUME NEW s, NEW m, NEW p, Sorted(s, m, p) PROVE Sorted(s, m, p)'
  BY <1>1, <1>4 DEF Sorted, Ranked, Before, Weight
<1>5. phase = "make" => \E m \in 0..n : Shape([k \in 1..m |-> k], m)'
  BY <1>2, <1>3 DEF ListInv
<1>6. phase \in {"sort", "ready"} =>
        \E s \in [Nodes -> Nodes], p \in 0..n : Shape(s, n)' /\ Sorted(s, n, p)'
  BY <1>2, <1>3, <1>4 DEF ListInv
<1>7. ListType'
  BY <1>1 DEF ListInv, ListType
<1>8. Len(section') = n
  BY <1>1, <1>2
<1> QED
  BY <1>1, <1>5, <1>6, <1>7, <1>8 DEF ListInv

LEMMA ListSteps == ListInv /\ [ListNext]_listVars => ListInv'
<1> SUFFICES ASSUME ListInv, [ListNext]_listVars PROVE ListInv'
  OBVIOUS
<1>1. CASE MakeWeight
  BY <1>1, MakeKeeps
<1>2. CASE WeightFails
  BY <1>2, FreeKeeps DEF WeightFails
<1>3. CASE StartSort
  BY <1>3, StartKeeps
<1>4. CASE SortRound
  BY <1>4, SortKeeps
<1>5. CASE EndSort
  BY <1>5, EndKeeps
<1>6. CASE DestroyList
  BY <1>6, FreeKeeps DEF DestroyList
<1>7. CASE UNCHANGED listVars
  BY <1>7, ListStutters
<1> QED
  BY <1>1, <1>2, <1>3, <1>4, <1>5, <1>6, <1>7 DEF ListNext

(* However a list is configured and wherever making it fails, sorting      *)
(* loses no node and reorders none that are of equal length, and freeing   *)
(* leaves none behind.                                                     *)
THEOREM ListSafety == ListSpec => []ListKept
<1>1. ListInit => ListInv
  <2>1. ASSUME NEW cidrs \in Sections, ListStart(cidrs) PROVE ListInv
    <3>1. cidrs \in Seq(Cidrs)
      BY BlockListAssumption DEF Cidrs
    <3> QED
      BY <2>1, <3>1, ListStarts
  <2> QED
    BY <2>1 DEF ListInit
<1> QED
  BY <1>1, ListSteps, KeptFromInv, PTL DEF ListSpec
-----------------------------------------------------------------------------
(***************************************************************************)
(* What a dict answers.                                                    *)
(***************************************************************************)
(* The walk over a pattern and a member: where it ends badly at the k-th   *)
(* piece, from where it does at the next.                                  *)
FitsAt(d, m, s, n) == n + Len(s) <= Len(m) /\ SameText(d.nocase, SubSeq(m, n + 1, n + Len(s)), s)
DiesAt(w, d, r, k) ==
  IF k > Len(d.pattern) THEN {}
  ELSE {n \in 0..(Len(Asks(d, r)) - 1) :
          \/ Piece(d, r, k) = <<>>
          \/ /\ FitsAt(d, Asks(d, r), Piece(d, r, k), n)
             /\ n + Len(Piece(d, r, k)) \in w[k + 1]}
IsTrail(w, d, r) == w = [k \in 1..(Len(d.pattern) + 1) |-> DiesAt(w, d, r, k)]

LEMMA PanicsIs ==
  ASSUME NEW d, NEW r
  PROVE  DynPanics(d, r) <=> 0 \in (CHOOSE w : IsTrail(w, d, r))[1]
BY DEF DynPanics, IsTrail, DiesAt, FitsAt

LEMMA TrailIs ==
  ASSUME NEW w, NEW d, NEW r, IsTrail(w, d, r)
  PROVE  \A k \in 1..(Len(d.pattern) + 1) : w[k] = DiesAt(w, d, r, k)
<1> DEFINE e(k) == DiesAt(w, d, r, k)
<1>1. w = [k \in 1..(Len(d.pattern) + 1) |-> e(k)]
  BY DEF IsTrail
<1> HIDE DEF e
<1>2. \A k \in 1..(Len(d.pattern) + 1) : w[k] = e(k)
  BY <1>1
<1> QED
  BY <1>2 DEF e

(* With every member it asks for at hand, no walk ends badly: it would do  *)
(* so last at some piece, where the member is missing.                     *)
LEMMA PanicMisses ==
  ASSUME NEW d, NEW r, Len(d.pattern) \in Nat, DOMAIN d.pattern = 1..Len(d.pattern),
         \A k \in DOMAIN d.pattern : d.pattern[k][1] \in {"lit", "mbr"},
         DynPanics(d, r)
  PROVE  Missing(d.pattern, r)
<1> SUFFICES ASSUME ~Missing(d.pattern, r) PROVE FALSE
  OBVIOUS
<1> DEFINE L == Len(d.pattern)
           good == [k \in 1..(L + 1) |-> {}]
           w == CHOOSE v : IsTrail(v, d, r)
<1>1. \A k \in 1..L : Piece(d, r, k) # <<>>
  <2> TAKE k \in 1..L
  <2>1. CASE d.pattern[k][1] = "lit"
    <3>1. \A c : <<c>> # <<>>
      OBVIOUS
    <3> QED
      BY <2>1, <3>1 DEF Piece
  <2>2. CASE d.pattern[k][1] = "mbr"
    BY <2>2 DEF Piece, Missing
  <2> QED
    BY <2>1, <2>2
<1>2. IsTrail(good, d, r)
  <2>1. \A k \in 1..(L + 1) : good[k] = {}
    OBVIOUS
  <2>2. \A k \in 1..(L + 1) : DiesAt(good, d, r, k) = {}
    <3> TAKE k \in 1..(L + 1)
    <3>1. CASE k > L
      BY <3>1 DEF DiesAt
    <3>2. CASE ~(k > L)
      <4>1. k \in 1..L /\ k + 1 \in 1..(L + 1)
        BY <3>2
      <4>2. good[k + 1] = {}
        BY <2>1, <4>1
      <4> HIDE DEF good
      <4> QED
        BY <1>1, <4>1, <4>2 DEF DiesAt
    <3> QED
      BY <3>1, <3>2
  <2> DEFINE e(k) == DiesAt(good, d, r, k)
  <2>3. \A k \in 1..(L + 1) : e(k) = {}
    BY <2>2
  <2> HIDE DEF e
  <2>4. good = [k \in 1..(L + 1) |-> e(k)]
    BY <2>3
  <2> QED
    BY <2>4 DEF e, IsTrail
<1> HIDE DEF good
<1>3. IsTrail(w, d, r) /\ 0 \in w[1]
  BY <1>2, PanicsIs
<1> HIDE DEF w
<1> DEFINE S == {j \in 0..L : w[L + 1 - j] # {}}
<1>4. L \in S
  BY <1>3
<1>5. PICK j \in S : \A i \in S : j <= i
  <2>1. S \subseteq Nat
    OBVIOUS
  <2> QED
    BY <1>4, <2>1, LeastNat
<1> DEFINE k == L + 1 - j
<1>6. k \in 1..(L + 1) /\ w[k] # {} /\ w[k] = DiesAt(w, d, r, k)
  BY <1>3, <1>5, TrailIs
<1>7. k \in 1..L
  BY <1>6 DEF DiesAt
<1>8. w[k + 1] = {}
  <2>1. j - 1 \in 0..L /\ L + 1 - (j - 1) = k + 1 /\ ~(j <= j - 1)
    BY <1>5, <1>7
  <2>2. j - 1 \notin S
    BY <1>5, <2>1
  <2> QED
    BY <2>1, <2>2
<1> HIDE DEF k
<1> QED
  BY <1>1, <1>6, <1>7, <1>8 DEF DiesAt
-----------------------------------------------------------------------------
(* What each kind of dict answers, and its limits.                         *)
LEMMA StrInBounds ==
  ASSUME NEW d \in StrDicts, NEW r
  PROVE  \/ \E w \in Down(d.weight)..Up(d.weight) : StrAnswer(d, r) = Gain(w)
         \/ StrAnswer(d, r) = Panic /\ Missing(d.pattern, r)
<1>1. d.weight \in Int
  BY IntakeAssumption
<1>2. 0 \in Down(d.weight)..Up(d.weight) /\ d.weight \in Down(d.weight)..Up(d.weight)
  BY <1>1 DEF Down, Up
<1>3. StatWeight(d, r) \in Down(d.weight)..Up(d.weight)
  BY <1>2 DEF StatWeight
<1>4. DynPanics(d, r) => Missing(d.pattern, r)
  <2> DEFINE P == ({"lit"} \X DOMAIN LowerCase) \cup ({"mbr"} \X Members)
  <2>1. d.pattern \in Seq(P)
    BY IntakeAssumption
  <2>2. \A c \in P : c[1] \in {"lit", "mbr"}
    OBVIOUS
  <2> HIDE DEF P
  <2>3. Len(d.pattern) \in Nat /\ DOMAIN d.pattern = 1..Len(d.pattern) /\ \A k \in DOMAIN d.pattern : d.pattern[k] \in P
    BY <2>1
  <2> QED
    BY <2>2, <2>3, PanicMisses
<1> QED
  BY <1>2, <1>3, <1>4 DEF StrAnswer

LEMMA SpfInBounds ==
  ASSUME NEW d \in SpfDicts
  PROVE  \A x \in SpfWeights(d) : x \in SpfMin(d)..SpfMax(d)
<1> DEFINE g == <<"pass", "fail", "soft_fail", "neutral", "none", "perm_error", "temp_error">>
           e(k) == SpfWeight(d, g[k])
           f == [k \in 1..7 |-> e(k)]
<1>1. Results = {g[k] : k \in 1..7}
  <2>1. /\ g[1] = "pass" /\ g[2] = "fail" /\ g[3] = "soft_fail" /\ g[4] = "neutral"
        /\ g[5] = "none" /\ g[6] = "perm_error" /\ g[7] = "temp_error"
    OBVIOUS
  <2> HIDE DEF g
  <2>2. 1..7 = {1, 2, 3, 4, 5, 6, 7}
    OBVIOUS
  <2> QED
    BY <2>1, <2>2 DEF Results
<1>2. \A res : SpfWeight(d, res) \in Int
  BY IntakeAssumption DEF SpfWeight
<1> HIDE DEF g
<1>3. SpfWeights(d) = {e(k) : k \in 1..7}
  BY <1>1 DEF SpfWeights
<1>4. \A k \in 1..7 : e(k) \in Int
  BY <1>2
<1> HIDE DEF e
<1>5. f \in [1..7 -> Int] /\ SpfWeights(d) = {f[k] : k \in 1..7}
  BY <1>3, <1>4
<1>6. SpfWeights(d) \subseteq Int
  BY <1>3, <1>4
<1> HIDE DEF f
<1>7. PICK S : S = SpfWeights(d)
  OBVIOUS
<1>8. 7 \in Nat \ {0} /\ S = {f[k] : k \in 1..7} /\ S \subseteq Int
  BY <1>5, <1>6, <1>7
<1>9. MaxOf(S) \in Int /\ MinOf(S) \in Int /\ \A x \in S : MinOf(S) <= x /\ x <= MaxOf(S)
  BY <1>5, <1>8, MaxMin
<1> QED
  BY <1>7, <1>8, <1>9 DEF SpfMin, SpfMax

LEMMA ListInBounds ==
  ASSUME ListInv, phase = "ready"
  PROVE  /\ 0 \in MinWeight..MaxWeight
         /\ \A x \in Points : x \in MinWeight..MaxWeight
<1>0. PICK n : n = Len(section)
  OBVIOUS
<1>1. section \in Seq(Cidrs) /\ n \in Nat /\ Nodes = 1..n
  BY <1>0, SectionFacts DEF ListInv, ListType
<1>2. PICK s \in [Nodes -> Nodes] : Shape(s, n)
  BY <1>0 DEF ListInv
<1>3. Linked(next, first) = s /\ DOMAIN s = 1..n
  BY <1>1, <1>2, ShapeFacts
<1> DEFINE u(k) == Weight(s[k]).points
           f == [k \in 1..(n + 1) |-> IF k = n + 1 THEN 0 ELSE u(k)]
           S == {0} \cup Points
<1>4. Points = {u(k) : k \in 1..n}
  BY <1>3 DEF Points, Weights
<1>5. \A k \in 1..n : u(k) \in Int
  BY <1>1, SectionFacts
<1> HIDE DEF u
<1>6. f \in [1..(n + 1) -> Int] /\ n + 1 \in Nat \ {0}
  BY <1>1, <1>5
<1>7. S = {f[k] : k \in 1..(n + 1)}
  <2>1. f[n + 1] = 0 /\ n + 1 \in 1..(n + 1) /\ \A k \in 1..n : f[k] = u(k) /\ k \in 1..(n + 1)
    BY <1>1
  <2>2. \A k \in 1..(n + 1) : k = n + 1 \/ k \in 1..n
    BY <1>1
  <2> HIDE DEF f
  <2> QED
    BY <1>4, <2>1, <2>2
<1>8. S \subseteq Int
  BY <1>4, <1>5
<1> HIDE DEF f, S
<1>9. MaxOf(S) \in Int /\ MinOf(S) \in Int /\ \A x \in S : MinOf(S) <= x /\ x <= MaxOf(S)
  BY <1>6, <1>7, MaxMin
<1>10. MinWeight = MinOf(S) /\ MaxWeight = MaxOf(S)
  BY DEF MinWeight, MaxWeight, S
<1> QED
  BY <1>8, <1>9, <1>10 DEF S

LEMMA RblInBounds ==
  ASSUME ListInv, phase = "ready", NEW type, NEW r, NEW a \in RblAnswers(type, r)
  PROVE  a = NoAnswer \/ \E w \in MinWeight..MaxWeight : a = Gain(w)
<1>1. a = Gain(0) \/ a = NoAnswer \/ \E A \in SUBSET (0..(2^Width - 1)) : \E w \in Heaviest(A) : a = Gain(w)
  BY DEF RblAnswers
<1>2. \A A : Heaviest(A) \subseteq Points
  BY DEF Heaviest, Hits, Points
<1> QED
  BY <1>1, <1>2, ListInBounds
-----------------------------------------------------------------------------
AnswerInv ==
  /\ ListInv
  /\ asked = <<>> => answer = NoAnswer
  /\ AnswerInBounds

LEMMA NotAsked ==
  ASSUME answer = NoAnswer
  PROVE  AnswerInBounds
BY DEF AnswerInBounds, NoAnswer

LEMMA LimitsStay ==
  ASSUME UNCHANGED listVars
  PROVE  MinWeight' = MinWeight /\ MaxWeight' = MaxWeight
<1>1. UNCHANGED <<section, next, first>>
  BY DEF listVars
<1>2. Points' = Points
  BY <1>1 DEF Points, Weights, Linked, Weight
<1> QED
  BY <1>2 DEF MinWeight, MaxWeight

LEMMA AnswerStays ==
  ASSUME AnswerInBounds, UNCHANGED <<asked, answer, listVars>>
  PROVE  AnswerInBounds'
<1>1. Bounds' = Bounds
  BY LimitsStay DEF Bounds
<1> QED
  BY <1>1 DEF AnswerInBounds

LEMMA StrAnswers == AnswerInv /\ CheckStr => AnswerInv'
<1> SUFFICES ASSUME AnswerInv, CheckStr PROVE AnswerInv'
  OBVIOUS
<1>1. PICK d \in StrDicts, r \in Requests : Ask("str", d, r) /\ answer' = StrAnswer(d, r)
  BY DEF CheckStr
<1>2. asked' = <<[type |-> "str", dict |-> d, request |-> r]>> /\ asked' # <<>>
  BY <1>1 DEF Ask
<1>3. asked'[1].type = "str" /\ asked'[1].dict = d /\ asked'[1].request = r
  BY <1>2
<1>4. Bounds' = <<Down(d.weight), Up(d.weight)>>
  BY <1>3 DEF Bounds
<1>5. AnswerInBounds'
  <2>1. CASE answer' = Panic /\ Missing(d.pattern, r)
    BY <1>3, <2>1 DEF AnswerInBounds, Panic
  <2>2. ASSUME NEW w \in Down(d.weight)..Up(d.weight), answer' = Gain(w) PROVE AnswerInBounds'
    BY <1>4, <2>2 DEF AnswerInBounds, Gain
  <2> QED
    BY <1>1, <2>1, <2>2, StrInBounds
<1>6. ListInv'
  BY ListStutters DEF CheckStr, AnswerInv
<1> QED
  BY <1>2, <1>5, <1>6 DEF AnswerInv

LEMMA SpfAnswer == AnswerInv /\ CheckSpf => AnswerInv'
<1> SUFFICES ASSUME AnswerInv, CheckSpf PROVE AnswerInv'
  OBVIOUS
<1>1. PICK d \in SpfDicts, r \in Requests : Ask("spf", d, r) /\ answer' \in SpfAnswers(d, r)
  BY DEF CheckSpf
<1>2. asked' = <<[type |-> "spf", dict |-> d, request |-> r]>> /\ asked' # <<>>
  BY <1>1 DEF Ask
<1>3. asked'[1].type = "spf" /\ asked'[1].dict = d
  BY <1>2
<1>4. Bounds' = <<SpfMin(d), SpfMax(d)>>
  BY <1>3 DEF Bounds
<1>5. AnswerInBounds'
  <2>1. CASE answer' = NoAnswer
    BY <2>1 DEF AnswerInBounds, NoAnswer
  <2>2. ASSUME NEW w \in SpfWeights(d), answer' = Gain(w) PROVE AnswerInBounds'
    <3>1. w \in SpfMin(d)..SpfMax(d)
      BY SpfInBounds
    <3> QED
      BY <1>4, <2>2, <3>1 DEF AnswerInBounds, Gain
  <2> QED
    BY <1>1, <2>1, <2>2 DEF SpfAnswers
<1>6. ListInv'
  BY ListStutters DEF CheckSpf, AnswerInv
<1> QED
  BY <1>2, <1>5, <1>6 DEF AnswerInv

LEMMA RblAnswer == AnswerInv /\ CheckRbl => AnswerInv'
<1> SUFFICES ASSUME AnswerInv, CheckRbl PROVE AnswerInv'
  OBVIOUS
<1>1. PICK type \in DOMAIN QueryMember, r \in Requests :
        Ask(type, <<>>, r) /\ answer' \in RblAnswers(type, r)
  BY DEF CheckRbl
<1>2. asked' = <<[type |-> type, dict |-> <<>>, request |-> r]>> /\ asked' # <<>>
  BY <1>1 DEF Ask
<1>3. asked'[1].type = type /\ type # "str" /\ type # "spf"
  BY <1>2 DEF QueryMember
<1>4. Bounds' = <<MinWeight, MaxWeight>>
  BY <1>3, LimitsStay DEF Bounds, CheckRbl
<1>5. AnswerInBounds'
  <2>1. CASE answer' = NoAnswer
    BY <2>1 DEF AnswerInBounds, NoAnswer
  <2>2. ASSUME NEW w \in MinWeight..MaxWeight, answer' = Gain(w) PROVE AnswerInBounds'
    BY <1>4, <2>2 DEF AnswerInBounds, Gain
  <2>3. ListInv /\ phase = "ready"
    BY DEF AnswerInv, CheckRbl
  <2> QED
    BY <1>1, <2>1, <2>2, <2>3, RblInBounds
<1>6. ListInv'
  BY ListStutters DEF CheckRbl, AnswerInv
<1> QED
  BY <1>2, <1>5, <1>6 DEF AnswerInv

LEMMA AnswerStarts == IntakeInit => AnswerInv
<1> SUFFICES ASSUME IntakeInit PROVE AnswerInv
  OBVIOUS
<1>1. ListInv
  <2>1. ASSUME NEW cidrs \in Sections, ListStart(cidrs) PROVE ListInv
    <3>1. cidrs \in Seq(Cidrs)
      BY BlockListAssumption DEF Cidrs
    <3> QED
      BY <2>1, <3>1, ListStarts
  <2>2. ListStart(<<>>) => ListInv
    <3>1. <<>> \in Seq(Cidrs)
      OBVIOUS
    <3> QED
      BY <3>1, ListStarts
  <2> QED
    BY <2>1, <2>2 DEF IntakeInit, ListInit
<1> QED
  BY <1>1, NotAsked DEF IntakeInit, AnswerInv

LEMMA AnswerSteps == AnswerInv /\ [IntakeNext]_intakeVars => AnswerInv'
<1> SUFFICES ASSUME AnswerInv, [IntakeNext]_intakeVars PROVE AnswerInv'
  OBVIOUS
<1>1. ASSUME UNCHANGED <<asked, answer, listVars>> PROVE AnswerInv'
  <2>1. ListInv'
    BY <1>1, ListStutters DEF AnswerInv
  <2>2. AnswerInBounds'
    BY <1>1, AnswerStays DEF AnswerInv
  <2> QED
    BY <1>1, <2>1, <2>2 DEF AnswerInv
<1>2. ASSUME asked = <<>>, ListNext, UNCHANGED <<asked, answer>> PROVE AnswerInv'
  <2>1. ListInv'
    BY <1>2, ListSteps DEF AnswerInv
  <2>2. answer' = NoAnswer
    BY <1>2 DEF AnswerInv
  <2>3. AnswerInBounds'
    BY <2>2 DEF AnswerInBounds, NoAnswer
  <2> QED
    BY <2>1, <2>2, <2>3 DEF AnswerInv
<1>3. CASE CheckStr \/ CheckSpf \/ CheckRbl
  BY <1>3, StrAnswers, SpfAnswer, RblAnswer
<1>4. CASE UNCHANGED intakeVars
  BY <1>1, <1>4 DEF intakeVars
<1> QED
  BY <1>1, <1>2, <1>3, <1>4 DEF IntakeNext

(* A dict's answer lies within its min_diff and max_diff, whatever it is   *)
(* asked, and a string dict panics only at a member the request lacks.     *)
THEOREM AnswerSafety == IntakeSpec => []AnswerInBounds
<1>1. AnswerInv => AnswerInBounds
  BY DEF AnswerInv
<1> QED
  BY <1>1, AnswerStarts, AnswerSteps, PTL DEF IntakeSpec

(* A request is read here as the module of its own has it: every step is   *)
(* one of its steps, or leaves its state alone.                            *)
THEOREM IntakeReads == IntakeSpec => ParseSpec
<1>1. IntakeInit => ParseInit
  BY DEF IntakeInit
<1>2. [IntakeNext]_intakeVars => [ParseNext]_parseVars
  BY DEF IntakeNext, intakeVars, CheckStr, CheckSpf, CheckRbl
<1> QED
  BY <1>1, <1>2, PTL DEF IntakeSpec, ParseSpec

-----------------------------------------------------------------------------
(* A context is made here as the module of its own has it, and where it is *)
(* not what a behaviour is about, its configuration is empty.              *)
BuildIdles == BuildStart(NoConf)

LEMMA IntakeBuilds == IntakeSpec => []BuildInv
<1>1. BuildIdles => BuildInv
  <2> SUFFICES ASSUME BuildIdles PROVE BuildInv
    OBVIOUS
  <2> DEFINE none == NoConf
  <2>1. none.dicts = <<>> /\ none.stages = <<>>
    BY DEF NoConf
  <2>2. \A T : <<>> \in Seq(T)
    OBVIOUS
  <2>3. BuildStart(none)
    BY DEF BuildIdles
  <2> HIDE DEF none
  <2> QED
    BY <2>1, <2>2, <2>3, BuildStarts
<1>2. IntakeInit => BuildInv
  BY <1>1, BuildInits DEF IntakeInit, BuildIdles
<1>3. [IntakeNext]_intakeVars => [BuildNext]_buildVars
  BY DEF IntakeNext, intakeVars, CheckStr, CheckSpf, CheckRbl
<1>4. BuildInv /\ [IntakeNext]_intakeVars => BuildInv'
  BY <1>3, BuildSteps
<1> QED
  BY <1>2, <1>4, PTL DEF IntakeSpec

-----------------------------------------------------------------------------
(***************************************************************************)
(* The lexer.  What holds of it between two characters: where it stands,   *)
(* line and column are those of the text; and unless one of the known      *)
(* errors misled it, it is on its way to the token that was asked for, or  *)
(* in it, with nothing behind it that would end the token.                 *)
(***************************************************************************)
OnLine(p, l, c) == p \in 0..Size /\ l = LineAt(p) /\ c = ColAt(p)
IsPlace(w) == w = [pos |-> w.pos, line |-> w.line, col |-> w.col] /\ OnLine(w.pos, w.line, w.col)
Standing ==
  /\ IsPlace(place)
  /\ term.tok # "NONE" => OnLine(term.from, term.line, term.col)
  /\ term.tok \in Quotes => ~Is("skip_str")
  /\ began.pos \in 0..Size /\ open \subseteq Quotes
  /\ began.term.tok \in Quotes => ~Is("skip_str")

\* What begins at p is what was to be read, and nothing ended it before n.
Begins(p) == p \in 0..Size /\ TokenAt(p) = From
NoStop(p, n) == \A q \in CommentStops(p) : q >= n
NoQuote(p, n) == p \in 0..n /\ \A q \in QuotesFrom(p, Quotes) : q >= n
Unquoted(p, n, esc) == NoQuote(p, n) /\ (esc <=> Escaped(p, n))

InWord(p, n) == p = From /\ p < n /\ IsIdentFirst(Char(p)) /\ \A k \in p..(n - 1) : IsIdent(Char(k))
InStrOf(p, n, esc) ==
  /\ p = From /\ p < n /\ Char(p) \in Quotes /\ Is("scan_str") /\ CommentAt(p) = "NONE"
  /\ Unquoted(p + 1, n, esc)
InCommentOf(p, n, tok, i) == Begins(p) /\ CommentAt(p) = tok /\ p + i <= n /\ NoStop(p, n + i)
OnTrack(t, n) ==
  \/ t.tok = "NONE" /\ Begins(n)
  \/ t.tok = "IDENT" /\ InWord(t.from, n)
  \/ t.tok = "STR" /\ InStrOf(t.from, n, t.esc)
  \/ t.tok = "COMMENT_SINGLE" /\ InCommentOf(t.from, n, "COMMENT_SINGLE", 1)
  \/ t.tok = "COMMENT_MULTI" /\ InCommentOf(t.from, n, "COMMENT_MULTI", 2)
IsToken(t) ==
  /\ t = [tok |-> t.tok, from |-> t.from, line |-> t.line, col |-> t.col, esc |-> t.esc]
  /\ t.tok \in {"NONE", "IDENT", "STR"} \cup Comments /\ t.esc \in BOOLEAN
  /\ OnLine(t.from, t.line, t.col)
GoesOnStr(t, n, o) == t.tok = "STR" /\ o = began.open /\ t.from = From /\ Unquoted(From, n, t.esc)
IsNew(t, n, o) ==
  /\ Misled \/ OnTrack(t, n)
  /\ t.tok = "STR" => o # {} /\ Is("skip_str")
  /\ t.tok # "STR" => o = began.open
Scanned(t, n, o) ==
  IsToken(t) /\ began.pos <= n /\ (InString => GoesOnStr(t, n, o)) /\ (~InString => IsNew(t, n, o))
LexInv == input \in Inputs /\ Standing /\ (lex = "scan" => Scanned(cur, place.pos, open)) /\ TokenRight

(* What is said of a text stays as long as the text does.                  *)
LEMMA TextSame ==
  ASSUME input' = input
  PROVE  /\ Size' = Size /\ (\A p : Char(p)' = Char(p)) /\ (\A p : Ahead(p)' = Ahead(p))
         /\ \A option : Is(option)' <=> Is(option)
         /\ \A p : LineAt(p)' = LineAt(p) /\ ColAt(p)' = ColAt(p)
  BY DEF Size, Text, Char, Ahead, Is, LineAt, ColAt, LineStart

LEMMA CommentSame ==
  ASSUME input' = input, NEW p
  PROVE  /\ CommentAt(p)' = CommentAt(p) /\ CommentStops(p)' = CommentStops(p)
         /\ CommentEnd(p)' = CommentEnd(p) /\ TokenAt(p)' = TokenAt(p)
<1>1. CommentAt(p)' = CommentAt(p)
  BY DEF CommentAt, Char, Size, Text, Is
<1>2. CommentStops(p)' = CommentStops(p)
  BY DEF CommentStops, CommentAt, Char, Size, Text, Is
<1>3. CommentEnd(p)' = CommentEnd(p)
  BY <1>2, TextSame DEF CommentEnd, Nearest
<1>4. TokenAt(p)' = TokenAt(p)
  BY SMT DEF TokenAt, SkippedAt, CommentEnd, CommentStops, CommentAt, Char, Size, Text, Is
<1> QED
  BY <1>1, <1>2, <1>3, <1>4

LEMMA StrSame ==
  ASSUME input' = input, NEW p
  PROVE  /\ \A q : Escaped(p, q)' <=> Escaped(p, q)
         /\ \A Q : QuotesFrom(p, Q)' = QuotesFrom(p, Q)
         /\ StrEnd(p)' = StrEnd(p)
<1>1. \A a, q : Escaped(a, q)' <=> Escaped(a, q)
  BY DEF Escaped, Char, Size, Text
<1>2. \A a, Q : QuotesFrom(a, Q)' = QuotesFrom(a, Q)
  BY <1>1, TextSame DEF QuotesFrom
<1>3. StrEnd(p)' = StrEnd(p)
  <2> DEFINE T == {q + 1 : q \in QuotesFrom(p + 1, {Char(p)})}
  <2>1. QuotesFrom(p + 1, {Char(p)})' = QuotesFrom(p + 1, {Char(p)})
    BY <1>2, TextSame
  <2>2. T' = T
    BY <2>1
  <2>3. StrEnd(p) = Nearest(T, Size) /\ StrEnd(p)' = Nearest(T', Size')
    BY Zenon DEF StrEnd
  <2> QED
    BY <2>2, <2>3, TextSame
<1> QED
  BY <1>1, <1>2, <1>3

LEMMA WordSame ==
  ASSUME input' = input, NEW p
  PROVE  /\ WordEnd(p)' = WordEnd(p) /\ Word(p)' = Word(p) /\ NumberFrom(p)' = NumberFrom(p)
         /\ \A w : WordKind(w)' = WordKind(w)
<1>1. WordEnd(p)' = WordEnd(p) /\ NumberFrom(p)' = NumberFrom(p)
  BY DEF WordEnd, NumberFrom, Nearest, Char, Size, Text
<1>2. Word(p)' = Word(p)
  BY <1>1 DEF Word, Text
<1>3. \A w : WordKind(w)' = WordKind(w)
  BY TextSame DEF WordKind, Name
<1> QED
  BY <1>1, <1>2, <1>3

LEMMA ProperSame ==
  ASSUME input' = input, NEW p
  PROVE  Proper(p)' = Proper(p)
  BY TextSame, CommentSame, StrSame, WordSame DEF Proper

(* What is to be read stays until it is asked for again.                   *)
LEMMA AskedSame ==
  ASSUME input' = input, began' = began
  PROVE  /\ (InString' <=> InString) /\ From' = From /\ Expected' = Expected /\ (Misled' <=> Misled)
<1>1. (InString' <=> InString) /\ From' = From
  BY CommentSame DEF InString, From
<1>2. Expected' = Expected
  <2>1. QuotesFrom(From, began.open)' = QuotesFrom(From, began.open)
    BY <1>1, StrSame
  <2>2. Proper(From)' = Proper(From)
    BY <1>1, ProperSame
  <2> QED
    BY <1>1, <2>1, <2>2, TextSame DEF Expected
<1>3. QuoteStays' <=> QuoteStays
  BY TextSame DEF QuoteStays
<1>4. OtherQuote' <=> OtherQuote
  BY <1>1, <1>2, StrSame DEF OtherQuote
<1>5. EvenStars' <=> EvenStars
  BY <1>2, TextSame DEF EvenStars
<1>6. BareSign' <=> BareSign
  BY <1>1, TextSame DEF BareSign
<1>7. TakenForWord' <=> TakenForWord
  BY <1>1, TextSame, WordSame DEF TakenForWord
<1>8. LooksBehind' <=> LooksBehind
  BY <1>1, <1>2, TextSame DEF LooksBehind
<1> QED
  BY <1>1, <1>2, <1>3, <1>4, <1>5, <1>6, <1>7, <1>8 DEF Misled

(***************************************************************************)
(* The text                                                                *)
(***************************************************************************)
LEMMA TextIs ==
  ASSUME input \in Inputs
  PROVE  /\ Size \in Nat /\ DOMAIN Text = 1..Size
         /\ \A p \in 0..(Size - 1) : Char(p) = Text[p + 1] /\ Char(p) # NUL /\ Ahead(p) = Char(p)
         /\ \A p \in Int : p >= Size => Char(p) = NUL
         /\ \A p \in 0..Size : Char(p) # NUL => p \in 0..(Size - 1)
<1>1. Text \in Seq(Chars)
  BY InputsAssumption DEF Text
<1>2. NUL \notin Chars
  BY DEF NUL, Chars, Letters, Digits, Quotes
<1>3. Size \in Nat /\ DOMAIN Text = 1..Size /\ \A k \in 1..Size : Text[k] \in Chars
  BY <1>1 DEF Size
<1>4. ASSUME NEW p \in 0..(Size - 1) PROVE Char(p) = Text[p + 1] /\ Char(p) # NUL /\ Ahead(p) = Char(p)
  BY <1>2, <1>3 DEF Char, Ahead
<1>5. \A p \in Int : p >= Size => Char(p) = NUL
  BY <1>3 DEF Char
<1> QED
  BY <1>3, <1>4, <1>5

(* The last line begins behind the last line end.                          *)
LEMMA LineStartIs ==
  ASSUME input \in Inputs, NEW p \in 0..Size, NEW s \in 0..p,
         s = 0 \/ Text[s] = "\n", \A k \in (s + 1)..p : Text[k] # "\n"
  PROVE  LineStart(p) = s
<1> DEFINE Opens(r) == (r = 0 \/ Text[r] = "\n") /\ \A k \in (r + 1)..p : Text[k] # "\n"
<1>1. ASSUME NEW r \in 0..p, Opens(r) PROVE r = s
  <2>1. CASE r < s
    <3>1. s \in (r + 1)..p /\ s # 0
      BY <2>1
    <3> QED
      BY <1>1, <3>1
  <2>2. CASE s < r
    <3>1. r \in (s + 1)..p /\ r # 0
      BY <2>2
    <3> QED
      BY <1>1, <3>1
  <2> QED
    BY <2>1, <2>2
<1>2. Opens(s)
  OBVIOUS
<1>3. LineStart(p) = CHOOSE r \in 0..p : Opens(r)
  BY DEF LineStart
<1> HIDE DEF Opens
<1> QED
  BY <1>1, <1>2, <1>3

LEMMA LineStartHas ==
  ASSUME input \in Inputs, NEW p \in 0..Size
  PROVE  /\ LineStart(p) \in 0..p /\ (LineStart(p) = 0 \/ Text[LineStart(p)] = "\n")
         /\ \A k \in (LineStart(p) + 1)..p : Text[k] # "\n"
<1> DEFINE S == {n \in 0..p : p - n = 0 \/ Text[p - n] = "\n"}
<1>1. p \in S /\ S \subseteq Nat /\ p \in Nat
  BY TextIs
<1>2. PICK n \in S : \A m \in S : n <= m
  BY <1>1, LeastNat
<1>3. n \in 0..p /\ p - n \in 0..p /\ (p - n = 0 \/ Text[p - n] = "\n")
  BY <1>1, <1>2
<1>4. ASSUME NEW k \in (p - n + 1)..p PROVE Text[k] # "\n"
  <2>1. k \in Nat /\ p - k \in 0..p /\ ~(n <= p - k) /\ p - (p - k) = k
    BY <1>1, <1>3
  <2>2. p - k \notin S
    BY <1>2, <2>1
  <2> QED
    BY <2>1, <2>2
<1> HIDE DEF S
<1>5. LineStart(p) = p - n
  BY <1>3, <1>4, LineStartIs
<1> QED
  BY <1>3, <1>4, <1>5

(* One character further.                                                  *)
LEMMA LineNext ==
  ASSUME input \in Inputs, NEW p \in 0..(Size - 1)
  PROVE  /\ Char(p) = "\n" => LineAt(p + 1) = LineAt(p) + 1 /\ ColAt(p + 1) = 1
         /\ Char(p) # "\n" => LineAt(p + 1) = LineAt(p) /\ ColAt(p + 1) = ColAt(p) + 1
<1> DEFINE S(q) == {k \in 1..q : Text[k] = "\n"}
<1>1. Size \in Nat /\ Char(p) = Text[p + 1] /\ p \in 0..Size /\ p + 1 \in 0..Size /\ p \in Nat
  BY TextIs
<1>2. IsFiniteSet(S(p)) /\ Cardinality(S(p)) \in Nat /\ p + 1 \notin S(p)
  <2>1. IsFiniteSet(1..p) /\ S(p) \subseteq 1..p
    BY <1>1, FS_Interval
  <2>2. IsFiniteSet(S(p))
    BY <2>1, FS_Subset
  <2> QED
    BY <1>1, <2>1, <2>2, FS_CardinalityType
<1>3. LineAt(p) = 1 + Cardinality(S(p)) /\ LineAt(p + 1) = 1 + Cardinality(S(p + 1))
  BY DEF LineAt
<1>4. LineStart(p) \in 0..p /\ (LineStart(p) = 0 \/ Text[LineStart(p)] = "\n")
      /\ \A k \in (LineStart(p) + 1)..p : Text[k] # "\n"
  BY <1>1, LineStartHas
<1>5. CASE Char(p) = "\n"
  <2>1. S(p + 1) = S(p) \cup {p + 1}
    <3>1. \A k : k \in 1..(p + 1) <=> k \in 1..p \/ k = p + 1
      BY <1>1
    <3> QED
      BY <1>1, <1>5, <3>1
  <2>2. Cardinality(S(p + 1)) = Cardinality(S(p)) + 1
    BY <1>2, <2>1, FS_AddElement
  <2>3. p + 1 \in 0..(p + 1) /\ \A k \in (p + 1 + 1)..(p + 1) : Text[k] # "\n"
    BY <1>1
  <2>4. LineStart(p + 1) = p + 1
    BY <1>1, <1>5, <2>3, LineStartIs
  <2> HIDE DEF S
  <2> QED
    BY <1>1, <1>2, <1>3, <1>5, <2>2, <2>4 DEF ColAt
<1>6. CASE Char(p) # "\n"
  <2>1. S(p + 1) = S(p)
    BY <1>1, <1>6
  <2>2. LineStart(p) \in 0..(p + 1) /\ \A k \in (LineStart(p) + 1)..(p + 1) : Text[k] # "\n"
    BY <1>1, <1>4, <1>6
  <2>3. LineStart(p + 1) = LineStart(p)
    BY <1>1, <1>4, <2>2, LineStartIs
  <2> HIDE DEF S
  <2> QED
    BY <1>1, <1>2, <1>3, <1>4, <1>6, <2>1, <2>3 DEF ColAt
<1> QED
  BY <1>5, <1>6

LEMMA LineFirst ==
  ASSUME input \in Inputs
  PROVE  OnLine(0, 1, 1)
<1>1. Size \in Nat /\ 0 \in 0..Size
  BY TextIs
<1>2. LineStart(0) = 0
  BY <1>1, LineStartHas
<1>3. {k \in 1..0 : Text[k] = "\n"} = {}
  OBVIOUS
<1>4. LineAt(0) = 1
  BY <1>3, FS_EmptySet DEF LineAt
<1> QED
  BY <1>1, <1>2, <1>4 DEF OnLine, ColAt

(* lexer_get_next_char keeps line and column.                              *)
LEMMA MovedIs ==
  ASSUME input \in Inputs, NEW w, IsPlace(w)
  PROVE  /\ IsPlace(Moved(w))
         /\ Moved(w).pos = IF Char(w.pos) = NUL THEN w.pos ELSE w.pos + 1
         /\ Char(w.pos) \notin {NUL, "\n"} => Back(Moved(w)) = w
<1>1. Size \in Nat /\ w.pos \in 0..Size /\ w.line = LineAt(w.pos) /\ w.col = ColAt(w.pos)
      /\ w.pos \in Nat
      /\ w = [pos |-> w.pos, line |-> w.line, col |-> w.col]
  BY TextIs DEF IsPlace, OnLine
<1>2. CASE Char(w.pos) = NUL
  BY <1>2 DEF Moved, NUL
<1>3. w.col \in Int
  BY <1>1, LineStartHas DEF ColAt
<1>4. CASE Char(w.pos) = "\n" /\ Char(w.pos) # NUL
  <2>1. w.pos \in 0..(Size - 1)
    BY <1>1, <1>4, TextIs
  <2>2. Moved(w) = [pos |-> w.pos + 1, line |-> w.line + 1, col |-> 1]
    BY <1>4 DEF Moved
  <2> QED
    BY <1>1, <1>4, <2>1, <2>2, LineNext DEF IsPlace, OnLine
<1>5. CASE Char(w.pos) \notin {NUL, "\n"}
  <2>1. w.pos \in 0..(Size - 1)
    BY <1>1, <1>5, TextIs
  <2>2. Moved(w) = [w EXCEPT !.pos = @ + 1, !.col = @ + 1]
    BY <1>5 DEF Moved
  <2>3. Moved(w) = [pos |-> w.pos + 1, line |-> w.line, col |-> w.col + 1]
    BY <1>1, <2>2
  <2>4. IsPlace(Moved(w)) /\ Moved(w).pos = w.pos + 1
    BY <1>1, <1>5, <2>1, <2>3, LineNext DEF IsPlace, OnLine
  <2>5. Back(Moved(w)) = w
    <3> DEFINE v == Moved(w)
    <3>1. v.pos = w.pos + 1 /\ v.col = w.col + 1 /\ v.line = w.line /\ v.pos # 0
          /\ v.pos - 1 = w.pos /\ v.col - 1 = w.col
      BY <1>1, <1>3, <2>3
    <3>2. v = [pos |-> v.pos, line |-> v.line, col |-> v.col]
      BY <2>3
    <3> HIDE DEF v
    <3>3. Back(v) = [v EXCEPT !.pos = v.pos - 1, !.col = v.col - 1]
      BY <1>5, <3>1 DEF Back
    <3>4. Back(v) = [pos |-> v.pos - 1, line |-> v.line, col |-> v.col - 1]
      BY <3>2, <3>3
    <3> QED
      BY <1>1, <3>1, <3>4 DEF v
  <2> QED
    BY <1>5, <2>4, <2>5
<1> QED
  BY <1>2, <1>4, <1>5

(***************************************************************************)
(* Where tokens begin and end                                              *)
(***************************************************************************)
LEMMA NearestIs ==
  ASSUME NEW S, S \subseteq Nat, NEW other
  PROVE  /\ S = {} => Nearest(S, other) = other
         /\ S # {} => Nearest(S, other) \in S /\ \A q \in S : Nearest(S, other) <= q
         /\ \A s \in S : (\A q \in S : s <= q) => Nearest(S, other) = s
<1> DEFINE n == Nearest(S, other)
<1>1. CASE S = {}
  BY <1>1 DEF Nearest
<1>2. CASE S # {}
  <2>1. \E s \in S : \A q \in S : s <= q
    BY <1>2, LeastNat
  <2>2. n = CHOOSE p \in S : \A q \in S : p <= q
    BY <1>2 DEF Nearest
  <2> HIDE DEF n
  <2>3. n \in S /\ \A q \in S : n <= q
    BY <2>1, <2>2
  <2>4. ASSUME NEW s \in S, \A q \in S : s <= q PROVE n = s
    <3>1. s <= n /\ n <= s /\ s \in Nat /\ n \in Nat
      BY <2>3, <2>4
    <3> QED
      BY <3>1
  <2> QED
    BY <1>2, <2>3, <2>4 DEF n
<1> QED
  BY <1>1, <1>2

(* The comment at p ends behind it, if it ends.                            *)
LEMMA StopsIn ==
  ASSUME input \in Inputs, NEW p \in 0..Size
  PROVE  /\ CommentStops(p) \subseteq (p + 1)..Size
         /\ CommentAt(p) # "COMMENT_SINGLE" => CommentStops(p) \subseteq (p + 4)..Size
         /\ CommentEnd(p) \in p..Size
         /\ CommentStops(p) # {} => CommentEnd(p) \in CommentStops(p)
         /\ CommentStops(p) = {} => CommentEnd(p) = Size
         /\ \A q \in CommentStops(p) : CommentEnd(p) <= q
         /\ \A q \in CommentStops(p) : (\A r \in CommentStops(p) : q <= r) => CommentEnd(p) = q
<1>1. Size \in Nat /\ p \in Nat /\ p <= Size
  BY TextIs
<1>2. CommentStops(p) \subseteq (p + 1)..Size
  BY <1>1 DEF CommentStops
<1>3. CommentAt(p) # "COMMENT_SINGLE" => CommentStops(p) \subseteq (p + 4)..Size
  BY <1>1 DEF CommentStops
<1> DEFINE S == CommentStops(p)
<1>4. S \subseteq Nat
  BY <1>1, <1>2
<1>5. CommentEnd(p) = Nearest(S, Size)
  BY DEF CommentEnd
<1> HIDE DEF S
<1>6. /\ S # {} => CommentEnd(p) \in S
      /\ S = {} => CommentEnd(p) = Size
      /\ \A q \in S : CommentEnd(p) <= q
      /\ \A q \in S : (\A r \in S : q <= r) => CommentEnd(p) = q
  <2>1. /\ S = {} => Nearest(S, Size) = Size
        /\ S # {} => Nearest(S, Size) \in S /\ \A q \in S : Nearest(S, Size) <= q
        /\ \A s \in S : (\A q \in S : s <= q) => Nearest(S, Size) = s
    BY <1>4, NearestIs
  <2> QED
    BY <1>5, <2>1
<1>7. CommentEnd(p) \in p..Size
  BY <1>1, <1>2, <1>6 DEF S
<1> QED
  BY <1>2, <1>3, <1>6, <1>7 DEF S

\* Blanks and comments are passed over.
Jumps(q) == IsSkipChar(Char(q)) \/ SkippedAt(q)
Jump(q) == IF IsSkipChar(Char(q)) THEN q + 1 ELSE CommentEnd(q)
LEMMA JumpIs ==
  ASSUME input \in Inputs, NEW q \in 0..Size, Jumps(q)
  PROVE  Jump(q) \in (q + 1)..Size /\ q < Size
<1>1. Size \in Nat /\ q \in Nat /\ (Char(q) # NUL => q < Size)
  BY TextIs
<1>2. CASE IsSkipChar(Char(q))
  <2>1. Char(q) # NUL
    BY <1>2 DEF IsSkipChar, NUL
  <2> QED
    BY <1>1, <1>2, <2>1 DEF Jump
<1>3. CASE ~IsSkipChar(Char(q)) /\ SkippedAt(q)
  <2>1. CommentEnd(q) \in (q + 1)..Size
    BY <1>3, StopsIn DEF SkippedAt
  <2> QED
    BY <1>1, <1>3, <2>1 DEF Jump
<1> QED
  BY <1>2, <1>3 DEF Jumps

IsTokens(f, p) == f = [q \in p..Size |-> IF Jumps(q) THEN f[Jump(q)] ELSE q]
LEMMA TokensUnique ==
  ASSUME input \in Inputs, NEW p \in 0..Size, NEW r \in p..Size,
         NEW f, IsTokens(f, p), NEW g, IsTokens(g, r)
  PROVE  \A q \in r..Size : f[q] = g[q] /\ f[q] \in q..Size
<1> DEFINE S == {n \in 0..(Size - r) : ~(f[Size - n] = g[Size - n] /\ f[Size - n] \in (Size - n)..Size)}
<1>1. Size \in Nat /\ p \in Nat /\ r \in Nat /\ r <= Size /\ p <= r
  BY TextIs
<1>2. S = {}
  <2>1. SUFFICES ASSUME S # {} PROVE FALSE
    OBVIOUS
  <2>2. PICK n \in S : \A m \in S : n <= m
    <3>1. S \subseteq Nat
      BY <1>1
    <3> HIDE DEF S
    <3> QED
      BY <2>1, <3>1, LeastNat
  <2> DEFINE q == Size - n
  <2>3. n \in 0..(Size - r) /\ q \in r..Size /\ q \in p..Size /\ q \in 0..Size /\ n = Size - q
    BY <1>1, <2>2
  <2>4. ~(f[q] = g[q] /\ f[q] \in q..Size)
    BY <2>2
  <2>5. \A k \in (q + 1)..Size : f[k] = g[k] /\ f[k] \in k..Size
    <3>1. SUFFICES ASSUME NEW k \in (q + 1)..Size PROVE f[k] = g[k] /\ f[k] \in k..Size
      OBVIOUS
    <3>2. Size - k \in 0..(Size - r) /\ ~(n <= Size - k) /\ Size - (Size - k) = k
      BY <1>1, <2>3
    <3>3. Size - k \notin S
      BY <2>2, <3>2
    <3> QED
      BY <3>2, <3>3
  <2> HIDE DEF S, q
  <2>6. /\ f[q] = IF Jumps(q) THEN f[Jump(q)] ELSE q
        /\ g[q] = IF Jumps(q) THEN g[Jump(q)] ELSE q
    BY <2>3 DEF IsTokens
  <2>7. Jumps(q) => Jump(q) \in (q + 1)..Size
    BY <2>3, JumpIs
  <2>8. \A k \in (q + 1)..Size : k..Size \subseteq q..Size
    BY <1>1, <2>3
  <2> QED
    BY <1>1, <2>3, <2>4, <2>5, <2>6, <2>7, <2>8
<1>3. SUFFICES ASSUME NEW q \in r..Size PROVE f[q] = g[q] /\ f[q] \in q..Size
  OBVIOUS
<1>4. Size - q \in 0..(Size - r) /\ Size - (Size - q) = q
  BY <1>1
<1> QED
  BY <1>2, <1>4

LEMMA TokensExist ==
  ASSUME input \in Inputs, NEW p \in 0..Size
  PROVE  \E f : IsTokens(f, p)
<1> DEFINE S == {n \in 0..Size : ~\E f : IsTokens(f, Size - n)}
<1>1. Size \in Nat /\ p \in Nat /\ p <= Size
  BY TextIs
<1>2. S = {}
  <2>1. SUFFICES ASSUME S # {} PROVE FALSE
    OBVIOUS
  <2>2. PICK n \in S : \A m \in S : n <= m
    <3>1. S \subseteq Nat
      BY <1>1
    <3> HIDE DEF S
    <3> QED
      BY <2>1, <3>1, LeastNat
  <2> DEFINE q == Size - n
  <2>3. n \in 0..Size /\ q \in 0..Size /\ n = Size - q /\ ~\E f : IsTokens(f, q)
    BY <1>1, <2>2
  <2>4. q < Size => \E f : IsTokens(f, q + 1)
    <3>1. SUFFICES ASSUME q < Size PROVE \E f : IsTokens(f, q + 1)
      OBVIOUS
    <3>2. n - 1 \in 0..Size /\ ~(n <= n - 1) /\ Size - (n - 1) = q + 1
      BY <1>1, <2>3, <3>1
    <3>3. n - 1 \notin S
      BY <2>2, <3>2
    <3> QED
      BY <3>2, <3>3
  <2> HIDE DEF S, q
  <2>5. PICK f : q < Size => IsTokens(f, q + 1)
    BY <2>4
  <2> DEFINE b(g, r) == IF Jumps(r) THEN g[Jump(r)] ELSE r
             h == [r \in q..Size |-> IF r = q THEN b(f, q) ELSE f[r]]
  <2>6. \A r \in (q + 1)..Size : f[r] = b(f, r)
    BY <1>1, <2>3, <2>5 DEF IsTokens
  <2>7. \A r \in q..Size : Jumps(r) => Jump(r) \in (q + 1)..Size /\ h[Jump(r)] = f[Jump(r)]
    <3>1. SUFFICES ASSUME NEW r \in q..Size, Jumps(r)
                   PROVE  Jump(r) \in (q + 1)..Size /\ h[Jump(r)] = f[Jump(r)]
      OBVIOUS
    <3>2. Jump(r) \in (r + 1)..Size
      BY <1>1, <2>3, <3>1, JumpIs
    <3> QED
      BY <1>1, <2>3, <3>2
  <2>8. \A r \in q..Size : h[r] = b(h, r)
    <3>1. SUFFICES ASSUME NEW r \in q..Size PROVE h[r] = b(h, r)
      OBVIOUS
    <3>2. b(h, r) = b(f, r)
      BY <2>7
    <3>3. r # q => r \in (q + 1)..Size
      BY <1>1, <2>3
    <3> QED
      BY <2>6, <3>2, <3>3
  <2>9. h = [r \in q..Size |-> h[r]]
    OBVIOUS
  <2> HIDE DEF h
  <2>10. IsTokens(h, q)
    BY <2>8, <2>9 DEF IsTokens
  <2> QED
    BY <2>3, <2>10
<1>3. Size - p \in 0..Size /\ Size - (Size - p) = p
  BY <1>1
<1> QED
  BY <1>2, <1>3

(* The next token begins where there is nothing to be passed over.         *)
LEMMA TokenAtIs ==
  ASSUME input \in Inputs, NEW p \in 0..Size
  PROVE  /\ TokenAt(p) \in p..Size
         /\ Jumps(p) => TokenAt(p) = TokenAt(Jump(p))
         /\ ~Jumps(p) => TokenAt(p) = p
<1> DEFINE Of(q) == CHOOSE f : IsTokens(f, q)
<1>1. \A q \in 0..Size : TokenAt(q) = Of(q)[q]
  <2>1. SUFFICES ASSUME NEW q \in 0..Size PROVE TokenAt(q) = Of(q)[q]
    OBVIOUS
  <2>2. \A f : f = [r \in q..Size |-> CASE IsSkipChar(Char(r)) -> f[r + 1]
                                        [] SkippedAt(r) -> f[CommentEnd(r)]
                                        [] OTHER -> r]
               <=> IsTokens(f, q)
    <3>1. \A r : ~(IsSkipChar(Char(r)) /\ SkippedAt(r))
      BY DEF IsSkipChar, SkippedAt, CommentAt
    <3> QED
      BY <3>1 DEF IsTokens, Jumps, Jump
  <2> QED
    BY <2>2, Zenon DEF TokenAt
<1>2. \A q \in 0..Size : IsTokens(Of(q), q)
  BY TokensExist
<1> HIDE DEF Of
<1>3. Size \in Nat /\ p \in Nat /\ p <= Size /\ p \in p..Size
  BY TextIs
<1>4. TokenAt(p) = IF Jumps(p) THEN Of(p)[Jump(p)] ELSE p
  BY <1>1, <1>2, <1>3 DEF IsTokens
<1>5. TokenAt(p) \in p..Size
  BY <1>1, <1>2, <1>3, TokensUnique
<1>6. ASSUME Jumps(p) PROVE TokenAt(p) = TokenAt(Jump(p))
  <2>1. Jump(p) \in (p + 1)..Size
    BY <1>6, JumpIs
  <2>2. Jump(p) \in 0..Size /\ Jump(p) \in p..Size /\ Jump(p) \in Jump(p)..Size
    BY <1>3, <2>1
  <2>3. Of(p)[Jump(p)] = Of(Jump(p))[Jump(p)]
    BY <1>2, <1>3, <2>2, TokensUnique
  <2> QED
    BY <1>1, <1>4, <1>6, <2>2, <2>3
<1> QED
  BY <1>4, <1>5, <1>6

(* A word, and a number, ends at the first character that is not its own.  *)
LEMMA EndIs ==
  ASSUME input \in Inputs, NEW p \in 0..Size
  PROVE  /\ WordEnd(p) \in p..Size /\ NumberFrom(p) \in p..Size
         /\ \A n \in p..Size :
              ~IsIdent(Char(n)) /\ (\A k \in p..(n - 1) : IsIdent(Char(k))) => WordEnd(p) = n
         /\ \A n \in p..Size :
              Char(n) \notin Digits /\ (\A k \in p..(n - 1) : Char(k) \in Digits) => NumberFrom(p) = n
<1> DEFINE W == {q \in p..Size : ~IsIdent(Char(q))}
           D == {q \in p..Size : Char(q) \notin Digits}
<1>1. Size \in Nat /\ p \in Nat /\ p <= Size /\ Char(Size) = NUL
  BY TextIs
<1>2. Size \in W /\ Size \in D /\ W \subseteq Nat /\ D \subseteq Nat /\ W \subseteq p..Size
      /\ D \subseteq p..Size
  <2>1. ~IsIdent(NUL) /\ NUL \notin Digits
    BY DEF IsIdent, Letters, Digits, NUL
  <2> QED
    BY <1>1, <2>1
<1>3. \A n \in p..Size :
        /\ ~IsIdent(Char(n)) /\ (\A k \in p..(n - 1) : IsIdent(Char(k)))
              => n \in W /\ \A q \in W : n <= q
        /\ Char(n) \notin Digits /\ (\A k \in p..(n - 1) : Char(k) \in Digits)
              => n \in D /\ \A q \in D : n <= q
  BY <1>1
<1>4. WordEnd(p) = Nearest(W, Size) /\ NumberFrom(p) = Nearest(D, Size)
  BY DEF WordEnd, NumberFrom
<1> HIDE DEF W, D
<1>5. Nearest(W, Size) \in W /\ \A n \in W : (\A q \in W : n <= q) => Nearest(W, Size) = n
  BY <1>2, NearestIs
<1>6. Nearest(D, Size) \in D /\ \A n \in D : (\A q \in D : n <= q) => Nearest(D, Size) = n
  BY <1>2, NearestIs
<1> QED
  BY <1>2, <1>3, <1>4, <1>5, <1>6

(* strtol, but that it looks behind the text.                              *)
LEMMA DigitsRun ==
  ASSUME input \in Inputs, NEW p \in 0..Size
  PROVE  /\ Run(p, Digits) \in Nat /\ p + Run(p, Digits) <= Size + 1
         /\ Ahead(p + Run(p, Digits)) \notin Digits
         /\ \A k \in p..(p + Run(p, Digits) - 1) : Ahead(k) \in Digits
<1> DEFINE S == {i \in 0..(Size + 1) : Ahead(p + i) \notin Digits}
           Halt(i) == Ahead(p + i) \notin Digits /\ \A k \in 0..(i - 1) : Ahead(p + k) \in Digits
           n == Run(p, Digits)
<1>1. Size \in Nat /\ p \in Nat /\ p <= Size /\ Char(Size + 1) = NUL
  BY TextIs
<1>2. Size + 1 - p \in S /\ S \subseteq Nat
  <2>1. Ahead(Size + 1) = NUL
    BY <1>1 DEF Ahead
  <2>2. Size + 1 - p \in 0..(Size + 1) /\ p + (Size + 1 - p) = Size + 1
    BY <1>1
  <2>3. NUL \notin Digits
    BY DEF Digits, NUL
  <2> QED
    BY <1>1, <2>1, <2>2, <2>3
<1>3. PICK m \in S : \A i \in S : m <= i
  BY <1>2, LeastNat
<1>4. m \in 0..(Size + 1) /\ Halt(m)
  <2>1. m \in 0..(Size + 1) /\ Ahead(p + m) \notin Digits
    BY <1>3
  <2>2. ASSUME NEW k \in 0..(m - 1) PROVE Ahead(p + k) \in Digits
    <3>1. k \in 0..(Size + 1) /\ ~(m <= k)
      BY <1>1, <2>1
    <3> QED
      BY <1>3, <3>1
  <2> QED
    BY <2>1, <2>2
<1>5. n = CHOOSE i \in 0..(Size + 1) : Halt(i)
  BY DEF Run
<1> HIDE DEF n, Halt
<1>6. n \in 0..(Size + 1) /\ Halt(n)
  BY <1>4, <1>5
<1>7. n \in Nat /\ Ahead(p + n) \notin Digits /\ \A k \in 0..(n - 1) : Ahead(p + k) \in Digits
  BY <1>1, <1>6 DEF Halt
<1>8. p + n <= Size + 1
  <2>1. SUFFICES ASSUME p + n > Size + 1 PROVE FALSE
    BY <1>1, <1>7
  <2>2. Size + 1 - p \in 0..(n - 1) /\ p + (Size + 1 - p) = Size + 1
    BY <1>1, <1>7, <2>1
  <2>3. Ahead(Size + 1) \notin Digits
    <3>1. NUL \notin Digits
      BY DEF Digits, NUL
    <3>2. Ahead(Size + 1) = NUL
      BY <1>1 DEF Ahead
    <3> QED
      BY <3>1, <3>2
  <2> QED
    BY <1>7, <2>2, <2>3
<1>9. ASSUME NEW k \in p..(p + n - 1) PROVE Ahead(k) \in Digits
  <2>1. k - p \in 0..(n - 1) /\ p + (k - p) = k
    BY <1>1, <1>7
  <2> QED
    BY <1>7, <2>1
<1> QED
  BY <1>7, <1>8, <1>9 DEF n

LEMMA NumberIs ==
  ASSUME input \in Inputs, NEW p \in 0..(Size - 1), Char(p) \in Digits \cup {"+"}
  PROVE  LET n == Number(p)
             s == IF Char(p) = "+" THEN p + 1 ELSE p IN
         /\ n \in Nat
         /\ n = 0 => Char(p) = "+" /\ Ahead(p + 1) \notin Digits
         /\ n # 0 /\ p + n <= Size => /\ s \in p..(p + n - 1) /\ s < p + n /\ Char(s) \in Digits
                                      /\ NumberFrom(s) = p + n
                                      /\ \A k \in p..(p + n - 1) : Char(k) \in Digits \cup {"+"}
         /\ p + n > Size => input.beyond \in Digits /\ Char(Size - 1) \in Digits \cup {"+"}
<1> DEFINE sign == IF Char(p) = "+" THEN 1 ELSE 0
           s == p + sign
           r == Run(s, Digits)
           n == Number(p)
<1>1. Size \in Nat /\ p \in Nat /\ p < Size /\ Ahead(p) = Char(p) /\ s \in 0..Size
      /\ s \in Nat /\ sign \in Nat
      /\ (Char(p) = "+" => s = p + 1 /\ sign = 1) /\ (Char(p) # "+" => s = p /\ sign = 0)
  BY TextIs
<1>2. n = IF r = 0 THEN 0 ELSE sign + r
  BY <1>1 DEF Number
<1> HIDE DEF s, n, sign
<1>3. /\ r \in Nat /\ s + r <= Size + 1 /\ Ahead(s + r) \notin Digits
      /\ \A k \in s..(s + r - 1) : Ahead(k) \in Digits
  <2>1. s \in 0..Size
    BY <1>1
  <2> QED
    BY <2>1, DigitsRun
<1> HIDE DEF r
<1>4. CASE r = 0
  <2>1. n = 0 /\ Ahead(s) \notin Digits
    BY <1>1, <1>2, <1>3, <1>4
  <2>2. Char(p) = "+"
    BY <1>1, <2>1
  <2> QED
    BY <1>1, <2>1, <2>2 DEF n
<1>5. CASE r # 0
  <2>1. n = sign + r /\ n \in Nat /\ n # 0 /\ p + n = s + r /\ s \in p..(p + n - 1) /\ s < p + n
    BY <1>1, <1>2, <1>3, <1>5
  <2>2. ASSUME p + n <= Size
        PROVE  /\ Char(s) \in Digits /\ NumberFrom(s) = p + n
               /\ \A k \in p..(p + n - 1) : Char(k) \in Digits \cup {"+"}
    <3>1. \A k \in s..(p + n - 1) : Char(k) \in Digits
      <4>1. SUFFICES ASSUME NEW k \in s..(p + n - 1) PROVE Char(k) \in Digits
        OBVIOUS
      <4>2. k \in 0..(Size - 1)
        BY <1>1, <2>1, <2>2
      <4>3. Ahead(k) = Char(k)
        BY <4>2, TextIs
      <4> QED
        BY <1>3, <2>1, <4>3
    <3>2. Char(p + n) \notin Digits
      <4>1. CASE p + n = Size
        <5>1. Char(Size) = NUL
          BY <1>1, TextIs
        <5> QED
          BY <4>1, <5>1 DEF Digits, NUL
      <4>2. CASE p + n # Size
        <5>1. p + n \in 0..(Size - 1)
          BY <1>1, <2>1, <2>2, <4>2
        <5> QED
          BY <1>3, <2>1, <5>1, TextIs
      <4> QED
        BY <4>1, <4>2
    <3>3. p + n \in s..Size
      BY <1>1, <2>1, <2>2
    <3>4. NumberFrom(s) = p + n
      <4> DEFINE e == p + n
      <4>1. Char(e) \notin Digits /\ e \in s..Size
        BY <3>2, <3>3
      <4>3. \A k \in s..(e - 1) : Char(k) \in Digits
        BY <1>1, <2>1, <3>1
      <4> HIDE DEF e
      <4>2. NumberFrom(s) = e
        BY <1>1, <4>1, <4>3, EndIs
      <4> QED
        BY <4>2 DEF e
    <3>5. \A k \in p..(p + n - 1) : k = p \/ k \in s..(p + n - 1)
      BY <1>1, <2>1
    <3> QED
      BY <2>1, <3>1, <3>4, <3>5
  <2>3. ASSUME p + n > Size PROVE input.beyond \in Digits /\ Char(Size - 1) \in Digits \cup {"+"}
    <3>1. Size \in s..(s + r - 1) /\ p + n = Size + 1
      BY <1>1, <1>3, <2>1, <2>3
    <3>2. input.beyond \in Digits
      BY <1>3, <3>1 DEF Ahead
    <3>3. CASE s = Size
      <4>1. Char(p) = "+" /\ Size - 1 = p
        BY <1>1, <3>3
      <4> QED
        BY <3>2, <4>1
    <3>4. CASE s # Size
      <4>1. Size - 1 \in s..(s + r - 1) /\ Size - 1 \in 0..(Size - 1)
        <5>1. s < Size /\ Size <= s + r - 1 /\ s >= 0
          BY <1>1, <1>3, <3>1, <3>4
        <5> QED
          BY <1>1, <1>3, <5>1
      <4>2. Char(Size - 1) \in Digits
        BY <1>3, <4>1, TextIs
      <4> QED
        BY <3>2, <4>2
    <3> QED
      BY <3>3, <3>4
  <2> QED
    BY <1>1, <2>1, <2>2, <2>3 DEF n
<1> QED
  BY <1>4, <1>5 DEF s, sign

(* A backslash hides the next character, unless it is hidden itself.       *)
LEMMA EscapedNext ==
  ASSUME NEW p \in Nat, NEW n \in Nat, p <= n
  PROVE  ~Escaped(p, p) /\ (Escaped(p, n + 1) <=> Char(n) = "\\" /\ ~Escaped(p, n))
<1> DEFINE C(q) == {k \in p..(q - 1) : \A j \in k..(q - 1) : Char(j) = "\\"}
<1>1. \A q : Escaped(p, q) <=> Cardinality(C(q)) % 2 = 1
  BY DEF Escaped
<1>2. Cardinality({}) % 2 # 1
  BY FS_EmptySet
<1>3. C(p) = {}
  OBVIOUS
<1>4. CASE Char(n) # "\\"
  <2>1. C(n + 1) = {}
    <3>1. \A k \in p..(n + 1 - 1) : n \in k..(n + 1 - 1)
      OBVIOUS
    <3> QED
      BY <1>4, <3>1
  <2> HIDE DEF C
  <2> QED
    BY <1>1, <1>2, <1>3, <1>4, <2>1
<1>5. CASE Char(n) = "\\"
  <2>1. C(n + 1) = C(n) \cup {n}
    <3>1. n + 1 - 1 = n
      OBVIOUS
    <3>2. ASSUME NEW k PROVE k \in C(n + 1) <=> k \in C(n) \cup {n}
      <4>1. k \in p..n <=> k \in p..(n - 1) \/ k = n
        OBVIOUS
      <4>2. ASSUME k \in p..n PROVE \A j : j \in k..n <=> j \in k..(n - 1) \/ j = n
        BY <4>2
      <4> QED
        BY <1>5, <3>1, <4>1, <4>2
    <3> QED
      BY <3>2
  <2>2. IsFiniteSet(C(n)) /\ n \notin C(n)
    <3>1. IsFiniteSet(p..(n - 1)) /\ C(n) \subseteq p..(n - 1) /\ n \notin p..(n - 1)
      BY FS_Interval
    <3> HIDE DEF C
    <3> QED
      BY <3>1, FS_Subset
  <2> HIDE DEF C
  <2>3. Cardinality(C(n + 1)) = Cardinality(C(n)) + 1 /\ Cardinality(C(n)) \in Nat
    BY <2>1, <2>2, FS_AddElement, FS_CardinalityType
  <2>4. \A m \in Nat : (m + 1) % 2 = 1 <=> m % 2 # 1
    OBVIOUS
  <2> QED
    BY <1>1, <1>2, <1>3, <1>5, <2>3, <2>4
<1> QED
  BY <1>4, <1>5

LEMMA ScannedSame ==
  ASSUME input' = input, began' = began, NEW t, NEW n, NEW o
  PROVE  Scanned(t, n, o)' <=> Scanned(t, n, o)
<1>1. \A p, l, c : OnLine(p, l, c)' <=> OnLine(p, l, c)
  BY TextSame DEF OnLine
<1>2. IsToken(t)' <=> IsToken(t)
  BY <1>1 DEF IsToken
<1>3. \A p : Begins(p)' <=> Begins(p)
  BY TextSame, CommentSame, AskedSame DEF Begins
<1>4. \A p, m, esc : Unquoted(p, m, esc)' <=> Unquoted(p, m, esc)
  BY StrSame DEF Unquoted, NoQuote
<1>5. \A p : InWord(p, n)' <=> InWord(p, n)
  BY TextSame, AskedSame DEF InWord
<1>6. \A p, esc : InStrOf(p, n, esc)' <=> InStrOf(p, n, esc)
  BY <1>4, TextSame, CommentSame, AskedSame DEF InStrOf
<1>7. \A p, tok, i : InCommentOf(p, n, tok, i)' <=> InCommentOf(p, n, tok, i)
  BY <1>3, CommentSame DEF InCommentOf, NoStop
<1>8. OnTrack(t, n)' <=> OnTrack(t, n)
  BY <1>3, <1>5, <1>6, <1>7 DEF OnTrack
<1>9. GoesOnStr(t, n, o)' <=> GoesOnStr(t, n, o)
  BY <1>4, AskedSame DEF GoesOnStr
<1>10. IsNew(t, n, o)' <=> IsNew(t, n, o)
  BY <1>8, TextSame, AskedSame DEF IsNew
<1> QED
  BY <1>2, <1>9, <1>10, AskedSame DEF Scanned

(* What a token that was read says of the text.                            *)
Reads(tok, from, n) == (tok = Expected[1] /\ n = Expected[2] /\ (tok = "NONE" \/ from = From)) \/ Misled
Fails(o) == Cardinality(o) = 2 \/ StringGoesOn \/ (~Is("skip_comment") /\ cur.tok \in Comments)

LEMMA StandingNext ==
  ASSUME LexInv, input' = input, began' = began, IsPlace(place'), open' \subseteq Quotes,
         term' = term \/ (OnLine(term'.from, term'.line, term'.col)
                           /\ (term'.tok \in Quotes => ~Is("skip_str")))
  PROVE  input' \in Inputs /\ Standing'
<1>1. \A p, l, c : OnLine(p, l, c)' <=> OnLine(p, l, c)
  BY TextSame DEF OnLine
<1>2. \A w : IsPlace(w)' <=> IsPlace(w)
  BY <1>1 DEF IsPlace
<1>3. Standing /\ Size' = Size /\ (Is("skip_str")' <=> Is("skip_str"))
  BY TextSame DEF LexInv
<1>4. IsPlace(place)'
  BY <1>2
<1>5. (term.tok # "NONE" => OnLine(term.from, term.line, term.col))'
      /\ (term.tok \in Quotes => ~Is("skip_str"))'
  BY <1>1, <1>3 DEF Standing
<1> QED
  BY <1>3, <1>4, <1>5 DEF Standing, LexInv

LEMMA GoOnKeeps ==
  ASSUME LexInv, lex = "scan", SameInput, open' \subseteq Quotes,
         NEW t, NEW w, GoOn(t, w), IsPlace(w), Scanned(t, w.pos, open')
  PROVE  LexInv'
<1>1. input' = input /\ began' = began /\ cur' = t /\ place' = w /\ lex' = "scan" /\ term' = term
  BY DEF SameInput, GoOn
<1>2. input' \in Inputs /\ Standing'
  BY <1>1, StandingNext
<1>3. Scanned(cur, place.pos, open)'
  BY <1>1, ScannedSame
<1>4. TokenRight'
  BY <1>1 DEF TokenRight
<1> QED
  BY <1>2, <1>3, <1>4 DEF LexInv

LEMMA GiveKeeps ==
  ASSUME LexInv, SameInput, NEW up, Give(up), open' \subseteq Quotes,
         \/ up = "aborted" /\ Fails(open')
         \/ up = "hung" /\ input.beyond \in Digits /\ Char(Size - 1) \in Digits \cup {"+"}
  PROVE  LexInv'
<1>1. input' = input /\ began' = began /\ cur' = cur /\ place' = place /\ lex' = up /\ term' = term
  BY DEF SameInput, Give
<1>2. input' \in Inputs /\ Standing'
  <2>1. IsPlace(place')
    BY <1>1 DEF LexInv, Standing
  <2> QED
    BY <1>1, <2>1, StandingNext
<1>3. TokenRight'
  <2>1. StringGoesOn' <=> StringGoesOn
    BY <1>1, AskedSame DEF StringGoesOn
  <2>2. CASE up = "aborted"
    BY <1>1, <2>1, <2>2, TextSame DEF TokenRight, Fails
  <2>3. CASE up = "hung"
    <3>1. Char(Size - 1)' = Char(Size - 1)
      BY <1>1, TextSame
    <3> QED
      BY <1>1, <2>3, <3>1 DEF TokenRight
  <2> QED
    BY <2>2, <2>3
<1> QED
  BY <1>1, <1>2, <1>3 DEF LexInv

Kind(t, w, chr) == KindOf(t.tok, SubSeq(Text, t.from + 1, w.pos), chr)
LEMMA StopKeeps ==
  ASSUME LexInv, SameInput, open' \subseteq Quotes, NEW t, NEW w, NEW chr, Stop(t, w, chr),
         IsPlace(w), OnLine(t.from, t.line, t.col),
         ~Asserts(t.tok, chr) => Fails(open'),
         Asserts(t.tok, chr) => Reads(Kind(t, w, chr), t.from, w.pos),
         Kind(t, w, chr) \in Quotes => ~Is("skip_str")
  PROVE  LexInv'
<1>1. CASE ~Asserts(t.tok, chr)
  <2>1. Give("aborted")
    BY <1>1 DEF Stop
  <2> QED
    BY <1>1, <2>1, GiveKeeps
<1>2. CASE Asserts(t.tok, chr)
  <2>1. /\ input' = input /\ began' = began /\ lex' = "read" /\ place' = w
        /\ term' = [tok |-> Kind(t, w, chr), from |-> t.from, line |-> t.line, col |-> t.col]
    BY <1>2 DEF Stop, SameInput, Kind
  <2>2. input' \in Inputs /\ Standing'
    BY <2>1, StandingNext
  <2>3. (term.line = LineAt(term.from) /\ term.col = ColAt(term.from))'
    BY <2>1, TextSame DEF OnLine
  <2>4. Reads(Kind(t, w, chr), t.from, w.pos)
    BY <1>2
  <2>5. (\/ term.tok = Expected[1] /\ place.pos = Expected[2] /\ (term.tok = "NONE" \/ term.from = From)
         \/ Misled)'
    BY <2>1, <2>4, AskedSame DEF Reads
  <2> QED
    BY <2>1, <2>2, <2>3, <2>5 DEF LexInv, TokenRight
<1> QED
  BY <1>1, <1>2

(* Which quotes end a string depends on what opened it.                    *)
LEMMA QuotesEnd ==
  ASSUME input \in Inputs, NEW p \in 0..Size, NEW n \in p..Size, NoQuote(p, n),
         NEW Q \in SUBSET Quotes
  PROVE  Nearest(QuotesFrom(p, Q), Size) \in n..Size
<1>1. Size \in Nat /\ p \in Nat
  BY TextIs
<1>2. QuotesFrom(p, Q) \subseteq QuotesFrom(p, Quotes) /\ QuotesFrom(p, Q) \subseteq p..(Size - 1)
  BY DEF QuotesFrom
<1> DEFINE S == QuotesFrom(p, Q)
<1>3. S \subseteq Nat /\ \A q \in S : q \in n..Size
  BY <1>1, <1>2 DEF NoQuote
<1> HIDE DEF S
<1>4. /\ S = {} => Nearest(S, Size) = Size
      /\ S # {} => Nearest(S, Size) \in S
  BY <1>3, NearestIs
<1> QED
  BY <1>1, <1>3, <1>4 DEF S

LEMMA StrEndIs ==
  ASSUME input \in Inputs, NEW p \in 0..(Size - 1), Char(p) \in Quotes,
         NEW n \in (p + 1)..Size, NoQuote(p + 1, n)
  PROVE  StrEnd(p) \in n..Size /\ (n < Size => StrEnd(p) > n)
<1>1. Size \in Nat /\ p \in Nat
  BY TextIs
<1> DEFINE R == QuotesFrom(p + 1, {Char(p)})
           S == {q + 1 : q \in R}
<1>2. R \subseteq QuotesFrom(p + 1, Quotes) /\ R \subseteq (p + 1)..(Size - 1)
  BY DEF QuotesFrom
<1>3. \A q \in R : q \in n..(Size - 1)
  <2>1. \A q \in QuotesFrom(p + 1, Quotes) : q >= n
    BY DEF NoQuote
  <2> HIDE DEF R
  <2>2. SUFFICES ASSUME NEW q \in R PROVE q \in n..(Size - 1)
    OBVIOUS
  <2>3. q >= n /\ q \in (p + 1)..(Size - 1)
    BY <1>2, <2>1
  <2> QED
    BY <1>1, <2>3
<1>4. StrEnd(p) = Nearest(S, Size)
  BY Zenon DEF StrEnd
<1> HIDE DEF R
<1>5. S \subseteq Nat /\ \A q \in S : q \in (n + 1)..Size
  BY <1>1, <1>3
<1> HIDE DEF S
<1>6. /\ S = {} => Nearest(S, Size) = Size
      /\ S # {} => Nearest(S, Size) \in S
  BY <1>5, NearestIs
<1>7. StrEnd(p) = Size \/ StrEnd(p) \in (n + 1)..Size
  BY <1>4, <1>5, <1>6
<1> QED
  BY <1>1, <1>7

LEMMA NoQuoteHere ==
  ASSUME NEW p \in Nat
  PROVE  NoQuote(p, p) /\ Unquoted(p, p, FALSE)
<1>1. NoQuote(p, p)
  BY DEF NoQuote, QuotesFrom
<1>2. ~Escaped(p, p)
  BY EscapedNext
<1> QED
  BY <1>1, <1>2 DEF Unquoted

(* One character further in a string.                                      *)
LEMMA UnquotedNext ==
  ASSUME NEW p \in Nat, NEW n \in Nat, NEW esc \in BOOLEAN, Unquoted(p, n, esc),
         esc \/ Char(n) \notin Quotes
  PROVE  /\ esc \/ Char(n) = "\\" => Unquoted(p, n + 1, ~esc)
         /\ ~esc /\ Char(n) # "\\" => Unquoted(p, n + 1, esc)
<1>1. p <= n /\ p \in 0..n /\ (esc <=> Escaped(p, n))
      /\ \A q \in QuotesFrom(p, Quotes) : q >= n /\ q \in Int
  BY DEF Unquoted, NoQuote, QuotesFrom
<1>2. n \notin QuotesFrom(p, Quotes)
  BY <1>1 DEF QuotesFrom
<1>3. NoQuote(p, n + 1)
  BY <1>1, <1>2 DEF NoQuote
<1>4. Escaped(p, n + 1) <=> Char(n) = "\\" /\ ~Escaped(p, n)
  BY <1>1, EscapedNext
<1>5. ASSUME esc PROVE Unquoted(p, n + 1, FALSE)
  BY <1>1, <1>3, <1>4, <1>5 DEF Unquoted
<1>6. ASSUME ~esc, Char(n) = "\\" PROVE Unquoted(p, n + 1, TRUE)
  BY <1>1, <1>3, <1>4, <1>6 DEF Unquoted
<1>7. ASSUME ~esc, Char(n) # "\\" PROVE Unquoted(p, n + 1, FALSE)
  BY <1>1, <1>3, <1>4, <1>7 DEF Unquoted
<1>8. (esc <=> TRUE) \/ (esc <=> FALSE)
  OBVIOUS
<1>9. (esc => (~esc) = FALSE) /\ (~esc => (~esc) = TRUE /\ esc = FALSE)
  OBVIOUS
<1> QED
  BY <1>5, <1>6, <1>7, <1>9

(* What begins with neither "#" nor "/" is no comment.                     *)
LEMMA NoComment ==
  ASSUME NEW p, Char(p) \notin {"#", "/"}
  PROVE  CommentAt(p) = "NONE" /\ ~SkippedAt(p)
  BY DEF CommentAt, SkippedAt

(* Proper, case by case.                                                   *)
Plain(p) == Char(p) \notin {NUL, "#", "/"}
LEMMA ProperIs ==
  ASSUME NEW p
  PROVE  /\ Char(p) = NUL => Proper(p) = <<"NONE", p>>
         /\ CommentAt(p) # "NONE" => Proper(p) = <<CommentAt(p), CommentEnd(p)>>
         /\ CommentAt(p) = "NONE" /\ Char(p) \in {"#", "/"} => Proper(p) = <<"CHAR", p + 1>>
         /\ Plain(p) /\ Char(p) \in Quotes /\ Is("scan_str") =>
              Proper(p) = IF Is("skip_str") THEN <<"STR", StrEnd(p)>> ELSE <<Char(p), p + 1>>
         /\ Plain(p) /\ Char(p) = "+" /\ Char(p + 1) \in Digits =>
              Proper(p) = <<"INT", NumberFrom(p + 1)>>
         /\ Plain(p) /\ Char(p) \in Digits => Proper(p) = <<"INT", NumberFrom(p)>>
         /\ Plain(p) /\ IsIdentFirst(Char(p)) => Proper(p) = <<WordKind(Word(p)), WordEnd(p)>>
         /\ Plain(p) /\ ~(Char(p) \in Quotes /\ Is("scan_str"))
            /\ ~(Char(p) = "+" /\ Char(p + 1) \in Digits)
              /\ Char(p) \notin Digits /\ ~IsIdentFirst(Char(p))
              => Proper(p) = <<IF Char(p) = "(" THEN "LEFT_PAREN" ELSE "CHAR", p + 1>>
<1>1. Plain(p) => CommentAt(p) = "NONE"
  BY NoComment DEF Plain
<1>2. CommentAt(p) # "NONE" => Char(p) \in {"#", "/"}
  BY NoComment
<1>3. Char(p) \in {"#", "/"} => Char(p) # NUL /\ Char(p) \notin Quotes /\ Char(p) \notin Digits
                               /\ ~IsIdentFirst(Char(p)) /\ Char(p) # "+" /\ Char(p) # "("
  BY DEF NUL, Quotes, Digits, IsIdentFirst, Letters
<1>4. Plain(p) => Char(p) # NUL
  BY DEF Plain
<1>5. \A c \in Quotes : c \notin Digits /\ ~IsIdentFirst(c) /\ c # "+"
  BY DEF Quotes, Digits, IsIdentFirst, Letters
<1>6. \A c \in Digits : ~IsIdentFirst(c) /\ c # "+"
  BY DEF Digits, IsIdentFirst, Letters
<1>7. ~IsIdentFirst("+")
  BY DEF IsIdentFirst, Letters
<1>8. Char(p) = NUL => CommentAt(p) = "NONE"
  BY <1>2, <1>3
<1> DEFINE c == Char(p)
<1>9. Proper(p) = CASE c = NUL                         -> <<"NONE", p>>
    [] CommentAt(p) # "NONE"           -> <<CommentAt(p), CommentEnd(p)>>
    [] c \in Quotes /\ Is("scan_str")  -> IF Is("skip_str") THEN <<"STR", StrEnd(p)>> ELSE <<c, p + 1>>
    [] c = "+" /\ Char(p + 1) \in Digits -> <<"INT", NumberFrom(p + 1)>>
    [] c \in Digits                    -> <<"INT", NumberFrom(p)>>
    [] IsIdentFirst(c)                 -> <<WordKind(Word(p)), WordEnd(p)>>
    [] OTHER                           -> <<IF c = "(" THEN "LEFT_PAREN" ELSE "CHAR", p + 1>>
  BY DEF Proper
<1>10. Char(p) = NUL => Proper(p) = <<"NONE", p>>
  BY <1>8, <1>9, <1>4, <1>5, <1>6 DEF NUL, Quotes, Digits, IsIdentFirst, Letters
<1>11. CommentAt(p) # "NONE" => Proper(p) = <<CommentAt(p), CommentEnd(p)>>
  BY <1>2, <1>3, <1>9
<1>12. CommentAt(p) = "NONE" /\ Char(p) \in {"#", "/"} => Proper(p) = <<"CHAR", p + 1>>
  BY <1>3, <1>9
<1>13. Plain(p) /\ Char(p) \in Quotes /\ Is("scan_str") =>
         Proper(p) = IF Is("skip_str") THEN <<"STR", StrEnd(p)>> ELSE <<Char(p), p + 1>>
  BY <1>1, <1>4, <1>5, <1>9
<1>14. Plain(p) /\ Char(p) = "+" /\ Char(p + 1) \in Digits => Proper(p) = <<"INT", NumberFrom(p + 1)>>
  BY <1>1, <1>4, <1>5, <1>6, <1>7, <1>9
<1>15. Plain(p) /\ Char(p) \in Digits => Proper(p) = <<"INT", NumberFrom(p)>>
  BY <1>1, <1>4, <1>5, <1>6, <1>9
<1>16. Plain(p) /\ IsIdentFirst(Char(p)) => Proper(p) = <<WordKind(Word(p)), WordEnd(p)>>
  BY <1>1, <1>4, <1>5, <1>6, <1>7, <1>9
<1>17. Plain(p) /\ ~(Char(p) \in Quotes /\ Is("scan_str")) /\ ~(Char(p) = "+" /\ Char(p + 1) \in Digits)
         /\ Char(p) \notin Digits /\ ~IsIdentFirst(Char(p))
         => Proper(p) = <<IF Char(p) = "(" THEN "LEFT_PAREN" ELSE "CHAR", p + 1>>
  BY <1>1, <1>4, <1>9
<1> HIDE DEF c
<1> QED
  BY <1>10, <1>11, <1>12, <1>13, <1>14, <1>15, <1>16, <1>17

(* A token ends where it began, or behind.                                 *)
LEMMA ProperEnds ==
  ASSUME input \in Inputs, NEW p \in 0..Size
  PROVE  Proper(p)[2] \in p..Size
<1>1. Size \in Nat /\ p \in Nat /\ p <= Size /\ (Char(p) # NUL => p \in 0..(Size - 1))
  BY TextIs
<1>2. CommentEnd(p) \in p..Size
  BY StopsIn
<1>3. NumberFrom(p) \in p..Size /\ WordEnd(p) \in p..Size
  BY EndIs
<1>4. Char(p) # NUL => NumberFrom(p + 1) \in (p + 1)..Size
  <2>1. Char(p) # NUL => p + 1 \in 0..Size
    BY <1>1
  <2> QED
    BY <2>1, EndIs
<1>5. Char(p) \in Quotes => StrEnd(p) \in p..Size
  <2>1. SUFFICES ASSUME Char(p) \in Quotes PROVE StrEnd(p) \in p..Size
    OBVIOUS
  <2>2. NUL \notin Quotes
    BY DEF NUL, Quotes
  <2>3. p \in 0..(Size - 1) /\ p + 1 \in (p + 1)..Size /\ p + 1 \in Nat
    BY <1>1, <2>1, <2>2
  <2>4. NoQuote(p + 1, p + 1)
    BY <2>3, NoQuoteHere
  <2>5. StrEnd(p) \in (p + 1)..Size
    BY <2>1, <2>3, <2>4, StrEndIs
  <2> QED
    BY <1>1, <2>5
<1> DEFINE c == Char(p)
           e == Proper(p)[2]
<1>6. \/ e = p \/ e = CommentEnd(p) \/ (c \in Quotes /\ e = StrEnd(p)) \/ (c # NUL /\ e = p + 1)
      \/ (c # NUL /\ e = NumberFrom(p + 1)) \/ e = NumberFrom(p) \/ e = WordEnd(p)
  <2>1. CASE c = NUL
    BY <2>1, ProperIs
  <2>2. CASE CommentAt(p) # "NONE"
    BY <2>2, ProperIs
  <2>3. CASE c # NUL /\ CommentAt(p) = "NONE"
    <3>1. CASE c \in {"#", "/"}
      BY <2>3, <3>1, ProperIs
    <3>2. CASE Plain(p)
      BY <2>3, <3>2, ProperIs
    <3> QED
      BY <2>3, <3>1, <3>2 DEF Plain
  <2> QED
    BY <2>1, <2>2, <2>3
<1> HIDE DEF c, e
<1>7. e \in p..Size
  BY <1>1, <1>2, <1>3, <1>4, <1>5, <1>6 DEF c
<1> QED
  BY <1>7 DEF e

(* Characters that end no line.                                            *)
LEMMA LineOn ==
  ASSUME input \in Inputs, NEW p \in 0..Size, NEW n \in p..Size, \A k \in p..(n - 1) : Char(k) # "\n"
  PROVE  LineAt(n) = LineAt(p) /\ ColAt(n) = ColAt(p) + (n - p)
<1>1. Size \in Nat /\ p \in Nat /\ n \in Nat /\ p <= n /\ n \in 0..Size
  BY TextIs
<1>2. \A k \in (p + 1)..n : Text[k] # "\n"
  <2>1. SUFFICES ASSUME NEW k \in (p + 1)..n PROVE Text[k] # "\n"
    OBVIOUS
  <2>2. k - 1 \in p..(n - 1) /\ k - 1 \in 0..(Size - 1) /\ k - 1 + 1 = k
    BY <1>1
  <2> QED
    BY <2>2, TextIs
<1>3. {k \in 1..n : Text[k] = "\n"} = {k \in 1..p : Text[k] = "\n"}
  <2>1. \A k : k \in 1..n <=> k \in 1..p \/ k \in (p + 1)..n
    BY <1>1
  <2> QED
    BY <1>2, <2>1
<1>4. LineAt(n) = LineAt(p)
  BY <1>3 DEF LineAt
<1> DEFINE s == LineStart(p)
<1>5. s \in 0..p /\ (s = 0 \/ Text[s] = "\n") /\ \A k \in (s + 1)..p : Text[k] # "\n"
  BY <1>1, LineStartHas
<1> HIDE DEF s
<1>6. s \in 0..n /\ \A k \in (s + 1)..n : Text[k] # "\n"
  <2>1. \A k : k \in (s + 1)..n => k \in (s + 1)..p \/ k \in (p + 1)..n
    BY <1>1, <1>5
  <2> QED
    BY <1>1, <1>2, <1>5, <2>1
<1>7. LineStart(n) = s
  BY <1>1, <1>5, <1>6, LineStartIs
<1>8. ColAt(n) = n - s + 1 /\ ColAt(p) = p - s + 1
  BY <1>7 DEF ColAt, s
<1> QED
  BY <1>1, <1>4, <1>5, <1>8

(* Where the token begins that is to be read.                              *)
LEMMA FromIs ==
  ASSUME LexInv, ~InString
  PROVE  From \in began.pos..Size /\ From \in 0..Size
<1>1. began.pos \in 0..Size /\ From = TokenAt(began.pos) /\ Size \in Nat
  BY TextIs DEF LexInv, Standing, From
<1> QED
  BY <1>1, TokenAtIs DEF LexInv

LEMMA BeginsHere ==
  ASSUME input \in Inputs, NEW p, Begins(p), ~IsSkipChar(Char(p)), ~SkippedAt(p)
  PROVE  From = p
  BY TokenAtIs DEF Begins, Jumps

LEMMA ReadsProper ==
  ASSUME ~InString, NEW tok, NEW n, Proper(From) = <<tok, n>>
  PROVE  Reads(tok, From, n)
  BY DEF Expected, Reads

(* A word is called what it should be, but for words of the same length    *)
(* with the same first letter.                                             *)
LEMMA WordReads ==
  ASSUME LexInv, ~InString, NEW p, NEW n \in 0..Size, InWord(p, n), ~IsIdent(Char(n))
  PROVE  Reads(Identified(SubSeq(Text, p + 1, n)), p, n)
<1>1. p = From /\ p < n /\ IsIdentFirst(Char(p)) /\ \A k \in p..(n - 1) : IsIdent(Char(k))
  BY DEF InWord
<1>2. Size \in Nat /\ p \in 0..(Size - 1) /\ n \in p..Size /\ input \in Inputs
      /\ Text \in Seq(Chars) /\ Size = Len(Text)
  BY <1>1, FromIs, TextIs, InputsAssumption DEF LexInv, Text, Size
<1>3. WordEnd(p) = n
  <2>1. p \in 0..Size /\ n \in p..Size /\ ~IsIdent(Char(n)) /\ \A k \in p..(n - 1) : IsIdent(Char(k))
    BY <1>1, <1>2
  <2> QED
    BY <1>2, <2>1, EndIs
<1> DEFINE w == SubSeq(Text, p + 1, n)
<1>4. Word(p) = w
  BY <1>3 DEF Word
<1>5. Len(w) = n - p /\ w[1] = Char(p)
  <2>1. Char(p) = Text[p + 1]
    BY <1>2, TextIs
  <2>2. w[1] = Text[p + 1 + 1 - 1] /\ Len(w) = n - (p + 1) + 1
    BY <1>1, <1>2
  <2>3. p + 1 + 1 - 1 = p + 1 /\ n - (p + 1) + 1 = n - p
    BY <1>2
  <2> HIDE DEF w
  <2> QED
    BY <2>1, <2>2, <2>3
<1> HIDE DEF w
<1>6. Plain(p)
  BY <1>1 DEF Plain, IsIdentFirst, Letters, NUL
<1>7. Proper(From) = <<WordKind(w), n>>
  BY <1>1, <1>3, <1>4, <1>6, ProperIs
<1>8. CASE TakenForWord
  BY <1>8 DEF Reads, Misled, w
<1>9. CASE ~TakenForWord
  <2>1. \A tok \in {"FALSE", "TRUE", "NULL"} : \A v \in Words(tok) : SameWord(v, w) => v = w
    BY <1>1, <1>4, <1>5, <1>9 DEF TakenForWord, SameWord
  <2>2. \A tok \in {"FALSE", "TRUE", "NULL"} : Means(w, tok) <=> w \in Words(tok)
    BY <2>1 DEF Means, SameWord
  <2>3. Identified(w) = WordKind(w)
    BY <2>2 DEF Identified, WordKind
  <2>4. Reads(WordKind(w), From, n)
    BY <1>7, ReadsProper
  <2> QED
    BY <1>1, <2>3, <2>4 DEF w
<1> QED
  BY <1>8, <1>9

(* Stops of the single-line and the multi-line comment.                    *)
LEMMA StopsAre ==
  ASSUME input \in Inputs, NEW p \in 0..Size
  PROVE  /\ CommentAt(p) = "COMMENT_SINGLE" =>
              \A q : q \in CommentStops(p) <=> q - 1 \in p..(Size - 1) /\ Char(q - 1) = "\n" /\ q \in Nat
         /\ CommentAt(p) = "COMMENT_MULTI" =>
              \A q : q \in CommentStops(p) <=> q - 2 \in (p + 2)..(Size - 2) /\ Char(q - 2) = "*"
                                               /\ Char(q - 1) = "/" /\ q \in Nat
<1>1. Size \in Nat /\ p \in Nat
  BY TextIs
<1>2. ASSUME CommentAt(p) = "COMMENT_SINGLE"
      PROVE \A q : q \in CommentStops(p) <=> q - 1 \in p..(Size - 1) /\ Char(q - 1) = "\n" /\ q \in Nat
  <2>1. CommentStops(p) = {q + 1 : q \in {r \in p..(Size - 1) : Char(r) = "\n"}}
    BY <1>2 DEF CommentStops
  <2>2. \A q \in Nat : q - 1 + 1 = q /\ q + 1 - 1 = q
    OBVIOUS
  <2> QED
    BY <1>1, <2>1, <2>2
<1>3. ASSUME CommentAt(p) = "COMMENT_MULTI"
      PROVE \A q : q \in CommentStops(p) <=> q - 2 \in (p + 2)..(Size - 2) /\ Char(q - 2) = "*"
                                               /\ Char(q - 1) = "/" /\ q \in Nat
  <2>1. CommentStops(p) =
          {q + 2 : q \in {r \in (p + 2)..(Size - 2) : Char(r) = "*" /\ Char(r + 1) = "/"}}
    BY <1>3 DEF CommentStops
  <2>2. \A q \in Nat : q - 2 + 2 = q /\ q + 2 - 2 = q /\ q - 2 + 1 = q - 1
    OBVIOUS
  <2> QED
    BY <1>1, <2>1, <2>2
<1> QED
  BY <1>2, <1>3

(***************************************************************************)
(* Every step of the lexer                                                 *)
(***************************************************************************)
(* lexer_get_next_token begins.                                            *)
LEMMA BeginKeeps == LexInv /\ Begin => LexInv'
<1> SUFFICES ASSUME LexInv, Begin PROVE LexInv'
  OBVIOUS
<1>1. input' = input /\ place' = place /\ open' = open /\ term' = term /\ lex' = "scan"
      /\ began' = [pos |-> place.pos, open |-> open, term |-> term]
      /\ cur' = Token(IF term.tok \in Quotes /\ place.pos # term.from THEN "STR" ELSE "NONE")
  BY DEF Begin
<1>2. input \in Inputs /\ Standing /\ place.pos \in 0..Size /\ place.pos \in Nat
      /\ place.pos <= place.pos
  BY TextIs DEF LexInv, Standing, IsPlace, OnLine
<1>3. \A p, l, c : OnLine(p, l, c)' <=> OnLine(p, l, c)
  BY <1>1, TextSame DEF OnLine
<1>4. Standing'
  <2>1. IsPlace(place)'
    BY <1>1, <1>2, <1>3 DEF Standing, IsPlace
  <2>2. (term.tok # "NONE" => OnLine(term.from, term.line, term.col))'
        /\ (term.tok \in Quotes => ~Is("skip_str"))'
    BY <1>1, <1>2, <1>3, TextSame DEF Standing
  <2>3. (began.pos \in 0..Size /\ open \subseteq Quotes
         /\ (began.term.tok \in Quotes => ~Is("skip_str")))'
    BY <1>1, <1>2, TextSame DEF Standing
  <2> QED
    BY <2>1, <2>2, <2>3 DEF Standing
<1>5. InString' <=> term.tok \in Quotes /\ place.pos # term.from
  BY <1>1 DEF InString
<1>6. IsToken(cur)'
  <2>1. OnLine(place.pos, place.line, place.col)'
    BY <1>1, <1>2, <1>3 DEF Standing, IsPlace
  <2> QED
    BY <1>1, <2>1 DEF IsToken, Token
<1>7. CASE InString'
  <2>1. From' = place.pos
    BY <1>1, <1>7 DEF From
  <2>2. Unquoted(place.pos, place.pos, FALSE)
    BY <1>2, NoQuoteHere
  <2>3. Unquoted(place.pos, place.pos, FALSE)'
    BY <1>1, <2>2, StrSame DEF Unquoted, NoQuote
  <2>4. cur' = [tok |-> "STR", from |-> place.pos, line |-> place.line, col |-> place.col, esc |-> FALSE]
    BY <1>1, <1>5, <1>7 DEF Token
  <2>5. GoesOnStr(cur, place.pos, open)'
    <3>1. cur'.esc = FALSE /\ From' = place'.pos
      BY <1>1, <2>1, <2>4
    <3>2. Unquoted(From, place.pos, cur.esc)'
      BY <2>3, <3>1, Zenon
    <3>3. cur'.tok = "STR" /\ open' = began'.open /\ cur'.from = From'
      BY <1>1, <2>1, <2>4
    <3> QED
      BY <3>2, <3>3 DEF GoesOnStr
  <2>6. Scanned(cur, place.pos, open)'
    BY <1>1, <1>2, <1>6, <1>7, <2>5 DEF Scanned
  <2> QED
    BY <1>1, <1>2, <1>4, <2>6 DEF LexInv, TokenRight
<1>8. CASE ~InString'
  <2>1. From' = TokenAt(place.pos)'
    BY <1>1, <1>8 DEF From
  <2>2. cur'.tok = "NONE"
    BY <1>1, <1>5, <1>8 DEF Token
  <2>3. Begins(place.pos)'
    BY <1>1, <1>2, <2>1, TextSame DEF Begins
  <2>4. IsNew(cur, place.pos, open)'
    BY <1>1, <2>2, <2>3 DEF IsNew, OnTrack
  <2>5. Scanned(cur, place.pos, open)'
    BY <1>1, <1>2, <1>6, <1>8, <2>4 DEF Scanned
  <2> QED
    BY <1>1, <1>2, <1>4, <2>5 DEF LexInv, TokenRight
<1> QED
  BY <1>7, <1>8

(* lexer_unget_token                                                       *)
LEMMA UngetKeeps == LexInv /\ Unget => LexInv'
<1> SUFFICES ASSUME LexInv, Unget PROVE LexInv'
  OBVIOUS
<1>1. input' = input /\ began' = began /\ open' = open /\ term' = term /\ lex' = "ready"
      /\ term.tok # "NONE"
      /\ place' = [pos |-> term.from, line |-> term.line, col |-> term.col]
  BY DEF Unget
<1>2. OnLine(term.from, term.line, term.col) /\ open \subseteq Quotes
  BY <1>1 DEF LexInv, Standing
<1>3. IsPlace(place')
  BY <1>1, <1>2 DEF IsPlace
<1>4. input' \in Inputs /\ Standing'
  BY <1>1, <1>2, <1>3, StandingNext
<1> QED
  BY <1>1, <1>4 DEF LexInv, TokenRight

LEMMA ScanFacts ==
  ASSUME LexInv, lex = "scan"
  PROVE  /\ input \in Inputs /\ Size \in Nat /\ place.pos \in 0..Size /\ began.pos \in 0..Size
         /\ began.pos <= place.pos /\ IsPlace(place) /\ IsToken(cur) /\ open \subseteq Quotes
         /\ InString => GoesOnStr(cur, place.pos, open)
         /\ ~InString => IsNew(cur, place.pos, open)
         /\ Here = NUL => place.pos = Size
         /\ Here # NUL => /\ place.pos \in 0..(Size - 1) /\ IsPlace(Moved(place))
                          /\ Moved(place).pos = place.pos + 1
<1>1. /\ input \in Inputs /\ place.pos \in 0..Size /\ began.pos \in 0..Size
      /\ began.pos <= place.pos /\ IsPlace(place) /\ IsToken(cur) /\ open \subseteq Quotes
      /\ InString => GoesOnStr(cur, place.pos, open)
      /\ ~InString => IsNew(cur, place.pos, open)
  BY DEF LexInv, Standing, Scanned, IsPlace, OnLine
<1>2. Size \in Nat /\ (Here # NUL => place.pos \in 0..(Size - 1))
      /\ \A p \in 0..(Size - 1) : Char(p) # NUL
  BY <1>1, TextIs DEF Here
<1>3. Here = NUL => place.pos = Size
  BY <1>1, <1>2 DEF Here
<1>4. IsPlace(Moved(place))
      /\ Moved(place).pos = IF Char(place.pos) = NUL THEN place.pos ELSE place.pos + 1
  BY <1>1, MovedIs
<1> QED
  BY <1>1, <1>2, <1>3, <1>4 DEF Here

LEMMA KindIs ==
  ASSUME NEW t, NEW w, NEW chr
  PROVE  /\ t.tok = "IDENT" => Kind(t, w, chr) = Identified(SubSeq(Text, t.from + 1, w.pos))
         /\ t.tok = "CHAR" => Kind(t, w, chr) = IF chr = "(" THEN "LEFT_PAREN" ELSE "CHAR"
         /\ t.tok \notin {"IDENT", "CHAR"} => Kind(t, w, chr) = t.tok
         /\ t.tok \notin Quotes => Kind(t, w, chr) \notin Quotes
<1>1. /\ t.tok = "IDENT" => Kind(t, w, chr) = Identified(SubSeq(Text, t.from + 1, w.pos))
      /\ t.tok = "CHAR" => Kind(t, w, chr) = IF chr = "(" THEN "LEFT_PAREN" ELSE "CHAR"
      /\ t.tok \notin {"IDENT", "CHAR"} => Kind(t, w, chr) = t.tok
  BY DEF Kind, KindOf
<1>2. \A v : Identified(v) \in {"BOOL", "STR", "IDENT", "IDENT_NULL"}
  BY DEF Identified, Name
<1>3. \A tok \in {"BOOL", "STR", "IDENT", "IDENT_NULL", "LEFT_PAREN", "CHAR"} : tok \notin Quotes
  BY DEF Quotes
<1> QED
  BY <1>1, <1>2, <1>3

LEMMA GoOnNew ==
  ASSUME LexInv, lex = "scan", SameInput, open' \subseteq Quotes, ~InString,
         NEW t, NEW w, GoOn(t, w), IsPlace(w), began.pos <= w.pos, IsToken(t),
         Misled \/ OnTrack(t, w.pos),
         t.tok = "STR" => open' # {} /\ Is("skip_str"), t.tok # "STR" => open' = began.open
  PROVE  LexInv'
<1>1. Scanned(t, w.pos, open')
  BY DEF Scanned, IsNew
<1> QED
  BY <1>1, GoOnKeeps

LEMMA IdentKeeps == LexInv /\ InIdent => LexInv'
<1> SUFFICES ASSUME LexInv, InIdent PROVE LexInv'
  OBVIOUS
<1> DEFINE x == place.pos
<1>1. lex = "scan" /\ cur.tok = "IDENT" /\ Here # NUL /\ SameInput /\ open' = open
      /\ IF IsIdent(Here) THEN GoOn(cur, Moved(place)) ELSE Stop(cur, place, Here)
  BY DEF InIdent, In, Here
<1>2. /\ input \in Inputs /\ Size \in Nat /\ x \in 0..(Size - 1) /\ began.pos \in 0..Size
         /\ began.pos <= x
      /\ IsPlace(place) /\ IsToken(cur) /\ open \subseteq Quotes /\ IsPlace(Moved(place))
         /\ Moved(place).pos = x + 1
  BY <1>1, ScanFacts
<1>3. ~InString /\ (Misled \/ InWord(cur.from, x)) /\ open = began.open
  <2>1. ~InString
    BY <1>1, ScanFacts DEF GoesOnStr
  <2>2. IsNew(cur, x, open)
    BY <1>1, <2>1, ScanFacts
  <2> QED
    BY <1>1, <2>1, <2>2 DEF IsNew, OnTrack
<1>4. CASE IsIdent(Here)
  <2>1. InWord(cur.from, x) => InWord(cur.from, x + 1)
    <3>1. SUFFICES ASSUME InWord(cur.from, x) PROVE InWord(cur.from, x + 1)
      OBVIOUS
    <3>2. cur.from \in Nat /\ x \in Nat
      BY <1>2 DEF IsToken, OnLine
    <3>3. \A k \in cur.from..x : k \in cur.from..(x - 1) \/ k = x
      BY <3>2
    <3>4. x + 1 - 1 = x
      BY <3>2
    <3> QED
      BY <1>4, <3>1, <3>2, <3>3, <3>4 DEF InWord, Here
  <2>2. Misled \/ OnTrack(cur, x + 1)
    BY <1>1, <1>3, <2>1 DEF OnTrack
  <2>3. began.pos <= x + 1
    BY <1>2
  <2> HIDE DEF x
  <2> QED
    BY <1>1, <1>2, <1>3, <1>4, <2>2, <2>3, GoOnNew
<1>5. CASE ~IsIdent(Here)
  <2>1. Asserts(cur.tok, Here)
    BY <1>1 DEF Asserts, Comments
  <2>2. Kind(cur, place, Here) = Identified(SubSeq(Text, cur.from + 1, place.pos))
        /\ Kind(cur, place, Here) \notin Quotes
    <3>1. cur.tok \notin Quotes
      BY <1>1 DEF Quotes
    <3> QED
      BY <1>1, <3>1, KindIs
  <2>3. Reads(Kind(cur, place, Here), cur.from, place.pos)
    <3>1. CASE Misled
      BY <3>1 DEF Reads
    <3>2. CASE InWord(cur.from, x)
      <4>1. x \in 0..Size /\ ~IsIdent(Char(x))
        BY <1>2, <1>5 DEF Here
      <4> QED
        BY <1>3, <2>2, <3>2, <4>1, WordReads
    <3> QED
      BY <1>3, <3>1, <3>2
  <2>4. OnLine(cur.from, cur.line, cur.col)
    BY <1>2 DEF IsToken
  <2> QED
    BY <1>1, <1>2, <1>5, <2>1, <2>2, <2>3, <2>4, StopKeeps
<1> QED
  BY <1>4, <1>5

(* A string is read to its end, or to the wrong quote.                     *)
LEMMA StrReads ==
  ASSUME LexInv, lex = "scan", cur.tok = "STR", Here = NUL \/ (~cur.esc /\ Here \in Quotes)
  PROVE  Reads("STR", cur.from, IF Is("skip_str") THEN Moved(place).pos ELSE place.pos)
<1> DEFINE x == place.pos
           e == IF Is("skip_str") THEN Moved(place).pos ELSE place.pos
<1>1. /\ input \in Inputs /\ Size \in Nat /\ x \in 0..Size /\ IsToken(cur)
      /\ Here = NUL => x = Size
      /\ Here # NUL => x \in 0..(Size - 1) /\ Moved(place).pos = x + 1
  BY ScanFacts
<1>2. Here = NUL => Moved(place).pos = x
  BY <1>1, MovedIs, ScanFacts DEF Here
<1>3. \A p \in Nat : Unquoted(p, x, cur.esc) /\ Here # NUL => x \in QuotesFrom(p, Quotes)
  <2>1. SUFFICES ASSUME NEW p \in Nat, Unquoted(p, x, cur.esc), Here # NUL
                 PROVE  x \in QuotesFrom(p, Quotes)
    OBVIOUS
  <2>2. ~cur.esc /\ Here \in Quotes
    BY <2>1
  <2>3. ~Escaped(p, x) /\ p <= x
    BY <2>1, <2>2 DEF Unquoted, NoQuote
  <2> QED
    BY <1>1, <2>1, <2>2, <2>3 DEF QuotesFrom, Here
<1> HIDE DEF x
<1>4. CASE InString
  <2>1. cur.from = From /\ Unquoted(From, x, cur.esc)
    BY <1>4, ScanFacts DEF GoesOnStr, x
  <2>2. From \in 0..Size /\ ~Is("skip_str") /\ began.open \in SUBSET Quotes
    <3>1. open = began.open
      BY <1>4, ScanFacts DEF GoesOnStr
    <3> QED
      BY <1>4, <3>1, ScanFacts DEF From, InString, LexInv, Standing
  <2> DEFINE m == Nearest(QuotesFrom(From, began.open), Size)
  <2>3. m \in x..Size
    <3>1. x \in From..Size /\ NoQuote(From, x)
      BY <1>1, <2>1, <2>2 DEF Unquoted, NoQuote
    <3> QED
      BY <1>1, <2>2, <3>1, QuotesEnd
  <2>4. Expected = <<"STR", m>>
    BY <1>4 DEF Expected
  <2> HIDE DEF m
  <2>5. e = x
    BY <2>2 DEF x
  <2>6. CASE m = x
    BY <2>1, <2>4, <2>5, <2>6 DEF Reads
  <2>7. CASE m # x
    <3>1. x < m /\ Here # NUL
      BY <1>1, <2>3, <2>7
    <3>2. From \in Nat
      BY <1>1, <2>2
    <3>3. x \in QuotesFrom(From, Quotes)
      BY <1>3, <2>1, <3>1, <3>2
    <3>4. x < m - 0
      BY <1>1, <2>3, <3>1
    <3>5. OtherQuote
      BY <1>4, <2>4, <3>3, <3>4 DEF OtherQuote
    <3> QED
      BY <3>5 DEF Reads, Misled
  <2> QED
    BY <2>6, <2>7
<1>5. CASE ~InString
  <2>1. Is("skip_str") /\ (Misled \/ InStrOf(cur.from, x, cur.esc))
    BY <1>5, ScanFacts DEF IsNew, OnTrack, x
  <2>2. CASE Misled
    BY <2>2 DEF Reads
  <2>3. CASE InStrOf(cur.from, x, cur.esc)
    <3>1. cur.from = From /\ Char(From) \in Quotes /\ Is("scan_str") /\ Unquoted(From + 1, x, cur.esc)
      BY <2>3 DEF InStrOf
    <3>2. From \in 0..(Size - 1) /\ From \in Nat /\ x \in (From + 1)..Size /\ NoQuote(From + 1, x)
      <4>1. From \in 0..Size /\ From < x
        BY <1>5, <2>3, FromIs DEF InStrOf
      <4> QED
        BY <1>1, <3>1, <4>1 DEF Unquoted
    <3>3. Plain(From)
      BY <3>1 DEF Plain, Quotes, NUL
    <3>4. Expected = <<"STR", StrEnd(From)>>
      BY <1>5, <2>1, <3>1, <3>3, ProperIs DEF Expected
    <3>5. StrEnd(From) \in x..Size /\ (x < Size => StrEnd(From) > x)
      BY <1>1, <3>1, <3>2, StrEndIs
    <3>6. e = IF Here = NUL THEN x ELSE x + 1
      BY <1>1, <1>2, <2>1
    <3> HIDE DEF e
    <3>7. Reads("STR", cur.from, e)
      <4>1. CASE StrEnd(From) = e
        BY <3>1, <3>4, <4>1 DEF Reads
      <4>2. CASE StrEnd(From) # e
        <5>1. Here # NUL /\ x < StrEnd(From) - 1
          BY <1>1, <3>5, <3>6, <4>2
        <5>2. x \in QuotesFrom(From + 1, Quotes)
          BY <1>3, <3>1, <3>2, <5>1
        <5>3. OtherQuote
          BY <1>5, <3>4, <5>1, <5>2 DEF OtherQuote
        <5> QED
          BY <5>3 DEF Reads, Misled
      <4> QED
        BY <4>1, <4>2
    <3> QED
      BY <3>7 DEF e
  <2> QED
    BY <2>1, <2>2, <2>3
<1> QED
  BY <1>4, <1>5

(* A string of which no quote is open, or both, ends in an assertion.      *)
LEMMA OpenIs ==
  ASSUME NEW o, o \subseteq Quotes
  PROVE  (Cardinality(o) = 0 <=> o = {}) /\ Cardinality(o) \in 0..2
<1>1. Cardinality({}) = 0 /\ IsFiniteSet({})
  BY FS_EmptySet
<1>2. \A q : Cardinality({q}) = 1 /\ IsFiniteSet({q})
  <2>1. \A q : {} \cup {q} = {q} /\ q \notin {}
    OBVIOUS
  <2>2. \A q : Cardinality({} \cup {q}) = 1 /\ IsFiniteSet({} \cup {q})
    BY <1>1, FS_AddElement
  <2> QED
    BY <2>1, <2>2
<1>3. \A p, q : p # q => Cardinality({q} \cup {p}) = 2
  <2>1. SUFFICES ASSUME NEW p, NEW q, p # q PROVE Cardinality({q} \cup {p}) = 2
    OBVIOUS
  <2> DEFINE S == {q}
  <2>2. p \notin S /\ Cardinality(S) = 1 /\ IsFiniteSet(S)
    BY <1>2, <2>1
  <2> HIDE DEF S
  <2>3. Cardinality(S \cup {p}) = Cardinality(S) + 1
    BY <2>2, FS_AddElement
  <2>4. Cardinality(S \cup {p}) = 2
    BY <2>2, <2>3
  <2> QED
    BY <2>4 DEF S
<1>4. PICK p, q : p # q /\ Quotes = {q} \cup {p}
  <2>1. Quotes = {"'"} \cup {"\""} /\ "'" # "\""
    BY DEF Quotes
  <2> QED
    BY <2>1
<1>5. o = {} \/ o = {p} \/ o = {q} \/ o = {q} \cup {p}
  BY <1>4
<1>6. Cardinality({p}) = 1 /\ Cardinality({q}) = 1 /\ Cardinality({q} \cup {p}) = 2
  BY <1>2, <1>3, <1>4
<1> QED
  BY <1>1, <1>5, <1>6

LEMMA StrFails ==
  ASSUME LexInv, lex = "scan", cur.tok = "STR", Cardinality(open) # 1
  PROVE  Fails(open)
<1>1. Cardinality(open) = 2 \/ open = {}
  BY OpenIs, ScanFacts
<1>2. CASE InString
  <2>1. open = began.open
    BY <1>2, ScanFacts DEF GoesOnStr
  <2> QED
    BY <1>1, <1>2, <2>1 DEF Fails, StringGoesOn
<1>3. CASE ~InString
  <2>1. open # {}
    BY <1>3, ScanFacts DEF IsNew
  <2> QED
    BY <1>1, <2>1 DEF Fails
<1> QED
  BY <1>2, <1>3

LEMMA TwoKeeps == LexInv /\ TwoOpen => LexInv'
<1> SUFFICES ASSUME LexInv, TwoOpen PROVE LexInv'
  OBVIOUS
<1>1. lex = "scan" /\ SameInput /\ Cardinality(open) = 2 /\ Give("aborted") /\ open' = open
  BY DEF TwoOpen, AtStart, In
<1>2. open' \subseteq Quotes /\ Fails(open')
  BY <1>1, ScanFacts DEF Fails
<1> QED
  BY <1>1, <1>2, GiveKeeps

LEMMA StrKeeps == LexInv /\ InStr => LexInv'
<1> SUFFICES ASSUME LexInv, InStr PROVE LexInv'
  OBVIOUS
<1> DEFINE x == place.pos
           w == IF Is("skip_str") THEN Moved(place) ELSE place
           t == [cur EXCEPT !.esc = ~@]
<1>1. lex = "scan" /\ cur.tok = "STR" /\ Here # NUL /\ SameInput /\ open' = open
  BY DEF InStr, In, Here
<1>2. /\ input \in Inputs /\ Size \in Nat /\ x \in 0..(Size - 1) /\ began.pos \in 0..Size
         /\ began.pos <= x
      /\ IsPlace(place) /\ IsToken(cur) /\ open \subseteq Quotes /\ IsPlace(Moved(place))
         /\ Moved(place).pos = x + 1
      /\ began.pos <= x + 1
  BY <1>1, ScanFacts
<1>3. \/ Cardinality(open) = 2 /\ Give("aborted")
      \/ (cur.esc \/ Here = "\\") /\ GoOn(t, Moved(place))
      \/ ~cur.esc /\ Here \in Quotes /\ Stop(cur, w, Here)
      \/ ~cur.esc /\ Here \notin Quotes /\ Here # "\\" /\ GoOn(cur, Moved(place))
  BY DEF InStr
<1>4. CASE Cardinality(open) = 2 /\ Give("aborted")
  BY <1>1, <1>2, <1>4, GiveKeeps DEF Fails
<1>5. CASE ~cur.esc /\ Here \in Quotes /\ Stop(cur, w, Here)
  <2>1. Reads("STR", cur.from, IF Is("skip_str") THEN Moved(place).pos ELSE place.pos)
    BY <1>1, <1>5, StrReads
  <2>2. w.pos = IF Is("skip_str") THEN Moved(place).pos ELSE place.pos
    OBVIOUS
  <2>3. IsPlace(w)
    BY <1>2
  <2> HIDE DEF w
  <2>4. Kind(cur, w, Here) = "STR" /\ "STR" \notin Quotes
    BY <1>1, KindIs DEF Quotes
  <2>5. ~Asserts(cur.tok, Here) => Fails(open)
    <3>1. Asserts("STR", Here) <=> Cardinality(open) = 1
      BY DEF Asserts, Comments
    <3> QED
      BY <1>1, <3>1, StrFails
  <2>6. OnLine(cur.from, cur.line, cur.col)
    BY <1>2 DEF IsToken
  <2>7. Reads(Kind(cur, w, Here), cur.from, w.pos)
    BY <2>1, <2>2, <2>4
  <2> QED
    BY <1>1, <1>2, <1>5, <2>3, <2>4, <2>5, <2>6, <2>7, StopKeeps
<1>6. ASSUME NEW u, IsToken(u), u.tok = "STR", u.from = cur.from, GoOn(u, Moved(place)),
             \A p \in Nat : Unquoted(p, x, cur.esc) => Unquoted(p, x + 1, u.esc)
      PROVE  LexInv'
  <2>1. CASE InString
    <3>1. cur.from = From /\ Unquoted(From, x, cur.esc) /\ open = began.open /\ From \in Nat
      <4>1. From \in 0..Size
        BY <2>1, ScanFacts DEF From, LexInv, Standing
      <4> QED
        BY <1>1, <1>2, <2>1, <4>1, ScanFacts DEF GoesOnStr
    <3>2. GoesOnStr(u, x + 1, open')
      BY <1>1, <1>6, <3>1 DEF GoesOnStr
    <3>3. Scanned(u, Moved(place).pos, open')
      BY <1>2, <1>6, <2>1, <3>2 DEF Scanned
    <3> QED
      BY <1>1, <1>2, <1>6, <3>3, GoOnKeeps
  <2>2. CASE ~InString
    <3>1. Is("skip_str") /\ open # {} /\ (Misled \/ InStrOf(cur.from, x, cur.esc))
      BY <1>1, <2>2, ScanFacts DEF IsNew, OnTrack
    <3>2. InStrOf(cur.from, x, cur.esc) => InStrOf(u.from, x + 1, u.esc)
      <4>1. SUFFICES ASSUME InStrOf(cur.from, x, cur.esc) PROVE InStrOf(u.from, x + 1, u.esc)
        OBVIOUS
      <4>2. cur.from \in 0..Size /\ cur.from + 1 \in Nat /\ cur.from < x /\ cur.from < x + 1
        BY <1>2, <4>1 DEF IsToken, OnLine, InStrOf
      <4>3. Unquoted(cur.from + 1, x + 1, u.esc)
        BY <1>6, <4>1, <4>2 DEF InStrOf
      <4> QED
        BY <1>6, <4>1, <4>2, <4>3 DEF InStrOf
    <3>3. Misled \/ OnTrack(u, x + 1)
      BY <1>6, <3>1, <3>2 DEF OnTrack
    <3> HIDE DEF x
    <3> QED
      BY <1>1, <1>2, <1>6, <2>2, <3>1, <3>3, GoOnNew
  <2> QED
    BY <2>1, <2>2
<1>7. CASE (cur.esc \/ Here = "\\") /\ GoOn(t, Moved(place))
  <2>1. cur.esc \in BOOLEAN /\ x \in Nat /\ "\\" \notin Quotes
    <3>1. cur.esc \in BOOLEAN
      BY <1>2 DEF IsToken
    <3>2. "\\" \notin Quotes
      BY DEF Quotes
    <3> QED
      BY <1>2, <3>1, <3>2
  <2>2. t = [tok |-> cur.tok, from |-> cur.from, line |-> cur.line, col |-> cur.col, esc |-> ~cur.esc]
    <3> DEFINE b == ~cur.esc
    <3>1. t = [cur EXCEPT !.esc = b]
      OBVIOUS
    <3>2. cur = [tok |-> cur.tok, from |-> cur.from, line |-> cur.line, col |-> cur.col, esc |-> cur.esc]
      BY <1>2 DEF IsToken
    <3> HIDE DEF b, t
    <3>3. t = [tok |-> cur.tok, from |-> cur.from, line |-> cur.line, col |-> cur.col, esc |-> b]
      BY <3>1, <3>2
    <3> QED
      BY <3>3 DEF b
  <2>3. t.tok = "STR" /\ t.from = cur.from /\ t.esc = (~cur.esc) /\ t.line = cur.line /\ t.col = cur.col
    BY <1>1, <2>2
  <2>4. IsToken(t)
    <3>1. (~cur.esc) \in BOOLEAN
      OBVIOUS
    <3>2. t.esc \in BOOLEAN
      BY <2>3, <3>1
    <3>3. t = [tok |-> t.tok, from |-> t.from, line |-> t.line, col |-> t.col, esc |-> t.esc]
      BY <1>1, <2>2, <2>3, Zenon
    <3> HIDE DEF t
    <3> QED
      BY <1>1, <1>2, <2>3, <3>2, <3>3 DEF IsToken
  <2>5. ASSUME NEW p \in Nat, Unquoted(p, x, cur.esc) PROVE Unquoted(p, x + 1, t.esc)
    <3>1. cur.esc \/ Char(x) = "\\"
      BY <1>7 DEF Here
    <3>2. cur.esc \/ Char(x) \notin Quotes
      BY <2>1, <3>1
    <3>3. Unquoted(p, x + 1, ~cur.esc)
      BY <2>1, <2>5, <3>1, <3>2, UnquotedNext
    <3> HIDE DEF t
    <3> QED
      BY <2>3, <3>3, Zenon
  <2> HIDE DEF t
  <2> QED
    BY <1>6, <1>7, <2>3, <2>4, <2>5
<1>8. CASE ~cur.esc /\ Here \notin Quotes /\ Here # "\\" /\ GoOn(cur, Moved(place))
  <2>1. cur.esc \in BOOLEAN /\ x \in Nat
    BY <1>2 DEF IsToken
  <2>2. ASSUME NEW p \in Nat, Unquoted(p, x, cur.esc) PROVE Unquoted(p, x + 1, cur.esc)
    BY <1>8, <2>1, <2>2, UnquotedNext DEF Here
  <2> QED
    BY <1>1, <1>2, <1>6, <1>8, <2>2
<1> QED
  BY <1>3, <1>4, <1>5, <1>7, <1>8

(* The comment that was to be skipped ended where the next token may begin. *)
LEMMA SkippedEnds ==
  ASSUME input \in Inputs, NEW p, Begins(p), CommentAt(p) # "NONE", Is("skip_comment"),
         NEW n \in CommentStops(p), NoStop(p, n)
  PROVE  Begins(n)
<1>1. p \in 0..Size /\ TokenAt(p) = From
  BY DEF Begins
<1>2. CommentEnd(p) = n /\ n \in 0..Size /\ CommentEnd(p) \in p..Size
  BY <1>1, StopsIn DEF NoStop
<1>3. Jumps(p) /\ Jump(p) = n
  <2>1. ~IsSkipChar(Char(p))
    BY NoComment DEF IsSkipChar
  <2> QED
    BY <1>2, <2>1 DEF Jumps, Jump, SkippedAt
<1>4. TokenAt(n) = From
  BY <1>1, <1>3, TokenAtIs
<1> QED
  BY <1>2, <1>4 DEF Begins

(* One that does not end is a token.                                       *)
LEMMA CommentReads ==
  ASSUME input \in Inputs, ~InString, NEW p, Begins(p), CommentAt(p) # "NONE", CommentStops(p) = {}
  PROVE  Expected = <<CommentAt(p), Size>> /\ From = p
<1>1. From = p
  <2>1. ~IsSkipChar(Char(p)) /\ ~SkippedAt(p)
    BY NoComment DEF IsSkipChar, SkippedAt
  <2> QED
    BY <2>1, BeginsHere
<1>2. CommentEnd(p) = Size
  BY StopsIn DEF Begins
<1> QED
  BY <1>1, <1>2, ProperIs DEF Expected

LEMMA NoStopBehind ==
  ASSUME input \in Inputs, NEW p \in 0..Size, NEW n \in Int, n > Size, NoStop(p, n)
  PROVE  CommentStops(p) = {}
<1>1. Size \in Nat /\ CommentStops(p) \subseteq (p + 1)..Size
  BY TextIs, StopsIn
<1> QED
  BY <1>1 DEF NoStop

LEMMA EndsKeeps == LexInv /\ TextEnds => LexInv'
<1> SUFFICES ASSUME LexInv, TextEnds PROVE LexInv'
  OBVIOUS
<1>1. lex = "scan" /\ Here = NUL /\ Stop(cur, place, NUL) /\ open' = open /\ SameInput
  BY DEF TextEnds
<1>2. /\ input \in Inputs /\ Size \in Nat /\ place.pos = Size /\ Size \in 0..Size /\ Char(Size) = NUL
      /\ IsPlace(place) /\ IsToken(cur) /\ open \subseteq Quotes
      /\ OnLine(cur.from, cur.line, cur.col) /\ cur.tok \in {"NONE", "IDENT", "STR"} \cup Comments
  BY <1>1, ScanFacts, TextIs DEF IsToken
<1>3. Kind(cur, place, NUL) \notin Quotes
  <2>1. cur.tok \notin Quotes
    BY <1>2 DEF Quotes, Comments
  <2> QED
    BY <2>1, KindIs
<1>4. ~Asserts(cur.tok, NUL) => Fails(open)
  <2>1. CASE cur.tok = "STR"
    <3>1. Asserts("STR", NUL) <=> Cardinality(open) = 1
      BY DEF Asserts, Comments
    <3> QED
      BY <1>1, <2>1, <3>1, StrFails
  <2>2. CASE cur.tok # "STR"
    BY <2>2 DEF Asserts
  <2> QED
    BY <2>1, <2>2
<1>5. Reads(Kind(cur, place, NUL), cur.from, place.pos)
  <2>1. CASE cur.tok = "STR"
    <3>1. Kind(cur, place, NUL) = "STR"
      BY <2>1, KindIs
    <3>2. Moved(place).pos = place.pos
      BY <1>1, <1>2, MovedIs DEF Here
    <3>3. Reads("STR", cur.from, IF Is("skip_str") THEN Moved(place).pos ELSE place.pos)
      BY <1>1, <2>1, StrReads
    <3> QED
      BY <3>1, <3>2, <3>3
  <2>2. CASE cur.tok # "STR" /\ Misled
    BY <2>2 DEF Reads
  <2>3. CASE cur.tok # "STR" /\ ~Misled
    <3>1. ~InString /\ OnTrack(cur, place.pos)
      BY <1>1, <2>3, ScanFacts DEF GoesOnStr, IsNew
    <3>2. CASE cur.tok = "NONE"
      <4>1. Begins(Size)
        BY <1>2, <3>1, <3>2 DEF OnTrack, Comments
      <4>2. ~IsSkipChar(Char(Size)) /\ ~SkippedAt(Size)
        <5>1. Char(Size) \notin {"#", "/", " ", "\n"}
          BY <1>2 DEF NUL
        <5> QED
          BY <5>1, NoComment DEF IsSkipChar
      <4>3. From = Size
        BY <1>2, <4>1, <4>2, BeginsHere
      <4>4. Expected = <<"NONE", Size>>
        BY <1>2, <3>1, <4>3, ProperIs DEF Expected
      <4>5. Kind(cur, place, NUL) = "NONE"
        BY <3>2, KindIs
      <4> QED
        BY <1>2, <4>4, <4>5 DEF Reads
    <3>3. CASE cur.tok = "IDENT"
      <4>1. InWord(cur.from, Size)
        BY <1>2, <3>1, <3>3 DEF OnTrack, Comments
      <4>2. ~IsIdent(Char(Size))
        BY <1>2 DEF IsIdent, Letters, Digits, NUL
      <4>3. Reads(Identified(SubSeq(Text, cur.from + 1, Size)), cur.from, Size)
        BY <1>2, <3>1, <4>1, <4>2, WordReads
      <4> QED
        BY <1>2, <3>3, <4>3, KindIs
    <3>4. CASE cur.tok \in Comments
      <4>1. PICK i \in 1..2 : InCommentOf(cur.from, Size, cur.tok, i)
        BY <1>2, <3>1, <3>4 DEF OnTrack, Comments
      <4>2. Begins(cur.from) /\ CommentAt(cur.from) = cur.tok /\ NoStop(cur.from, Size + i)
            /\ cur.from \in 0..Size
        BY <4>1 DEF InCommentOf, Begins
      <4>3. CommentStops(cur.from) = {}
        <5>1. Size + i > Size /\ Size + i \in Int
          BY <1>2
        <5> QED
          BY <1>2, <4>2, <5>1, NoStopBehind
      <4>4. cur.tok \notin {"NONE", "IDENT", "CHAR"}
        BY <3>4 DEF Comments
      <4>5. Expected = <<cur.tok, Size>> /\ From = cur.from
        BY <1>2, <3>1, <4>2, <4>3, <4>4, CommentReads
      <4>6. Kind(cur, place, NUL) = cur.tok
        BY <4>4, KindIs
      <4> QED
        BY <1>2, <4>5, <4>6 DEF Reads
    <3> QED
      BY <1>2, <2>3, <3>2, <3>3, <3>4
  <2> QED
    BY <2>1, <2>2, <2>3
<1> QED
  BY <1>1, <1>2, <1>3, <1>4, <1>5, StopKeeps

(* At the end of a comment.                                                *)
LEMMA CommentEndKeeps ==
  ASSUME LexInv, lex = "scan", SameInput, open' = open, cur.tok \in Comments,
         NEW w, NEW chr, CommentEnds(w, chr), IsPlace(w), began.pos <= w.pos, chr # NUL,
         Is("skip_comment") => Misled \/ Begins(w.pos)
  PROVE  LexInv'
<1> DEFINE t == [cur EXCEPT !.tok = "NONE"]
<1>1. ~InString /\ open = began.open /\ open \subseteq Quotes /\ IsToken(cur)
      /\ OnLine(cur.from, cur.line, cur.col)
  <2>1. cur.tok # "STR"
    BY DEF Comments
  <2> QED
    BY <2>1, ScanFacts DEF GoesOnStr, IsNew, IsToken
<1>2. CASE Is("skip_comment")
  <2>1. GoOn(t, w)
    BY <1>2 DEF CommentEnds
  <2>2. IsToken(t) /\ t.tok = "NONE"
    <3>1. cur = [tok |-> cur.tok, from |-> cur.from, line |-> cur.line, col |-> cur.col, esc |-> cur.esc]
          /\ cur.esc \in BOOLEAN
      BY <1>1 DEF IsToken
    <3>2. t = [tok |-> "NONE", from |-> cur.from, line |-> cur.line, col |-> cur.col, esc |-> cur.esc]
      BY <3>1
    <3>3. t.tok = "NONE" /\ t.from = cur.from /\ t.line = cur.line /\ t.col = cur.col /\ t.esc = cur.esc
      BY <3>2
    <3> HIDE DEF t
    <3>4. t.esc \in BOOLEAN
      BY <3>1, <3>3
    <3>5. t = [tok |-> t.tok, from |-> t.from, line |-> t.line, col |-> t.col, esc |-> t.esc]
      BY <3>2, <3>3
    <3> QED
      BY <1>1, <3>3, <3>4, <3>5 DEF IsToken
  <2>3. Misled \/ OnTrack(t, w.pos)
    BY <1>2, <2>2 DEF OnTrack
  <2> HIDE DEF t
  <2> QED
    BY <1>1, <2>1, <2>2, <2>3, GoOnNew
<1>3. CASE ~Is("skip_comment")
  <2>1. Stop(cur, w, chr)
    BY <1>3 DEF CommentEnds
  <2>2. ~Asserts(cur.tok, chr)
    BY DEF Asserts, Comments
  <2>3. Fails(open')
    BY <1>3 DEF Fails
  <2>4. Kind(cur, w, chr) \notin Quotes
    <3>1. cur.tok \notin Quotes
      BY DEF Comments, Quotes
    <3> QED
      BY <3>1, KindIs
  <2> QED
    BY <1>1, <2>1, <2>2, <2>3, <2>4, StopKeeps
<1> QED
  BY <1>2, <1>3

(* On in a comment.                                                        *)
LEMMA CommentGoesOn ==
  ASSUME LexInv, lex = "scan", SameInput, open' = open, cur.tok \in Comments,
         NEW w, GoOn(cur, w), IsPlace(w), began.pos <= w.pos, Misled \/ OnTrack(cur, w.pos)
  PROVE  LexInv'
<1>1. cur.tok # "STR"
  BY DEF Comments
<1>2. ~InString /\ open = began.open /\ open \subseteq Quotes /\ IsToken(cur)
  BY <1>1, ScanFacts DEF GoesOnStr, IsNew
<1> QED
  BY <1>1, <1>2, GoOnNew

LEMMA SingleKeeps == LexInv /\ InCommentSingle => LexInv'
<1> SUFFICES ASSUME LexInv, InCommentSingle PROVE LexInv'
  OBVIOUS
<1> DEFINE x == place.pos
           p == cur.from
<1>1. lex = "scan" /\ cur.tok = "COMMENT_SINGLE" /\ Here # NUL /\ SameInput /\ open' = open
      /\ IF Here = "\n" THEN CommentEnds(Moved(place), Here) ELSE GoOn(cur, Moved(place))
  BY DEF InCommentSingle, In, Here
<1>2. /\ input \in Inputs /\ Size \in Nat /\ x \in 0..(Size - 1) /\ began.pos <= x
         /\ began.pos \in 0..Size
      /\ IsPlace(Moved(place)) /\ Moved(place).pos = x + 1 /\ began.pos <= x + 1 /\ Char(x) = Here
      /\ cur.tok \in Comments /\ p \in 0..Size
  BY <1>1, ScanFacts DEF IsToken, OnLine, Comments, Here
<1>3. Misled \/ InCommentOf(p, x, "COMMENT_SINGLE", 1)
  BY <1>1, ScanFacts DEF IsNew, OnTrack, GoesOnStr
<1>4. ASSUME InCommentOf(p, x, "COMMENT_SINGLE", 1)
      PROVE  /\ Begins(p) /\ CommentAt(p) = "COMMENT_SINGLE" /\ p + 1 <= x /\ NoStop(p, x + 1)
             /\ \A q : q \in CommentStops(p) <=> q - 1 \in p..(Size - 1) /\ Char(q - 1) = "\n" /\ q \in Nat
  BY <1>2, <1>4, StopsAre DEF InCommentOf
<1>5. CASE Here = "\n"
  <2>1. InCommentOf(p, x, "COMMENT_SINGLE", 1) /\ Is("skip_comment") => Begins(x + 1)
    <3>1. SUFFICES ASSUME InCommentOf(p, x, "COMMENT_SINGLE", 1), Is("skip_comment") PROVE Begins(x + 1)
      OBVIOUS
    <3> DEFINE n == x + 1
    <3>2. n - 1 = x /\ x \in p..(Size - 1) /\ n \in Nat
      BY <1>2, <1>4, <3>1
    <3>3. n \in CommentStops(p)
      BY <1>2, <1>4, <1>5, <3>1, <3>2
    <3>4. NoStop(p, n)
      BY <1>4, <3>1
    <3> HIDE DEF n
    <3>5. Begins(n)
      BY <1>2, <1>4, <3>1, <3>3, <3>4, SkippedEnds
    <3> QED
      BY <3>5 DEF n
  <2>2. Is("skip_comment") => Misled \/ Begins(Moved(place).pos)
    BY <1>2, <1>3, <2>1
  <2>3. CommentEnds(Moved(place), Here) /\ began.pos <= Moved(place).pos
    BY <1>1, <1>2, <1>5
  <2> QED
    BY <1>1, <1>2, <2>2, <2>3, CommentEndKeeps
<1>6. CASE Here # "\n"
  <2>1. InCommentOf(p, x, "COMMENT_SINGLE", 1) => InCommentOf(p, x + 1, "COMMENT_SINGLE", 1)
    <3>1. SUFFICES ASSUME InCommentOf(p, x, "COMMENT_SINGLE", 1)
                   PROVE  InCommentOf(p, x + 1, "COMMENT_SINGLE", 1)
      OBVIOUS
    <3>2. \A q \in CommentStops(p) : q >= x + 1 + 1
      <4>1. SUFFICES ASSUME NEW q \in CommentStops(p) PROVE q >= x + 1 + 1
        OBVIOUS
      <4>2. q \in Nat /\ q >= x + 1 /\ Char(q - 1) = "\n"
        BY <1>4, <3>1 DEF NoStop
      <4>3. q # x + 1
        <5>1. q = x + 1 => q - 1 = x
          BY <1>2
        <5> QED
          BY <1>2, <1>6, <4>2, <5>1
      <4> QED
        BY <1>2, <4>2, <4>3
    <3>3. p + 1 <= x + 1
      BY <1>2, <1>4, <3>1
    <3> QED
      BY <1>4, <3>1, <3>2, <3>3 DEF InCommentOf, NoStop
  <2>2. Misled \/ OnTrack(cur, Moved(place).pos)
    BY <1>1, <1>2, <1>3, <2>1 DEF OnTrack
  <2>3. GoOn(cur, Moved(place)) /\ began.pos <= Moved(place).pos
    BY <1>1, <1>2, <1>6
  <2> QED
    BY <1>1, <1>2, <2>2, <2>3, CommentGoesOn
<1> QED
  BY <1>5, <1>6

(* Two characters further.                                                 *)
LEMMA TwoOn ==
  ASSUME LexInv, lex = "scan", Here # NUL
  PROVE  LET x == place.pos
             w == Moved(place) IN
         /\ IsPlace(Moved(w)) /\ x + 1 \in 0..Size
         /\ x + 1 = Size => Moved(w).pos = x + 1 /\ Ahead(w.pos) = input.beyond /\ Char(x + 1) = NUL
         /\ x + 1 < Size => Moved(w).pos = x + 2 /\ Ahead(w.pos) = Char(x + 1) /\ x + 2 \in 0..Size
<1> DEFINE x == place.pos
           w == Moved(place)
<1>1. /\ input \in Inputs /\ Size \in Nat /\ x \in 0..(Size - 1) /\ IsPlace(w) /\ w.pos = x + 1
  BY ScanFacts
<1> HIDE DEF x, w
<1>2. IsPlace(Moved(w)) /\ Moved(w).pos = IF Char(x + 1) = NUL THEN x + 1 ELSE x + 1 + 1
  BY <1>1, MovedIs
<1>3. x + 1 \in 0..Size /\ (x + 1 = Size => Char(x + 1) = NUL)
      /\ (x + 1 < Size => Char(x + 1) # NUL /\ Ahead(x + 1) = Char(x + 1) /\ x + 2 \in 0..Size)
  <2>1. x + 1 \in 0..Size /\ (x + 1 < Size => x + 1 \in 0..(Size - 1) /\ x + 2 \in 0..Size)
    BY <1>1
  <2>2. x + 1 < Size => Char(x + 1) # NUL /\ Ahead(x + 1) = Char(x + 1)
    BY <1>1, <2>1, TextIs
  <2>3. x + 1 = Size => Char(x + 1) = NUL
    BY <1>1, TextIs
  <2> QED
    BY <2>1, <2>2, <2>3
<1>4. x + 1 = Size => Ahead(x + 1) = input.beyond
  BY DEF Ahead
<1>5. x + 1 + 1 = x + 2
  BY <1>1
<1> QED
  BY <1>1, <1>2, <1>3, <1>4, <1>5 DEF x, w

(* What ends behind p in a comment that stops there is even further on.    *)
LEMMA ExpectedBehind ==
  ASSUME LexInv, ~InString, NEW p, Begins(p), CommentAt(p) # "NONE", NEW n \in CommentStops(p), NoStop(p, n)
  PROVE  Expected[2] \in n..Size
<1>1. input \in Inputs /\ Size \in Nat /\ p \in 0..Size /\ From \in 0..Size /\ n \in 0..Size
  <2>1. p \in 0..Size /\ input \in Inputs /\ Size \in Nat
    BY TextIs DEF LexInv, Begins
  <2> QED
    BY <2>1, FromIs, StopsIn
<1>2. CASE Is("skip_comment")
  <2>1. Begins(n)
    BY <1>1, <1>2, SkippedEnds
  <2>2. From \in n..Size
    BY <1>1, <2>1, TokenAtIs DEF Begins
  <2>3. Expected[2] \in From..Size
    BY <1>1, ProperEnds DEF Expected
  <2> QED
    BY <1>1, <2>2, <2>3
<1>3. CASE ~Is("skip_comment")
  <2>1. From = p
    <3>1. ~IsSkipChar(Char(p)) /\ ~SkippedAt(p)
      BY <1>3, NoComment DEF IsSkipChar, SkippedAt
    <3> QED
      BY <1>1, <3>1, BeginsHere
  <2>2. Expected = <<CommentAt(p), CommentEnd(p)>>
    BY <2>1, ProperIs DEF Expected
  <2>3. CommentEnd(p) = n
    BY <1>1, StopsIn DEF NoStop
  <2> QED
    BY <1>1, <2>2, <2>3
<1> QED
  BY <1>2, <1>3

LEMMA MultiKeeps == LexInv /\ InCommentMulti => LexInv'
<1> SUFFICES ASSUME LexInv, InCommentMulti PROVE LexInv'
  OBVIOUS
<1> DEFINE x == place.pos
           p == cur.from
           w == Moved(place)
<1>1. lex = "scan" /\ cur.tok = "COMMENT_MULTI" /\ Here # NUL /\ SameInput /\ open' = open
      /\ \/ Here # "*" /\ GoOn(cur, w)
         \/ Here = "*" /\ Ahead(w.pos) = "/" /\ CommentEnds(Moved(w), "/")
         \/ Here = "*" /\ Ahead(w.pos) # "/" /\ GoOn(cur, Moved(w))
  BY DEF InCommentMulti, In, Here
<1>2. /\ input \in Inputs /\ Size \in Nat /\ x \in 0..(Size - 1) /\ began.pos <= x
         /\ began.pos \in 0..Size
      /\ IsPlace(w) /\ w.pos = x + 1 /\ Char(x) = Here
      /\ cur.tok \in Comments /\ p \in 0..Size
  BY <1>1, ScanFacts DEF IsToken, OnLine, Comments, Here
<1>3. (Misled \/ InCommentOf(p, x, "COMMENT_MULTI", 2)) /\ ~InString
  BY <1>1, ScanFacts DEF IsNew, OnTrack, GoesOnStr
<1>4. ASSUME InCommentOf(p, x, "COMMENT_MULTI", 2)
      PROVE  /\ Begins(p) /\ CommentAt(p) = "COMMENT_MULTI" /\ p + 2 <= x /\ NoStop(p, x + 2)
             /\ \A q : q \in CommentStops(p) <=> q - 2 \in (p + 2)..(Size - 2) /\ Char(q - 2) = "*"
                                               /\ Char(q - 1) = "/" /\ q \in Nat
  BY <1>2, <1>4, StopsAre DEF InCommentOf
<1>5. /\ IsPlace(Moved(w)) /\ x + 1 \in 0..Size
      /\ x + 1 = Size => Moved(w).pos = x + 1 /\ Ahead(w.pos) = input.beyond /\ Char(x + 1) = NUL
      /\ x + 1 < Size => Moved(w).pos = x + 2 /\ Ahead(w.pos) = Char(x + 1) /\ x + 2 \in 0..Size
  BY <1>1, TwoOn
<1>6. began.pos <= x + 1 /\ began.pos <= Moved(w).pos /\ (x + 1 = Size \/ x + 1 < Size)
  BY <1>2, <1>5
<1> HIDE DEF w
<1>7. ASSUME InCommentOf(p, x, "COMMENT_MULTI", 2), NEW n \in Nat, n >= x, n <= Size,
             \A q \in CommentStops(p) : q >= n + 2
      PROVE  InCommentOf(p, n, "COMMENT_MULTI", 2)
  <2>1. p + 2 <= n
    BY <1>2, <1>4, <1>7
  <2> QED
    BY <1>4, <1>7, <2>1 DEF InCommentOf, NoStop
<1>8. CASE Here # "*" /\ GoOn(cur, w)
  <2>1. InCommentOf(p, x, "COMMENT_MULTI", 2) => InCommentOf(p, x + 1, "COMMENT_MULTI", 2)
    <3>1. SUFFICES ASSUME InCommentOf(p, x, "COMMENT_MULTI", 2)
                   PROVE  InCommentOf(p, x + 1, "COMMENT_MULTI", 2)
      OBVIOUS
    <3>2. ASSUME NEW q \in CommentStops(p) PROVE q >= x + 1 + 2
      <4>1. q \in Nat /\ q >= x + 2 /\ Char(q - 2) = "*"
        BY <1>4, <3>1 DEF NoStop
      <4>2. q = x + 2 => q - 2 = x
        BY <1>2
      <4> QED
        BY <1>2, <1>8, <4>1, <4>2
    <3> QED
      BY <1>2, <1>7, <3>1, <3>2
  <2>2. Misled \/ OnTrack(cur, w.pos)
    BY <1>1, <1>2, <1>3, <2>1 DEF OnTrack
  <2> QED
    BY <1>1, <1>2, <1>6, <1>8, <2>2, CommentGoesOn
<1>9. CASE Here = "*" /\ Ahead(w.pos) = "/" /\ CommentEnds(Moved(w), "/")
  <2>1. InCommentOf(p, x, "COMMENT_MULTI", 2) /\ Is("skip_comment") => Misled \/ Begins(Moved(w).pos)
    <3>1. SUFFICES ASSUME InCommentOf(p, x, "COMMENT_MULTI", 2), Is("skip_comment")
                   PROVE  Misled \/ Begins(Moved(w).pos)
      OBVIOUS
    <3>2. CASE x + 1 < Size
      <4> DEFINE n == x + 2
      <4>1. n - 2 = x /\ n - 1 = x + 1 /\ x \in (p + 2)..(Size - 2) /\ n \in Nat
        BY <1>2, <1>4, <3>1, <3>2
      <4>2. n \in CommentStops(p)
        BY <1>2, <1>4, <1>5, <1>9, <3>1, <3>2, <4>1
      <4>3. NoStop(p, n)
        BY <1>4, <3>1
      <4>4. Moved(w).pos = n
        BY <1>5, <3>2
      <4> HIDE DEF n
      <4>5. Begins(n)
        BY <1>2, <1>4, <3>1, <4>2, <4>3, SkippedEnds
      <4> QED
        BY <4>4, <4>5
    <3>3. CASE x + 1 = Size
      <4>1. CommentStops(p) = {}
        <5>1. x + 2 \in Int /\ x + 2 > Size
          BY <1>2, <3>3
        <5> QED
          BY <1>2, <1>4, <3>1, <5>1, NoStopBehind
      <4>2. Expected = <<"COMMENT_MULTI", Size>> /\ From = p
        BY <1>2, <1>3, <1>4, <3>1, <4>1, CommentReads
      <4>3. Char(p) = "/"
        BY <1>4, <3>1 DEF CommentAt
      <4>4. LooksBehind
        BY <1>5, <1>9, <3>3, <4>2, <4>3 DEF LooksBehind, NUL
      <4> QED
        BY <4>4 DEF Misled
    <3> QED
      BY <1>6, <3>2, <3>3
  <2>2. Is("skip_comment") => Misled \/ Begins(Moved(w).pos)
    BY <1>3, <2>1
  <2>3. "/" # NUL
    BY DEF NUL
  <2> QED
    BY <1>1, <1>2, <1>5, <1>6, <1>9, <2>2, <2>3, CommentEndKeeps
<1>10. CASE Here = "*" /\ Ahead(w.pos) # "/" /\ GoOn(cur, Moved(w))
  <2>1. InCommentOf(p, x, "COMMENT_MULTI", 2) => Misled \/ InCommentOf(p, Moved(w).pos, "COMMENT_MULTI", 2)
    <3>1. SUFFICES ASSUME InCommentOf(p, x, "COMMENT_MULTI", 2), ~Misled
                   PROVE  InCommentOf(p, Moved(w).pos, "COMMENT_MULTI", 2)
      OBVIOUS
    <3>2. CASE x + 1 = Size
      <4>1. CommentStops(p) = {}
        <5>1. x + 2 \in Int /\ x + 2 > Size
          BY <1>2, <3>2
        <5> QED
          BY <1>2, <1>4, <3>1, <5>1, NoStopBehind
      <4>2. InCommentOf(p, x + 1, "COMMENT_MULTI", 2)
        BY <1>2, <1>7, <3>1, <3>2, <4>1
      <4> QED
        BY <1>5, <3>2, <4>2
    <3>3. CASE x + 1 < Size
      <4>1. ASSUME NEW q \in CommentStops(p) PROVE q # x + 2 /\ q # x + 3
        <5>1. q \in Nat /\ q - 2 \in (p + 2)..(Size - 2) /\ Char(q - 2) = "*" /\ Char(q - 1) = "/"
          BY <1>4, <3>1
        <5>2. q # x + 2
          <6>1. q = x + 2 => q - 1 = x + 1
            BY <1>2
          <6> QED
            BY <1>5, <1>10, <3>3, <5>1, <6>1
        <5>3. ASSUME q = x + 3 PROVE FALSE
          <6>1. q - 2 = x + 1 /\ q - 1 = x + 2
            BY <1>2, <5>3
          <6>2. ASSUME NEW r \in CommentStops(p) PROVE r >= q
            <7>1. r \in Nat /\ r >= x + 2 /\ Char(r - 1) = "/"
              BY <1>4, <3>1 DEF NoStop
            <7>2. r = x + 2 => r - 1 = x + 1
              BY <1>2
            <7> QED
              BY <1>2, <1>5, <1>10, <3>3, <5>3, <7>1, <7>2
          <6>3. Expected[2] \in q..Size
            BY <1>2, <1>3, <1>4, <3>1, <6>2, ExpectedBehind DEF NoStop
          <6>4. x \in began.pos..(Expected[2] - 3)
            BY <1>2, <5>3, <6>3
          <6>5. EvenStars
            BY <1>2, <1>10, <5>1, <6>1, <6>4 DEF EvenStars
          <6> QED
            BY <3>1, <6>5 DEF Misled
        <5> QED
          BY <5>2, <5>3
      <4>2. ASSUME NEW q \in CommentStops(p) PROVE q >= x + 2 + 2
        <5>1. q \in Nat /\ q >= x + 2
          BY <1>4, <3>1 DEF NoStop
        <5> QED
          BY <1>2, <4>1, <5>1
      <4>3. InCommentOf(p, x + 2, "COMMENT_MULTI", 2)
        <5>1. x + 2 \in Nat /\ x + 2 >= x /\ x + 2 <= Size
          BY <1>2, <3>3
        <5> QED
          BY <1>7, <3>1, <4>2, <5>1
      <4> QED
        BY <1>5, <3>3, <4>3
    <3> QED
      BY <1>6, <3>2, <3>3
  <2>2. Misled \/ OnTrack(cur, Moved(w).pos)
    BY <1>1, <1>3, <2>1 DEF OnTrack
  <2> QED
    BY <1>1, <1>2, <1>5, <1>6, <1>10, <2>2, CommentGoesOn
<1> QED
  BY <1>1, <1>8, <1>9, <1>10

(* A token begins.                                                         *)
LEMMA StartFacts ==
  ASSUME LexInv, Starts
  PROVE  /\ lex = "scan" /\ SameInput /\ Here # NUL /\ ~InString /\ open = began.open
         /\ Misled \/ Begins(place.pos)
         /\ input \in Inputs /\ Size \in Nat /\ place.pos \in 0..(Size - 1) /\ place.pos \in 0..Size
         /\ began.pos <= place.pos /\ began.pos <= place.pos + 1 /\ began.pos \in 0..Size
         /\ open \subseteq Quotes /\ IsPlace(place) /\ IsPlace(Moved(place))
            /\ Moved(place).pos = place.pos + 1
         /\ Char(place.pos) = Here
<1>1. lex = "scan" /\ SameInput /\ Here # NUL /\ cur.tok = "NONE" /\ Char(place.pos) = Here
  BY DEF Starts, AtStart, In, Here
<1>2. /\ input \in Inputs /\ Size \in Nat /\ place.pos \in 0..(Size - 1) /\ place.pos \in 0..Size
      /\ began.pos <= place.pos /\ began.pos \in 0..Size
      /\ open \subseteq Quotes /\ IsPlace(place) /\ IsPlace(Moved(place))
         /\ Moved(place).pos = place.pos + 1
  BY <1>1, ScanFacts
<1>3. ~InString /\ open = began.open /\ (Misled \/ Begins(place.pos))
  BY <1>1, ScanFacts DEF GoesOnStr, IsNew, OnTrack, Comments
<1> QED
  BY <1>1, <1>2, <1>3

LEMMA TokenIs ==
  ASSUME IsPlace(place), NEW tok
  PROVE  /\ Token(tok).tok = tok /\ Token(tok).from = place.pos /\ Token(tok).esc = FALSE
         /\ OnLine(Token(tok).from, Token(tok).line, Token(tok).col)
         /\ tok \in {"NONE", "IDENT", "STR"} \cup Comments => IsToken(Token(tok))
<1> DEFINE t == Token(tok)
<1>1. t = [tok |-> tok, from |-> place.pos, line |-> place.line, col |-> place.col, esc |-> FALSE]
  BY DEF Token
<1>2. t.tok = tok /\ t.from = place.pos /\ t.line = place.line /\ t.col = place.col
      /\ t.esc = FALSE /\ t.esc \in BOOLEAN
  BY <1>1
<1>3. OnLine(t.from, t.line, t.col)
  BY <1>2 DEF IsPlace
<1>4. t = [tok |-> t.tok, from |-> t.from, line |-> t.line, col |-> t.col, esc |-> t.esc]
  BY <1>1, <1>2
<1> HIDE DEF t
<1>5. tok \in {"NONE", "IDENT", "STR"} \cup Comments => IsToken(t)
  BY <1>2, <1>3, <1>4 DEF IsToken
<1> QED
  BY <1>2, <1>3, <1>5 DEF t

LEMMA StartsOn ==
  ASSUME LexInv, Starts, open' \subseteq Quotes, NEW tok \in {"NONE", "IDENT", "STR"} \cup Comments,
         NEW w, GoOn(Token(tok), w), IsPlace(w), began.pos <= w.pos, Misled \/ OnTrack(Token(tok), w.pos),
         IF tok = "STR" THEN open' # {} /\ Is("skip_str") ELSE open' = open
  PROVE  LexInv'
<1> DEFINE t == Token(tok)
<1>1. t.tok = tok /\ IsToken(t)
  BY StartFacts, TokenIs
<1>2. lex = "scan" /\ SameInput /\ ~InString /\ open = began.open
  BY StartFacts
<1>3. (t.tok = "STR" => open' # {} /\ Is("skip_str")) /\ (t.tok # "STR" => open' = began.open)
  BY <1>1, <1>2
<1> HIDE DEF t
<1>4. GoOn(t, w) /\ (Misled \/ OnTrack(t, w.pos))
  BY DEF t
<1> QED
  BY <1>1, <1>2, <1>3, <1>4, GoOnNew

LEMMA StartsEnd ==
  ASSUME LexInv, Starts, open' \subseteq Quotes, NEW tok, tok \notin {"STR", "NONE", "IDENT"} \cup Comments,
         tok \in Quotes => ~Is("skip_str"),
         NEW w, NEW chr, Stop(Token(tok), w, chr), IsPlace(w),
         Misled \/ Reads(IF tok = "CHAR" /\ chr = "(" THEN "LEFT_PAREN" ELSE tok, place.pos, w.pos)
  PROVE  LexInv'
<1> DEFINE t == Token(tok)
<1>1. t.tok = tok /\ t.from = place.pos /\ OnLine(t.from, t.line, t.col) /\ Stop(t, w, chr)
  BY StartFacts, TokenIs
<1>2. SameInput
  BY StartFacts
<1> HIDE DEF t
<1>3. Kind(t, w, chr) = IF tok = "CHAR" /\ chr = "(" THEN "LEFT_PAREN" ELSE tok
  BY <1>1, KindIs
<1>4. Kind(t, w, chr) \in Quotes => ~Is("skip_str")
  BY <1>1, KindIs
<1>5. Reads(Kind(t, w, chr), t.from, w.pos)
  BY <1>1, <1>3 DEF Reads
<1>6. Asserts(t.tok, chr)
  BY <1>1 DEF Asserts
<1> QED
  BY <1>1, <1>2, <1>4, <1>5, <1>6, StopKeeps

(* A character that is a token, begins a word, or is passed over.          *)
LEMMA CharKeeps ==
  ASSUME LexInv, Starts, open' \subseteq Quotes, NEW chr, StartChar(place, chr),
         open' = open \/ ~(IsIdentFirst(chr) \/ IsSkipChar(chr)),
         \/ Misled
         \/ /\ chr = Here /\ CommentAt(place.pos) = "NONE" /\ ~(Here \in Quotes /\ Is("scan_str"))
            /\ Here \notin Digits \cup {"+"}
  PROVE  LexInv'
<1> DEFINE x == place.pos
<1>1. /\ lex = "scan" /\ SameInput /\ Here # NUL /\ ~InString /\ open = began.open
      /\ Misled \/ Begins(x)
      /\ input \in Inputs /\ Size \in Nat /\ x \in 0..(Size - 1) /\ x \in 0..Size
      /\ began.pos <= x /\ began.pos <= x + 1 /\ IsPlace(Moved(place))
         /\ Moved(place).pos = x + 1 /\ Char(x) = Here
      /\ IsPlace(place)
  BY StartFacts
<1>2. ASSUME ~Misled, ~IsSkipChar(chr) PROVE From = x /\ chr = Char(x)
  <2>1. Begins(x) /\ ~IsSkipChar(Char(x)) /\ ~SkippedAt(x)
    BY <1>1, <1>2 DEF SkippedAt
  <2> QED
    BY <1>1, <1>2, <2>1, BeginsHere
<1>3. CASE IsIdentFirst(chr)
  <2>1. GoOn(Token("IDENT"), Moved(place)) /\ open' = open /\ ~IsSkipChar(chr)
    BY <1>3 DEF StartChar, IsIdentFirst, IsSkipChar, Letters
  <2>2. ~Misled => OnTrack(Token("IDENT"), x + 1)
    <3>1. SUFFICES ASSUME ~Misled PROVE OnTrack(Token("IDENT"), x + 1)
      OBVIOUS
    <3>2. x = From /\ chr = Char(x) /\ x < x + 1
      BY <1>1, <1>2, <2>1, <3>1
    <3>3. \A k \in x..(x + 1 - 1) : k = x
      BY <1>1
    <3>4. InWord(x, x + 1)
      <4>1. IsIdentFirst(Char(x)) /\ IsIdent(Char(x))
        BY <1>3, <3>2 DEF IsIdent, IsIdentFirst
      <4>2. \A k \in x..(x + 1 - 1) : IsIdent(Char(k))
        BY <3>3, <4>1
      <4> QED
        BY <1>1, <3>2, <4>1, <4>2 DEF InWord
    <3> QED
      BY <1>1, <3>4, TokenIs DEF OnTrack
  <2>3. "IDENT" \in {"NONE", "IDENT", "STR"} \cup Comments /\ "IDENT" # "STR"
    OBVIOUS
  <2> QED
    BY <1>1, <2>1, <2>2, <2>3, StartsOn
<1>4. CASE ~IsIdentFirst(chr) /\ IsSkipChar(chr)
  <2>1. GoOn(Token("NONE"), Moved(place)) /\ open' = open
    BY <1>4 DEF StartChar
  <2>2. ~Misled => OnTrack(Token("NONE"), x + 1)
    <3>1. SUFFICES ASSUME ~Misled PROVE OnTrack(Token("NONE"), x + 1)
      OBVIOUS
    <3>2. Begins(x) /\ IsSkipChar(Char(x)) /\ x + 1 \in 0..Size
      BY <1>1, <1>4, <3>1
    <3>3. TokenAt(x) = TokenAt(x + 1)
      BY <1>1, <3>2, TokenAtIs DEF Jumps, Jump
    <3>4. Begins(x + 1)
      BY <3>2, <3>3 DEF Begins
    <3> QED
      BY <1>1, <3>4, TokenIs DEF OnTrack
  <2>3. "NONE" \in {"NONE", "IDENT", "STR"} \cup Comments /\ "NONE" # "STR"
    OBVIOUS
  <2> QED
    BY <1>1, <2>1, <2>2, <2>3, StartsOn
<1>5. CASE ~IsIdentFirst(chr) /\ ~IsSkipChar(chr)
  <2>1. Stop(Token("CHAR"), Moved(place), chr)
    BY <1>5 DEF StartChar
  <2>2. ~Misled => Reads(IF chr = "(" THEN "LEFT_PAREN" ELSE "CHAR", x, x + 1)
    <3>1. SUFFICES ASSUME ~Misled PROVE Reads(IF chr = "(" THEN "LEFT_PAREN" ELSE "CHAR", x, x + 1)
      OBVIOUS
    <3>2. x = From /\ chr = Char(x)
      BY <1>2, <1>5, <3>1
    <3>3. Proper(x) = <<IF chr = "(" THEN "LEFT_PAREN" ELSE "CHAR", x + 1>>
      <4>1. CASE Char(x) \in {"#", "/"}
        BY <1>1, <3>1, <3>2, <4>1, ProperIs
      <4>2. CASE Char(x) \notin {"#", "/"}
        <5>1. Plain(x)
          BY <1>1, <4>2 DEF Plain
        <5> QED
          BY <1>1, <1>5, <3>1, <3>2, <5>1, ProperIs
      <4> QED
        BY <4>1, <4>2
    <3> QED
      BY <1>1, <3>2, <3>3, ReadsProper
  <2>3. "CHAR" \notin {"STR", "NONE", "IDENT"} \cup Comments /\ "CHAR" \notin Quotes
    BY DEF Comments, Quotes
  <2> QED
    BY <1>1, <2>1, <2>2, <2>3, StartsEnd
<1> QED
  BY <1>3, <1>4, <1>5

LEMMA OtherKeeps == LexInv /\ StartOther => LexInv'
<1> SUFFICES ASSUME LexInv, StartOther PROVE LexInv'
  OBVIOUS
<1>1. /\ Starts /\ ~(Here \in Quotes /\ Is("scan_str")) /\ Here \notin Digits \cup {"+", "/"}
      /\ ~(Here = "#" /\ Is("scan_comment")) /\ StartChar(place, Here) /\ open' = open
  BY DEF StartOther, StartsStr
<1>2. open' \subseteq Quotes /\ Char(place.pos) = Here
  BY <1>1, StartFacts
<1>3. CommentAt(place.pos) = "NONE"
  BY <1>1, <1>2 DEF CommentAt
<1> QED
  BY <1>1, <1>2, <1>3, CharKeeps

LEMMA HashKeeps == LexInv /\ StartHash => LexInv'
<1> SUFFICES ASSUME LexInv, StartHash PROVE LexInv'
  OBVIOUS
<1> DEFINE x == place.pos
<1>1. Starts /\ Here = "#" /\ Is("scan_comment")
      /\ GoOn(Token("COMMENT_SINGLE"), Moved(place)) /\ open' = open
  BY DEF StartHash
<1>2. /\ Misled \/ Begins(x)
      /\ input \in Inputs /\ Size \in Nat /\ x \in 0..(Size - 1) /\ x \in 0..Size
      /\ began.pos <= x + 1 /\ open \subseteq Quotes
      /\ IsPlace(place) /\ IsPlace(Moved(place)) /\ Moved(place).pos = x + 1 /\ Char(x) = Here
  BY <1>1, StartFacts
<1>3. ASSUME Begins(x) PROVE OnTrack(Token("COMMENT_SINGLE"), x + 1)
  <2>1. CommentAt(x) = "COMMENT_SINGLE"
    BY <1>1, <1>2 DEF CommentAt
  <2>2. ASSUME NEW q \in CommentStops(x) PROVE q >= x + 1 + 1
    <3>1. q - 1 \in x..(Size - 1) /\ Char(q - 1) = "\n" /\ q \in Nat
      BY <1>2, <2>1, StopsAre
    <3>2. q - 1 # x
      BY <1>1, <1>2, <3>1
    <3> QED
      BY <1>2, <3>1, <3>2
  <2>3. InCommentOf(x, x + 1, "COMMENT_SINGLE", 1)
    BY <1>2, <1>3, <2>1, <2>2 DEF InCommentOf, NoStop
  <2> QED
    BY <1>2, <2>3, TokenIs DEF OnTrack
<1>4. "COMMENT_SINGLE" \in {"NONE", "IDENT", "STR"} \cup Comments /\ "COMMENT_SINGLE" # "STR"
  BY DEF Comments
<1> QED
  BY <1>1, <1>2, <1>3, <1>4, StartsOn

LEMMA SlashKeeps == LexInv /\ StartSlash => LexInv'
<1> SUFFICES ASSUME LexInv, StartSlash PROVE LexInv'
  OBVIOUS
<1> DEFINE x == place.pos
           w == Moved(place)
           kind == CommentKind(Ahead(w.pos))
<1>1. /\ Starts /\ Here = "/" /\ open' = open
      /\ IF kind # "NONE" THEN GoOn(Token(kind), Moved(w)) ELSE StartChar(Back(w), Here)
  BY DEF StartSlash
<1>2. /\ Misled \/ Begins(x)
      /\ lex = "scan" /\ Here # NUL /\ ~InString
      /\ input \in Inputs /\ Size \in Nat /\ x \in 0..(Size - 1) /\ x \in 0..Size
      /\ began.pos <= x + 1 /\ open \subseteq Quotes /\ began.pos \in 0..Size
      /\ IsPlace(place) /\ Char(x) = Here
  BY <1>1, StartFacts
<1>3. /\ IsPlace(Moved(w)) /\ x + 1 \in 0..Size
      /\ x + 1 = Size => Moved(w).pos = x + 1 /\ Ahead(w.pos) = input.beyond /\ Char(x + 1) = NUL
      /\ x + 1 < Size => Moved(w).pos = x + 2 /\ Ahead(w.pos) = Char(x + 1) /\ x + 2 \in 0..Size
  BY <1>2, TwoOn
<1>4. Back(w) = place
  <2>1. Char(x) \notin {NUL, "\n"}
    BY <1>1, <1>2 DEF NUL
  <2> QED
    BY <1>2, <2>1, MovedIs
<1>5. kind = CASE Is("scan_comment") /\ Ahead(w.pos) = "/" -> "COMMENT_SINGLE"
               [] Is("scan_comment") /\ Ahead(w.pos) = "*" -> "COMMENT_MULTI"
               [] OTHER -> "NONE"
  BY DEF CommentKind
<1>6. CommentAt(x) = IF ~Is("scan_comment") THEN "NONE"
                     ELSE CASE Char(x + 1) = "/" -> "COMMENT_SINGLE"
                            [] Char(x + 1) = "*" -> "COMMENT_MULTI"
                            [] OTHER -> "NONE"
  BY <1>1, <1>2 DEF CommentAt
<1>7. /\ x + 1 < Size => CommentAt(x) = kind
      /\ x + 1 = Size => CommentAt(x) = "NONE"
      /\ kind # "NONE" => Ahead(w.pos) # NUL
      /\ kind = "NONE" => CommentAt(x) = "NONE"
  <2>1. x + 1 < Size => CommentAt(x) = kind
    BY <1>3, <1>5, <1>6
  <2>2. x + 1 = Size => CommentAt(x) = "NONE"
    <3>1. NUL \notin {"/", "*"}
      BY DEF NUL
    <3> QED
      BY <1>3, <1>6, <3>1
  <2>3. kind # "NONE" => Ahead(w.pos) # NUL
    <3>1. NUL \notin {"/", "*"}
      BY DEF NUL
    <3> QED
      BY <1>5, <3>1
  <2> QED
    BY <1>2, <1>3, <2>1, <2>2, <2>3
<1> HIDE DEF w, kind
<1>8. CASE kind = "NONE"
  <2>1. StartChar(place, Here)
    BY <1>1, <1>4, <1>8
  <2>2. "/" \notin Quotes /\ "/" \notin Digits \cup {"+"}
    BY DEF Quotes, Digits
  <2> QED
    BY <1>1, <1>2, <1>7, <1>8, <2>1, <2>2, CharKeeps
<1>9. CASE kind # "NONE"
  <2>1. GoOn(Token(kind), Moved(w)) /\ kind \in Comments
    BY <1>1, <1>5, <1>9 DEF Comments
  <2>2. began.pos <= Moved(w).pos
    BY <1>2, <1>3
  <2>3. Begins(x) => Misled \/ OnTrack(Token(kind), Moved(w).pos)
    <3>1. SUFFICES ASSUME Begins(x) PROVE Misled \/ OnTrack(Token(kind), Moved(w).pos)
      OBVIOUS
    <3>2. CASE x + 1 = Size
      <4>1. CommentAt(x) = "NONE" /\ ~IsSkipChar(Char(x)) /\ ~SkippedAt(x)
        BY <1>1, <1>2, <1>7, <3>2 DEF SkippedAt, IsSkipChar
      <4>2. From = x
        BY <1>2, <3>1, <4>1, BeginsHere
      <4>3. Proper(x) = <<"CHAR", x + 1>>
        BY <1>1, <1>2, <4>1, ProperIs
      <4>4. Expected = <<"CHAR", Size>>
        BY <1>2, <3>2, <4>2, <4>3 DEF Expected
      <4>5. LooksBehind
        BY <1>1, <1>2, <1>3, <1>7, <1>9, <3>2, <4>2, <4>4 DEF LooksBehind
      <4> QED
        BY <4>5 DEF Misled
    <3>3. CASE x + 1 < Size
      <4>1. CommentAt(x) = kind
        BY <1>7, <3>3
      <4>2. CASE kind = "COMMENT_SINGLE"
        <5>1. ASSUME NEW q \in CommentStops(x) PROVE q >= x + 2 + 1
          <6>1. q - 1 \in x..(Size - 1) /\ Char(q - 1) = "\n" /\ q \in Nat
            BY <1>2, <4>1, <4>2, StopsAre
          <6>2. Char(x + 1) = "/"
            BY <1>3, <1>5, <3>3, <4>2
          <6>3. q - 1 # x /\ q - 1 # x + 1
            BY <1>1, <1>2, <6>1, <6>2
          <6> QED
            BY <1>2, <6>1, <6>3
        <5>2. x + 1 <= x + 2
          BY <1>2
        <5>3. InCommentOf(x, x + 2, "COMMENT_SINGLE", 1)
          BY <3>1, <4>1, <4>2, <5>1, <5>2 DEF InCommentOf, NoStop
        <5> QED
          BY <1>2, <1>3, <3>3, <4>2, <5>3, TokenIs DEF OnTrack
      <4>3. CASE kind = "COMMENT_MULTI"
        <5>1. ASSUME NEW q \in CommentStops(x) PROVE q >= x + 2 + 2
          <6>1. CommentStops(x) \subseteq (x + 4)..Size
            BY <1>2, <4>1, <4>3, StopsIn
          <6> QED
            BY <1>2, <6>1
        <5>2. x + 2 <= x + 2
          BY <1>2
        <5>3. InCommentOf(x, x + 2, "COMMENT_MULTI", 2)
          BY <3>1, <4>1, <4>3, <5>1, <5>2 DEF InCommentOf, NoStop
        <5> QED
          BY <1>2, <1>3, <3>3, <4>3, <5>3, TokenIs DEF OnTrack
      <4> QED
        BY <2>1, <4>2, <4>3 DEF Comments
    <3> QED
      BY <1>2, <1>3, <3>2, <3>3
  <2>4. kind \in {"NONE", "IDENT", "STR"} \cup Comments /\ kind # "STR"
    BY <2>1 DEF Comments
  <2> QED
    BY <1>1, <1>2, <1>3, <2>1, <2>2, <2>3, <2>4, StartsOn
<1> QED
  BY <1>8, <1>9

LEMMA QuoteKeeps == LexInv /\ StartQuote => LexInv'
<1> SUFFICES ASSUME LexInv, StartQuote PROVE LexInv'
  OBVIOUS
<1> DEFINE x == place.pos
           q == Here
<1>1. /\ Starts /\ q \in Quotes /\ Is("scan_str")
      /\ open' = IF q \in open THEN open \ {q} ELSE open \cup {q}
      /\ \/ ~Is("skip_str") /\ Stop(Token(q), Moved(place), q)
         \/ Is("skip_str") /\ q \notin open /\ GoOn(Token("STR"), Moved(place))
         \/ Is("skip_str") /\ q \in open /\ StartChar(place, q)
  BY DEF StartQuote, StartsStr
<1>2. /\ Misled \/ Begins(x)
      /\ lex = "scan" /\ Here # NUL /\ ~InString /\ open = began.open
      /\ input \in Inputs /\ Size \in Nat /\ x \in 0..(Size - 1) /\ x \in 0..Size
      /\ began.pos <= x + 1 /\ open \subseteq Quotes /\ began.pos \in 0..Size
      /\ IsPlace(place) /\ Char(x) = q /\ IsPlace(Moved(place)) /\ Moved(place).pos = x + 1
  BY <1>1, StartFacts
<1> HIDE DEF q
<1>3. open' \subseteq Quotes
  BY <1>1, <1>2
<1>4. q \notin {" ", "\n", "#", "/", "IDENT", "STR", "NONE", "CHAR", "COMMENT_SINGLE", "COMMENT_MULTI", NUL}
      /\ ~IsIdentFirst(q) /\ ~IsSkipChar(q)
  BY <1>1 DEF Quotes, NUL, IsIdentFirst, Letters, IsSkipChar
<1>5. CommentAt(x) = "NONE" /\ Plain(x)
  BY <1>2, <1>4, NoComment DEF Plain
<1>6. Begins(x) => From = x
  BY <1>2, <1>4, NoComment, BeginsHere
<1>7. CASE ~Is("skip_str") /\ Stop(Token(q), Moved(place), q)
  <2>1. Begins(x) => Reads(q, x, x + 1)
    <3>1. Proper(x) = <<q, x + 1>>
      BY <1>1, <1>2, <1>5, <1>7, ProperIs
    <3> QED
      BY <1>2, <1>6, <3>1, ReadsProper
  <2>2. q \notin {"STR", "NONE", "IDENT"} \cup Comments /\ q # "CHAR"
    BY <1>4 DEF Comments
  <2>3. Misled \/ Reads(IF q = "CHAR" /\ q = "(" THEN "LEFT_PAREN" ELSE q, place.pos, Moved(place).pos)
    BY <1>2, <2>1, <2>2
  <2> QED
    BY <1>1, <1>2, <1>3, <1>7, <2>2, <2>3, StartsEnd
<1>8. CASE Is("skip_str") /\ q \notin open /\ GoOn(Token("STR"), Moved(place))
  <2>1. Begins(x) => OnTrack(Token("STR"), x + 1)
    <3>1. SUFFICES ASSUME Begins(x) PROVE OnTrack(Token("STR"), x + 1)
      OBVIOUS
    <3>2. Unquoted(x + 1, x + 1, FALSE) /\ x < x + 1
      <4>1. x + 1 \in Nat /\ x < x + 1
        BY <1>2
      <4> QED
        BY <4>1, NoQuoteHere
    <3>3. InStrOf(x, x + 1, FALSE)
      BY <1>1, <1>2, <1>5, <1>6, <3>1, <3>2 DEF InStrOf
    <3>4. Token("STR").tok = "STR" /\ Token("STR").from = x /\ Token("STR").esc = FALSE
      BY <1>2, TokenIs
    <3>5. InStrOf(Token("STR").from, x + 1, Token("STR").esc)
      BY <3>3, <3>4, Zenon
    <3> QED
      BY <3>4, <3>5 DEF OnTrack
  <2>2. "STR" \in {"NONE", "IDENT", "STR"} \cup Comments /\ open' # {}
    BY <1>1, <1>8
  <2>3. Misled \/ OnTrack(Token("STR"), Moved(place).pos)
    BY <1>2, <2>1
  <2> QED
    BY <1>1, <1>2, <1>3, <1>8, <2>2, <2>3, StartsOn
<1>9. CASE Is("skip_str") /\ q \in open /\ StartChar(place, q)
  <2>1. Misled
    BY <1>2, <1>9 DEF QuoteStays, Misled
  <2> QED
    BY <1>1, <1>3, <1>4, <1>9, <2>1, CharKeeps
<1> QED
  BY <1>1, <1>7, <1>8, <1>9

LEMMA NumberKeeps == LexInv /\ StartNumber => LexInv'
<1> SUFFICES ASSUME LexInv, StartNumber PROVE LexInv'
  OBVIOUS
<1> DEFINE x == place.pos
           w == Moved(place)
           n == Number(place.pos)
           v == [place EXCEPT !.pos = @ + n, !.col = @ + n]
<1>1. /\ Starts /\ Here \in Digits \cup {"+"} /\ open' = open
      /\ \/ n = 0 /\ StartChar(Back(w), Ahead(w.pos))
         \/ n # 0 /\ x + n > Size /\ Give("hung")
         \/ n # 0 /\ ~(x + n > Size) /\ Stop(Token("INT"), v, Here)
  <2>1. /\ Starts /\ Here \in Digits \cup {"+"} /\ open' = open
        /\ CASE n = 0                -> StartChar(Back(w), Ahead(w.pos))
             [] place.pos + n > Size -> Give("hung")
             [] OTHER                -> Stop(Token("INT"), v, Here)
    BY DEF StartNumber
  <2>2. n = 0 => ~(place.pos + n > Size)
    BY <2>1, StartFacts
  <2> HIDE DEF n, v, w
  <2> QED
    BY <2>1, <2>2
<1>2. /\ Misled \/ Begins(x)
      /\ lex = "scan" /\ Here # NUL /\ ~InString /\ SameInput
      /\ input \in Inputs /\ Size \in Nat /\ x \in 0..(Size - 1) /\ x \in 0..Size
      /\ open \subseteq Quotes
      /\ IsPlace(place) /\ Char(x) = Here /\ IsPlace(w) /\ w.pos = x + 1
  BY <1>1, StartFacts
<1>3. /\ x + 1 = Size => Char(x + 1) = NUL
      /\ x + 1 < Size => Ahead(x + 1) = Char(x + 1)
  BY <1>2, TwoOn
<1>4. Here \notin {NUL, " ", "\n", "#", "/"} /\ Here \notin Quotes
      /\ ~IsIdentFirst(Here) /\ ~IsSkipChar(Here)
  BY <1>1 DEF Digits, Quotes, NUL, IsIdentFirst, Letters, IsSkipChar
<1>5. CommentAt(x) = "NONE" /\ Plain(x)
  BY <1>2, <1>4, NoComment DEF Plain
<1>6. Begins(x) => From = x
  BY <1>2, <1>4, NoComment, BeginsHere
<1>7. LET s == IF Char(x) = "+" THEN x + 1 ELSE x IN
      /\ n \in Nat
      /\ n = 0 => Char(x) = "+" /\ Ahead(x + 1) \notin Digits
      /\ n # 0 /\ x + n <= Size => /\ s \in x..(x + n - 1) /\ s < x + n /\ Char(s) \in Digits
                                   /\ NumberFrom(s) = x + n
                                   /\ \A k \in x..(x + n - 1) : Char(k) \in Digits \cup {"+"}
      /\ x + n > Size => input.beyond \in Digits /\ Char(Size - 1) \in Digits \cup {"+"}
  BY <1>1, <1>2, NumberIs
<1>8. Back(w) = place
  BY <1>2, <1>4, MovedIs
<1> HIDE DEF x, w, n
<1>9. CASE n = 0 /\ StartChar(Back(w), Ahead(w.pos))
  <2>1. StartChar(place, Ahead(w.pos))
    BY <1>8, <1>9
  <2>2. Char(x + 1) \notin Digits
    <3>1. NUL \notin Digits
      BY DEF Digits, NUL
    <3>2. x + 1 = Size \/ x + 1 < Size
      BY <1>2
    <3> QED
      BY <1>3, <1>7, <1>9, <3>1, <3>2
  <2>3. Misled
    <3>1. CASE Begins(x)
      <4>1. BareSign
        BY <1>2, <1>6, <1>7, <1>9, <2>2, <3>1 DEF BareSign
      <4> QED
        BY <4>1 DEF Misled
    <3> QED
      BY <1>2, <3>1
  <2> QED
    BY <1>1, <1>2, <2>1, <2>3, CharKeeps
<1>10. CASE x + n > Size /\ Give("hung")
  BY <1>1, <1>2, <1>7, <1>10, GiveKeeps
<1>11. CASE n # 0 /\ ~(x + n > Size) /\ Stop(Token("INT"), v, Here)
  <2> DEFINE m == x + n
  <2>1. m <= Size /\ m \in 0..Size /\ m \in x..Size /\ n = m - x
    BY <1>2, <1>7, <1>11
  <2>2. \A k \in x..(m - 1) : Char(k) # "\n"
    <3>1. "\n" \notin Digits \cup {"+"}
      BY DEF Digits
    <3>2. \A k \in x..(m - 1) : Char(k) \in Digits \cup {"+"}
      <4>1. n # 0 /\ x + n <= Size
        BY <1>11, <2>1
      <4> QED
        BY <1>2, <1>7, <4>1
    <3> QED
      BY <3>1, <3>2
  <2>3. IsPlace(v) /\ v.pos = m
    <3>1. place = [pos |-> place.pos, line |-> place.line, col |-> place.col] /\ place.pos = x
          /\ place.line = LineAt(x) /\ place.col = ColAt(x)
      BY <1>2 DEF IsPlace, OnLine, x
    <3>2. v = [pos |-> place.pos + n, line |-> place.line, col |-> place.col + n]
      <4>1. v = [place EXCEPT !.pos = place.pos + n, !.col = place.col + n]
        BY Zenon
      <4>2. place = [pos |-> place.pos, line |-> place.line, col |-> place.col]
        BY <3>1
      <4> HIDE DEF v, m
      <4> QED
        BY <4>1, <4>2
    <3> HIDE DEF v, m
    <3>3. LineAt(m) = LineAt(x) /\ ColAt(m) = ColAt(x) + n
      BY <1>2, <2>1, <2>2, LineOn
    <3>4. v.pos = m /\ v.line = LineAt(m) /\ v.col = ColAt(m)
      BY <3>1, <3>2, <3>3 DEF m
    <3>5. v = [pos |-> v.pos, line |-> v.line, col |-> v.col]
      BY <3>2
    <3> QED
      BY <2>1, <3>4, <3>5 DEF IsPlace, OnLine
  <2>4. Begins(x) => Reads("INT", x, m)
    <3>1. SUFFICES ASSUME Begins(x) PROVE Reads("INT", x, m)
      OBVIOUS
    <3>2. Proper(x) = <<"INT", m>>
      <4>1. CASE Char(x) = "+"
        <5>1. Char(x + 1) \in Digits /\ NumberFrom(x + 1) = m
          BY <1>7, <1>11, <2>1, <4>1
        <5> QED
          BY <1>5, <4>1, <5>1, ProperIs
      <4>2. CASE Char(x) # "+"
        <5>1. Char(x) \in Digits /\ NumberFrom(x) = m
          BY <1>7, <1>11, <2>1, <4>2
        <5> QED
          BY <1>5, <5>1, ProperIs
      <4> QED
        BY <4>1, <4>2
    <3> HIDE DEF m
    <3> QED
      BY <1>2, <1>6, <3>1, <3>2, ReadsProper
  <2>5. "INT" \notin {"STR", "NONE", "IDENT"} \cup Comments /\ "INT" \notin Quotes
    BY DEF Comments, Quotes
  <2> HIDE DEF v, m
  <2>6. Misled \/ Reads(IF "INT" = "CHAR" /\ Here = "(" THEN "LEFT_PAREN" ELSE "INT", place.pos, v.pos)
    BY <1>2, <2>3, <2>4 DEF x
  <2> QED
    BY <1>1, <1>2, <1>11, <2>3, <2>5, <2>6, StartsEnd
<1> QED
  BY <1>1, <1>9, <1>10, <1>11

LEMMA LexSteps == LexInv /\ [LexNext]_lexVars => LexInv'
<1> SUFFICES ASSUME LexInv, [LexNext]_lexVars PROVE LexInv'
  OBVIOUS
<1>1. CASE UNCHANGED lexVars
  <2>1. /\ input' = input /\ began' = began /\ cur' = cur /\ place' = place /\ open' = open
        /\ lex' = lex /\ term' = term
    BY <1>1 DEF lexVars
  <2>2. Standing /\ TokenRight /\ (lex = "scan" => Scanned(cur, place.pos, open))
    BY DEF LexInv
  <2>3. input' \in Inputs /\ Standing'
    <3>1. IsPlace(place') /\ open' \subseteq Quotes
      BY <2>1, <2>2 DEF Standing
    <3> QED
      BY <2>1, <3>1, StandingNext
  <2>4. Scanned(cur, place.pos, open)' <=> Scanned(cur, place.pos, open)
    BY <2>1, ScannedSame
  <2>5. TokenRight'
    <3>1. (StringGoesOn' <=> StringGoesOn) /\ Expected' = Expected /\ From' = From
          /\ (Misled' <=> Misled)
      BY <2>1, AskedSame DEF StringGoesOn
    <3>2. /\ LineAt(term.from)' = LineAt(term.from) /\ ColAt(term.from)' = ColAt(term.from)
          /\ (Is("skip_comment")' <=> Is("skip_comment")) /\ Char(Size - 1)' = Char(Size - 1)
      BY <2>1, TextSame
    <3>3. CASE lex = "read"
      BY <2>1, <2>2, <3>1, <3>2, <3>3 DEF TokenRight
    <3>4. CASE lex = "aborted"
      BY <2>1, <2>2, <3>1, <3>2, <3>4 DEF TokenRight
    <3>5. CASE lex = "hung"
      BY <2>1, <2>2, <3>1, <3>2, <3>5 DEF TokenRight
    <3>6. CASE lex \notin {"read", "aborted", "hung"}
      BY <2>1, <3>6 DEF TokenRight
    <3> QED
      BY <3>3, <3>4, <3>5, <3>6
  <2> QED
    BY <2>1, <2>2, <2>3, <2>4, <2>5 DEF LexInv
<1>2. CASE LexNext
  BY <1>2, BeginKeeps, UngetKeeps, EndsKeeps, SingleKeeps, MultiKeeps, IdentKeeps, StrKeeps, TwoKeeps,
     QuoteKeeps, NumberKeeps, SlashKeeps, HashKeeps, OtherKeeps DEF LexNext
<1> QED
  BY <1>1, <1>2

LEMMA LexStarts == ASSUME NEW i \in Inputs, LexStart(i) PROVE LexInv
<1>1. /\ input = i /\ lex = "ready" /\ place = [pos |-> 0, line |-> 1, col |-> 1] /\ open = {}
      /\ term = [tok |-> "NONE", from |-> 0, line |-> 0, col |-> 0]
      /\ began = [pos |-> 0, open |-> {}, term |-> term]
  BY DEF LexStart
<1>2. input \in Inputs /\ Size \in Nat /\ 0 \in 0..Size
  BY <1>1, TextIs
<1>3. IsPlace(place)
  BY <1>1, <1>2, LineFirst DEF IsPlace
<1>4. term.tok = "NONE" /\ began.pos = 0 /\ began.term.tok = "NONE"
  BY <1>1
<1>5. "NONE" \notin Quotes
  BY DEF Quotes
<1>6. Standing
  BY <1>1, <1>2, <1>3, <1>4, <1>5 DEF Standing
<1> QED
  BY <1>1, <1>2, <1>6 DEF LexInv, TokenRight

(* Where a text is not what the behaviour is about, none is read.          *)
TextInv == IF part = "text" THEN LexInv ELSE lex = "ready"

(* A token that is read, or read again, is what the text has at that place *)
(* or one of six known errors misled the lexer; and it fails an assertion, *)
(* or hangs, only where TokenRight says, for any texts and options.        *)
THEOREM TokenSafety == IntakeSpec => []TokenRight
<1>1. IntakeInit => TextInv
  <2> SUFFICES ASSUME IntakeInit PROVE TextInv
    OBVIOUS
  <2>1. CASE part = "text"
    <3>1. PICK i \in Inputs : LexStart(i)
      BY <2>1 DEF IntakeInit, LexInit
    <3> QED
      BY <2>1, <3>1, LexStarts DEF TextInv
  <2>2. CASE part # "text"
    <3>1. LexStart(NoInput)
      BY <2>2 DEF IntakeInit
    <3> QED
      BY <2>2, <3>1 DEF TextInv, LexStart
  <2> QED
    BY <2>1, <2>2
<1>2. TextInv /\ [IntakeNext]_intakeVars => TextInv'
  <2> SUFFICES ASSUME TextInv, [IntakeNext]_intakeVars PROVE TextInv'
    OBVIOUS
  <2>1. part' = part /\ (part = "text" => [LexNext]_lexVars) /\ (part # "text" => UNCHANGED lexVars)
    BY DEF IntakeNext, intakeVars, CheckStr, CheckSpf, CheckRbl
  <2>2. CASE part = "text"
    BY <2>1, <2>2, LexSteps DEF TextInv
  <2>3. CASE part # "text"
    BY <2>1, <2>3 DEF TextInv, lexVars
  <2> QED
    BY <2>2, <2>3
<1>3. TextInv => TokenRight
  BY DEF TextInv, LexInv, TokenRight
<1> QED
  BY <1>1, <1>2, <1>3, PTL DEF IntakeSpec

(* What holds of the parts holds of them side by side: of the requests     *)
(* that are read, the context that is made, the list that is built, the    *)
(* dict that answers and the tokens of a text.                             *)
THEOREM IntakeSafety ==
  IntakeSpec => [](LinesRight /\ DomainFits /\ BuiltOnce /\ ListKept /\ AnswerInBounds /\ TokenRight)
<1>1. AnswerInv => ListKept /\ AnswerInBounds
  BY KeptFromInv DEF AnswerInv
<1>2. IntakeSpec => [](ListKept /\ AnswerInBounds)
  BY <1>1, AnswerStarts, AnswerSteps, PTL DEF IntakeSpec
<1>3. IntakeSpec => [](LinesRight /\ DomainFits)
  BY IntakeReads, LinesSafety, DomainSafety, PTL
<1>4. IntakeSpec => []BuiltOnce
  BY IntakeBuilds, BuiltFromInv, PTL
<1> QED
  BY <1>2, <1>3, <1>4, TokenSafety, PTL
=============================================================================
