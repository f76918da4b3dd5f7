------------------------------ MODULE BlockList ------------------------------
(***************************************************************************)
(* slist.c and rbl.c: the weights of a block list, a linked list of nodes  *)
(* that is built from the configuration and then sorted by moving links,   *)
(* so that the smaller networks come first; and the weight of the heaviest *)
(* network that the addresses of an answer fall into.                      *)
(*                                                                         *)
(* Addresses are numbers of Width bits; memory may run out at every step.  *)
(* A node carries its weight, and is freed with it; `heap` says which are. *)
(***************************************************************************)
EXTENDS Integers, Sequences, FiniteSets

CONSTANTS
  Width,       \* bits of an address
  Sections,    \* the configured lists: sequences of CIDRs, the first "127.0.0.0/8"
  BadBits      \* a number of bits, or a network, that cannot be read

ASSUME BlockListAssumption ==
  /\ Width \in Nat \ {0} /\ BadBits \notin 0..Width
  /\ \A cidrs \in Sections : cidrs \in Seq([network : Int, bits : Int, points : Int])

VARIABLES
  section,     \* what the list is made from
  phase,       \* make, sort, ready, failed, gone
  heap,        \* node -> unused, live or freed
  next,        \* vt_slist_t.next; Nil ends a list
  first,       \* root of vt_rbl_create, then rbl->weights
  prev1, cur1  \* of vt_slist_sort

listVars == <<section, phase, heap, next, first, prev1, cur1>>

Nil == 0
Nodes == DOMAIN section

\* The configured weight is in halves; (int)points drops them, towards 0.
Whole(points) == IF points >= 0 THEN points \div 2 ELSE -((-points) \div 2)
Weight(i) == [section[i] EXCEPT !.points = Whole(@)]

\* The nodes from i on, in order.
Onward(nx, s) == IF s = <<>> \/ nx[s[Len(s)]] = Nil THEN s ELSE Append(s, nx[s[Len(s)]])
Linked(nx, i) ==
  LET from[n \in 0..Len(section)] ==
        IF n = 0 THEN IF i = Nil THEN <<>> ELSE <<i>> ELSE Onward(nx, from[n - 1])
  IN  from[Len(section)]

\* vt_slist_length
Length(nx, i) == Len(Linked(nx, i))

(***************************************************************************)
(* vt_rbl_create                                                           *)
(***************************************************************************)

ListStart(cidrs) ==
  /\ section = cidrs
  /\ phase = "make" /\ first = Nil /\ prev1 = Nil /\ cur1 = Nil
  /\ heap = [i \in Nodes |-> "unused"] /\ next = [i \in Nodes |-> Nil]

ListInit == \E cidrs \in Sections : ListStart(cidrs)

\* vt_slist_insert of the new node: how many nodes it goes behind
Place(n, pos) == IF pos >= 0 THEN (IF pos < n THEN pos ELSE n)
                 ELSE IF -pos > n THEN 0 ELSE n - (-pos) + 1
Inserted(nx, list, node, pos) ==
  LET old  == Linked(nx, list)
      n    == Place(Len(old), pos)
      prev == IF n = 0 THEN Nil ELSE old[n]
      nxt  == IF n = 0 THEN list ELSE nx[prev]
  IN  [i \in DOMAIN nx |-> IF i = node THEN nxt ELSE IF i = prev THEN node ELSE nx[i]]

\* vt_rbl_weight_create and vt_slist_append of the next weight
Listed == {i \in Nodes : heap[i] # "unused"}
Building == Cardinality(Listed) + 1
MakeWeight ==
  /\ phase = "make" /\ Building \in Nodes
  /\ Weight(Building).bits # BadBits
  /\ heap' = [heap EXCEPT ![Building] = "live"]
  /\ next' = Inserted(next, first, Building, -1)
  /\ first' = IF first = Nil THEN Building ELSE first
  /\ UNCHANGED <<section, phase, prev1, cur1>>

\* vt_slist_free with a function: num nodes of the list, all of them for 0
Freed(list, num) ==
  LET all  == Linked(next, list)
      gone == {all[k] : k \in {j \in DOMAIN all : num = 0 \/ j <= num}}
  IN  [i \in Nodes |-> IF i \in gone THEN "freed" ELSE heap[i]]

\* A bad network, or no memory for the rbl, the zone, a weight or its node: rbl->weights
\* is not set yet, so that vt_rbl_destroy leaves the list to be freed from its root.
WeightFails ==
  /\ phase = "make" /\ Building \in Nodes
  /\ phase' = "failed"
  /\ heap' = Freed(first, 0)
  /\ UNCHANGED <<section, next, first, prev1, cur1>>

StartSort ==
  /\ phase = "make" /\ Building \notin Nodes
  /\ phase' = "sort" /\ prev1' = Nil /\ cur1' = first
  /\ UNCHANGED <<section, heap, next, first>>

(***************************************************************************)
(* vt_slist_sort: one round puts the least of the rest before cur1         *)
(***************************************************************************)

\* vt_rbl_weight_sort: the longer netmask comes first
Cmp(i, j) == Weight(j).bits - Weight(i).bits

\* The first of the least, in the list from cur1 on.
Least_Bug(seq) ==
  CHOOSE k \in DOMAIN seq :
    /\ \A j \in DOMAIN seq : Cmp(seq[k], seq[j]) <= 0
    /\ \A j \in DOMAIN seq : Cmp(seq[k], seq[j]) = 0 => j <= k
Least(seq) ==
  CHOOSE k \in DOMAIN seq :
    /\ \A j \in DOMAIN seq : Cmp(seq[k], seq[j]) <= 0
    /\ \A j \in 1..(k - 1) : Cmp(seq[k], seq[j]) < 0

SortRound ==
  /\ phase = "sort" /\ cur1 # Nil
  /\ LET rest == Linked(next, cur1)
         k    == Least(rest)
         sub  == rest[k]
     IN  /\ next' = IF sub = cur1 THEN next
                    ELSE [i \in Nodes |->
                            CASE i = sub         -> cur1
                              [] i = rest[k - 1] -> next[sub]
                              [] i = prev1       -> sub
                              [] OTHER           -> next[i]]
         /\ first' = IF prev1 = Nil THEN sub ELSE first
         /\ prev1' = sub
         /\ cur1' = IF sub = cur1 THEN next[cur1] ELSE cur1
  /\ UNCHANGED <<section, phase, heap>>

EndSort ==
  /\ phase = "sort" /\ cur1 = Nil
  /\ phase' = "ready"
  /\ UNCHANGED <<section, heap, next, first, prev1, cur1>>

\* vt_rbl_destroy
DestroyList ==
  /\ phase = "ready"
  /\ phase' = "gone"
  /\ heap' = Freed(first, 0)
  /\ UNCHANGED <<section, next, first, prev1, cur1>>

(***************************************************************************)
(* vt_rbl_check, vt_rbl_max_weight, vt_rbl_min_weight                      *)
(***************************************************************************)

Weights == [k \in DOMAIN Linked(next, first) |-> Weight(Linked(next, first)[k])]

\* netmask: the first `bits` bits
Masked(address, bits) == address \div 2^(Width - bits)
Within(address, w) == Masked(address, w.bits) = Masked(w.network, w.bits)
Hits(addresses) == {k \in DOMAIN Weights : \E a \in addresses : Within(a, Weights[k])}

\* The weight the answer gets, if any network fits.
Heaviest(addresses) ==
  {Weights[k].points : k \in {h \in Hits(addresses) : \A j \in Hits(addresses) : Weights[j].points <= Weights[h].points}}

MaxOf(S) == CHOOSE n \in S : \A m \in S : m <= n
MinOf(S) == CHOOSE n \in S : \A m \in S : n <= m
Points == {Weights[k].points : k \in DOMAIN Weights}
MaxWeight == MaxOf({0} \cup Points)
MinWeight == MinOf({0} \cup Points)

ListNext == MakeWeight \/ WeightFails \/ StartSort \/ SortRound \/ EndSort \/ DestroyList
ListSpec == ListInit /\ [][ListNext]_listVars

(***************************************************************************)
(* Properties                                                              *)
(***************************************************************************)

(* slist.c, while links are moved about: after every round the list has    *)
(* every node once, those before cur1 are in their final order, and what   *)
(* was of equal length stays in the order of the configuration; nothing is *)
(* freed before its time, and when the list could not be made, or is       *)
(* destroyed, everything is.                                               *)
Before(i, j) == Weight(i).bits > Weight(j).bits \/ (Weight(i).bits = Weight(j).bits /\ i < j)
ListKept ==
  LET list == Linked(next, first)
      at(i) == CHOOSE k \in DOMAIN list : list[k] = i
      done == IF cur1 = Nil THEN Len(list) ELSE at(cur1) - 1
  IN  /\ phase \in {"make", "sort", "ready"} =>
           /\ {list[k] : k \in DOMAIN list} = Listed /\ Len(list) = Cardinality(Listed)
           /\ \A i \in Listed : heap[i] = "live"
      /\ phase \in {"sort", "ready"} =>
           \A k \in 1..done : \A j \in (k + 1)..Len(list) : Before(list[k], list[j])
      /\ phase \in {"failed", "gone"} => \A i \in Nodes : heap[i] # "live"
=============================================================================
