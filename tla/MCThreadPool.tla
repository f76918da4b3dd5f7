---------------------------- MODULE MCThreadPool ----------------------------
(* Instances of ThreadPool for TLC.                                        *)
EXTENDS ThreadPool, TLC

(* Threads, callers and tasks are interchangeable. *)
Symmetry ==
  Permutations(Threads) \cup Permutations(Pushers) \cup Permutations(Tasks)
=============================================================================
