--------------------------- MODULE MCLibraryLoader ---------------------------
(***************************************************************************)
(* Instances of LibraryLoader for TLC: more classes than threads, so that  *)
(* a thread that saw a failure comes back with another class.              *)
(***************************************************************************)
EXTENDS LibraryLoader, TLC

Symmetry == Permutations(Threads) \cup Permutations(Classes)
=============================================================================
