--------------------------- MODULE MCNativeHandle ---------------------------
(***************************************************************************)
(* Instances of NativeHandle for TLC.                                      *)
(***************************************************************************)
EXTENDS NativeHandle, TLC

\* Threads, objects and addresses are interchangeable.
Symmetry ==
  Permutations(Threads) \cup Permutations(Handles) \cup Permutations(Boxes)
=============================================================================
